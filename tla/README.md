# arc-storage in TLA+

Specifications, model checks and proofs for arc-storage, the service that
receives sensor frames over a gRPC stream, buffers them per sensor, hands the
buffers to a file cache and answers history queries. All paths below are
relative to `src/`.

## The system

| Part | Code | State | Operations |
|---|---|---|---|
| gRPC stream, dispatch, decode | `pkg/protostream`, `pkg/handles.go:374`, `pkg/decode.go` | `grpcmessage`, `decodeJobChans[i]`, `decodeResultChans[i]` | `FrameDataCallback` sends to `grpcmessage`; `gRPCServerStream` dispatches by sensor id to a job channel; `decodeWorker` parses packets and writes to Kafka |
| frame workers | `pkg/handles.go:276` | `DataCache` (a volume per sensor), `timeoutSyncMap` | `handleDecodeResult`: frames, timeouts and signals in one select |
| timeout walker | `pkg/handles.go:131`, `:424` | ticker | every minute pushes the sensors that fell silent to `timeoutChans[i]` |
| sensor id publisher | `pkg/handles.go:150`, `:167` | `sensorIDsChan` | passes ids to the gossip cache |
| file cache task queues | `pkg/arc_volume/queue*.go` | a channel, a worker per queue, a task object per request | `DoTask`, `queue.start`, `Close` |
| big files and history | `pkg/arc_volume/arc_volume_cache.go`, `pkg/util/file_util.go`, `time_util.go` | files | `readDataLogic`, `writeDataLogic`, file names, day lists |
| shutdown | `pkg/handles.go:252`, `pkg/component` | `once`, `stop`, signals | close stream, quit walk, sleep, `SafeClose` |
| connection pool | `pkg/arc_grpc` | `current`, `ref`, `conns`, a RWMutex | `Get`, `conn.Close`, growing, shrinking |
| Kafka buffer | `pkg/kafka` | rows per sensor | `append`, `flush`, `Start`, `Stop` |
| crontab, cache, util, HTTP API, configuration | `pkg/crontab`, `pkg/cache`, `pkg/util`, `pkg/storage.go`, `pkg/api.go`, `pkg/config`, `pkg/metric`, `cmd` | | |

How they meet: frames flow stream -> dispatch -> decode -> worker through
channels that block when full, and one sensor always takes the same channels.
A worker writes by submitting a task to the queue its sensor hashes to and
*waits* for it, so a queue that does not move stops the worker and, back
through the channels, the stream. History reads share those queues and have
a deadline of ten seconds; writes have none. Walker and worker share
`timeoutSyncMap` and a timeout channel. `Close` may be run by `Start` or by any
worker that catches a signal.

What is hard here: caller, queue worker and handler goroutine of one task share
its fields without a lock; a deadline may pass between any two of their steps;
a timeout in a channel is old when it is read; several goroutines share one
signal channel; channels are closed while others may send; the pool grows and
shrinks under clients that hold its connections. `PROJECT.json` lists these
hazards one by one with the properties that watch them.

What makes each part correct:

- queues: tasks of a queue run in order and one at a time, except those past
  their deadline; every caller returns, with its own answer or a timeout; an
  accepted task is not forgotten by `Close`;
- workers and walker: no frame taken from the channel is lost, what is written
  for a sensor are consecutive frames, in order and repeated at borders only,
  what a walk finds idle is flushed, and silent sensors are found if walks are on time;
- shutdown: the quit walk comes before the end of the queues, it ends, and an
  unhurried end leaves nothing unwritten but what `timeoutSyncMap` does not know;
- stream to worker: a line per stream and sensor, without loss but for what
  follows a frame that cannot be decoded, and one worker per sensor;
- Kafka buffer: each kept row is sent once, in order, and before the client closes
  if it was there when `Stop` was called;
- history list: the files that overlap a range, in order, whatever lies in other
  directories, but for one that a shorter file of the same start hides;
- pool: a connection in use is open, references and slots balance, the lock
  is released on every path.

## Modules

`SerialExecutor` is the abstract promise of the queues: a line of accepted
tasks per queue, at most one task that keeps the queue busy, tasks past their
deadline excepted.

`TaskQueue` models `queue.go` and `queue_task.go` in full. A caller
(`Submit`, `Insert`, `InsertTimeout`, `InsertPanic`, `SeeStart`, `StartTimeout`,
`SeeComplete`, `DoneTimeout`, `Timeout`, `SetErr`, `Collect`) follows the three
select statements of `DoTask` and the unlocked reads of the result; a worker
(`WRecv`, `WCheck`, `WStart`, `WNext`, `WExit`) follows `queue.start`; a handler
(`HRun`, `HStore`, `HCount`, `HComplete`) stores the two result fields in either
order. One action is what a goroutine does between two points at which another
one can see it. `startCh` and `completeCh` are represented by `handler[t]`, the
expire flag by the set `expire`. What a handler computes is the class of answer
of `readDataLogic` and `writeDataLogic`: 504 after the deadline, 300 for long
ranges, 404 because the list of files is never filled, nil for every write
because `isFirst` is never set. `ImplementsSerialExecutor` is the refinement; its
mapping puts the task in the worker's hands at the head of the line.

`FramePipe` is what the way from a stream to a worker promises: a line per
stream and sensor. `Dispatch` models that way: `Recv` and `SendMessage` of
`FrameDataCallback`, `TakeMessage`, `DispatchMessage` and `SignalDispatcher` of
`gRPCServerStream`, `DecodeJob` and `Output` of `decodeWorker`, `TakeResult` of the
frame worker, with the three channels and their capacities. `Decode` is the index
loop of `decode` over the lengths of the fields, and the mapping to `FramePipe`
uses the plain definition `Decodable` instead, so `ImplementsFramePipe` also checks
the loop. Messages consist of whole frames of one sensor, whose id is the
message's key: this is what the code assumes of its clients and does not test.
The lengths of the external protocol follow from `ParsedFrameConstructor` (a frame
has `Size + 9` bytes).

`KafkaBuffer` models `pkg/kafka`: `LookUp` and `AppendRow` in the decoder of a
sensor; `Visit`, `LoadCount`, `InsertLock`, `Send`, `Reset` and `EndRange` in both
flushers, the ticker and `Stop`; `Tick`, `CtxDone`, `StopCalled`, `Delete`. The
unlocked read of `count` in `flush` and the lock in `insert` are separate steps.

`History` models `getSensorLists`: `Request` with its day list, one `ListDay` per
directory, `Filter`. A name on disk is its place in the directory, the number of
its parts, and the times in it; files may come at any time. `GetDaysDiffer` is the
loop of the code, and `Listed` what `GetBigFileLists` takes before its first error.
The listing is a map from start to name, so of two files of one start the later name
(`Latest`) stays, also when it ends before the range and the other one does not:
`OverlapIsListed` grants exactly this exception.

`FrameLog` is what the workers promise for each sensor, without buffers, channels
and timeouts: the frames that arrived are written in batches of consecutive
frames, in order and without a gap, and the last frame of a batch may be written
once more as the first of the next.

`Ingest` models the running data path per frame: `Receive` (what `FramePipe` promises,
in one step per frame), the worker
(`FirstFrame`, `NextFrame`, `Written`, `Notify`, `Update`, `NothingToFlush`,
`Flush`, `Flushed`), the consumer of `sensorIDsChan` (`HaveSensorIDs`), the gossip
timer that fills it beside the workers (`GossipTick`, `GossipSend`), and the walker
(`StartWalk`, `Visit`, `Push`). `ImplementsFrameLog` is the refinement, with `sent` and
`jobs` for what has arrived and what is written.
Frames are numbers, a volume's buffer is a sequence of them, `jobs[s]` is what
write tasks of `s` have acknowledged. A write task is a single step here: that a
caller with no deadline gets its own handler's answer, in order and without
overlap, is what `TaskQueue` shows. Time (`Pass`) runs whatever the goroutines do. It
is seen as the age of each entry of `timeoutSyncMap`, and a tick comes every `Minute`
units into the walker's channel, which has room for one (`tick`). A walk begins when the
walker gets to its tick, looks at each entry at the age it has by then, and may block in
between on a full timeout channel; a tick meanwhile waits, a second one is dropped.
"Written" means acknowledged by `writeDataLogic`, which today stores nothing
(see below).

`Shutdown` extends `Ingest` with signals, `Close` and its once, the quit walk,
the close of `grpcmessage` and of the queues. `Receive` stays possible after the
end of the stream, for frames that the buffered channels still hold, and a stream with a
frame in its hands may panic (`SendPanic`) at any time after `grpcmessage` is closed, as
`Stop` of the server does not wait for it. The sleep of twenty seconds waits for nothing,
so `CloseStore` may come at any time. The ghost `hasty` records whether the sleep ended
while somebody else still had something to do (`Settled` says who, and an end at rest may
be counted either way: frames may be on the way in the channels before these); properties
that need a sleep that was long enough say so by `hasty`.

`ConnPool` models `Get` and `conn.Close` by their atomic operations and critical
sections, with dials that may fail; a connection in use is a slot number that a
reset of that slot takes away. A reset whose Close of the connection fails leaves a
closed conn in the slot until it is replaced or reset again (`conns`).

`MC...` modules give the constants for TLC; `...Proofs` modules hold the theorems,
and `SequenceLemmas` facts about sequences that several of them use.

## Runs

| Run | Instance | Shows |
|---|---|---|
| `TaskQueue` | one read, two writes, one queue of two places, close at any time | types, exclusion of live handlers, `HeldOnce`, definite replies, counted timeouts, replies in time are the handler's, refinement of `SerialExecutor` |
| `TaskQueueLive` | one read, one write, one place | callers return, accepted tasks are served, a task given up in the channel never runs |
| `Ingest` | two sensors, one worker, three frames each, channels of one entry, a timeout of half a period | no frame lost, refinement of `FrameLog`; what a walk has found idle is flushed however late, idle sensors are found if walks are on time, frames are taken also while the gossip timer competes for `sensorIDsChan` |
| `Shutdown` | the same with two frames each, one stop and one signal, safety only | one caller in the once, quit walk before the end of the queues; what is written when they close |
| `ShutdownLive` | the same without the signal | `Close` ends, and what the quit walk finds is flushed |
| `Dispatch` | two streams, two sensors, channels of one entry, three messages of one or four frames, one of them not decodable | one worker per sensor, Kafka and worker see the same frames, refinement of `FramePipe`, everything received is handed over |
| `KafkaBuffer` | one sensor, five frames (two of one millisecond in a row, one of an earlier one after a later), two rows, ticker and `Stop` | rows sent once and in order, none lost between append and flush, kept rows out before the close or by the ticker |
| `History` | three days, seven files in all subsets, every range, files that come meanwhile | the reply holds files of the range, in order, and misses none that began in it in a readable directory |
| `ConnPool` | three clients with three Gets, two to four connections, one stream each | connections in use stay open, `ref`, slots and size agree, the pool shrinks, the lock is released |

Five to six actors are enough for every pair of steps that meet on one shared
object, and the bounds make the rare cases happen: channels of one or two places
are full, a read and a write wait behind each other, three references exceed a
pool of two, growing by two fails after one dial, leaked references reach the
one-time connections. `MaxFrames`, `MaxMessages`, `MaxSignals`, `MaxGets` and `MaxTime` bound the runs
and are in the guards or the sets of inputs. Sensors of the Kafka buffer share only the
order of visits, so one is enough; a second generation of its buffer arises when a
frame comes after `Stop` has deleted the first. The clients of the pool are symmetric and its run checks only
invariants. `CHECK_DEADLOCK FALSE` where everything may legally be done
(all tasks returned, all Gets made, service closed); `Ingest` never stops, as time
passes, and checks deadlock.

### Where code and text disagree

| Run | Text | What the code does |
|---|---|---|
| `IngestSilent` | design, 430: timeouts flush cached data | a sensor with a single frame is not in `timeoutSyncMap` |
| `IngestLate` | handles.go:423 and design, 430: a sensor past its timeout is flushed | two walks at different delays after their ticks pass over an entry, and no later walk finds it |
| `ShutdownSignal` | handles.go:199, capacity of the number of sensors suffices | a send of the quit walk can block for ever when a worker is inside `Close` |

`IngestLate` assumes no more than that a walk is over within half a period of its tick. In
the model's integers the least such delay is one that makes two walks `Minute + 2` units
apart; in real time the window (426) has no margin at all, so the smallest difference of
two delays is enough for entries of some ages. `IdleIsFlushed`, the same claim for walks
that are over at the instant of their tick (`WalksWithin(0)`), says that this is the only
gap: with every walk on time each phase of an entry is found. What a walk has found is
flushed in every case (`TimedOutIsFlushed`). `ShutdownSignal` has one sensor and a timeout
channel of one entry: the walker has put the sensor into it, the worker is inside `Close`,
and the quit walk of `Start` blocks.

Four more are visible in the models without a run of their own: the expire flag
is read once before the start (queue.go:110), so a task set expired later still
runs, against the comment on queue.go:38 (`GivenUpIsSkipped` says what does hold);
the frame that triggers a write is put into the buffer again after `Update`
(handles.go:362) and is written twice, as `FrameLog` allows; a failed one-time dial
returns a conn that is not nil with a nil `Value` (pool.go:159), against pool.go:20;
the comment at handles.go:264 waits for all data, but a frame alone in its buffer is not
in `timeoutSyncMap` and not written when the queues close (`WrittenAtClose` grants exactly
this). A sensor that is stored into `timeoutSyncMap` beside the quit walk is missed by it
too, but does not lose anything: by then its buffer is only the repeated frame.

## Fairness

The Go scheduler runs every goroutine that can run: weak fairness for each
caller, worker, walker and closer. Deadlines pass (`CtxFires`) because timers
fire. Nothing is assumed of the handler of a read, which may hang on a disk; a
write handler does no I/O and is fair. No fairness for `Receive`, signals, stop
requests or new calls, which come from outside. In `Ingest` a worker's select
between frames and timeouts is not assumed fair to either; the properties hold
because frames are finite in number. A worker and the gossip timer wait for room in
the same channel; Go serves the blocked senders of a channel in the order in which
they came, so `Notify` is strongly fair.

In `Dispatch` and `KafkaBuffer` every goroutine is weakly fair, the receipt of
messages, signals, the cancelled context and `Stop` are not.

Time passes (`Pass`) and the walker goes on (`Walker`), but nothing bounds how much time
may pass between two steps of the walker. Only the two properties that need a bound have
one, as their hypothesis: `IdleIsFlushed` asks for walks that are over at the instant of
their tick, `LateIsFlushed` for walks that are over `MaxLag` after it.

## Proofs

All theorems hold for every value of the constants that the named `ASSUME`s of the
modules allow (`QueueAssumption`, `IngestAssumption`, `ShutdownAssumption`,
`KafkaAssumption`, `PoolAssumption`, `DispatchAssumption`, `NoneAssumption`,
`HistoryAssumption`): any number of tasks, sensors, workers, clients, frames, messages
and days, any capacity. Only finiteness of the sensors (`Shutdown`, whose quit walk puts
them into a sequence), of the clients (`ConnPool`, which counts them) and of the files
(`History`, which sorts them) is asked for beside types and nonzero sizes;
`NoneAssumption` says that nothing is not a message or a result.

| Module | Theorem | States |
|---|---|---|
| `TaskQueueProofs` | `TypeCorrect`, `TaskHeldOnce`, `OneLiveHandlerPerQueue` | `TypeOK`, `HeldOnce`, `LiveHandlersExclusive` |
| `TaskQueueProofs` | `ReplyIsDefinite`, `TimeoutsAreCounted`, `RepliesOnTime`, `GivenUpIsNeverRun` | `ReplyDefinite`, `TimeoutIsCounted`, `OnTimeReply`, `GivenUpIsSkipped` |
| `TaskQueueProofs` | `ServesInOrder` | `ImplementsSerialExecutor` |
| `IngestProofs` | `TypeCorrect`, `FramesAreKept` | `TypeOK`, `NoFrameLost` |
| `IngestProofs` | `Refinement` | `ImplementsFrameLog` |
| `ShutdownProofs` | `ShutdownTypeCorrect`, `WalkIsFirst`, `FramesAreKeptToTheEnd`, `LogIsKeptToTheEnd` | `ShutdownTypeOK`, `WalkBeforeClose`, and under `ShutdownSpec` also `NoFrameLost` and `ImplementsFrameLog` |
| `ShutdownProofs` | `OthersAreWritten` | `WrittenAtClose` |
| `KafkaBufferProofs` | `TypeCorrect`, `RowsInOrder`, `RowsAreKept`, `StopSends` | `TypeOK`, `SentInOrder`, `NoRowLost`, `SentBeforeClose` |
| `ConnPoolProofs` | `TypeCorrect`, `HeldStaysOpen`, `ReferencesBalance`, `SlotsAreFilled`, `PoolIsShrunk`, `LockGoesBack` | `TypeOK`, `HeldIsOpen`, `RefBalance`, `SlotsMatch`, `IdleIsShrunk`, `LockIsReleased` |
| `DispatchProofs` | `TypeCorrect`, `SensorsStayWithWorkers`, `DoneFollowsOffered` | `TypeOK`, `OneWorkerPerSensor`, `DoneIsOffered` |
| `DispatchProofs` | `KeepsTheLine` | `ImplementsFramePipe` |
| `DispatchProofs` | `DecodeIsDecodable` | the loop of `decode` finds the frames before the first one that cannot be decoded, in a message of any length |
| `HistoryProofs` | `TypeCorrect`, `RepliesHoldTheRange`, `OverlapsAreListed` | `TypeOK`, `ReplyHoldsRange`, `OverlapIsListed` |
| `HistoryProofs` | `DaysDiffer` | the loop of `GetDaysDiffer` returns each day of a range once, in order |

How the arguments go:

- Task queues. `LiveHandlersExclusive` is not inductive: why is the handler of the
  new task alone when the worker starts it? Because the worker leaves its wait only
  when the task is done or late. `IInv` therefore adds `OwnQueue` (what a worker or a
  channel holds hashes to that queue), `HeldOnce`, `NotYetSent` (a task whose caller
  has not inserted it is held by nobody and has no handler) and `LiveIsServed` (an
  active handler of a task in time is the one its worker waits for).
- Answers. `AnswerInv` follows each task's handler and caller: a field that has been
  stored has the handler's value unless the context is done, a caller reads only
  after the handler is done or its own deadline has passed, and the count of
  timeouts is tied to the points both have passed.
- Refinement of `SerialExecutor`. The line of a queue is the task in the worker's
  hands and those in the channel; `OnItsWay` says that a task whose caller waits for
  its start is in that line or has expired, and one case per action shows which
  abstract step it is. Most steps are none.
- `Ingest`. `SensorOK` describes one sensor: the channel holds exactly the frames after
  the last one taken, in order (`ChannelOf`); between two frames the buffer holds one
  frame, during a frame that one and its predecessor (`BufferOf`); what has been
  taken is buffered or stored (`SavedOf`). `Routed` says that all of a sensor's
  traffic is with its own worker, so a step for one sensor leaves `SensorOK` of the
  others alone. A timeout that is out of date finds a buffer that `BufferOf` still
  describes, which is why it does no harm.
- `Shutdown` keeps the invariant of `Ingest`, since a quit walk is another sender to
  the timeout channels, and with it the refinement of `FrameLog`; `OnceIsHeld` adds that one caller is inside the once.
- What is written at the end. Of a frame that is not stored `NoFrameLost` leaves the
  channel and the buffer. `OnlyStart` says that without a signal no worker is inside
  `Close` and the publisher goes on, so at an end without haste every worker has emptied
  its channel, and `WorkersRest` keeps that: nothing is received any more, and a worker
  that takes a timeout stops before the closed queue. The buffer then holds one frame
  (`BufferOf`), and if the sensor is in `timeoutSyncMap`, it has been written
  (`TrackedIsStored`: only `Update` makes an entry, and it comes after the write).
- Kafka buffer. `RowOrder` compares rows with what was sent, for every buffer that a
  flusher may still send; `OneDelete` bounds the generations of a buffer, `MutexHeld`
  ties the mutex to the flusher that sends, `ResetIsSent` and `StopReaches` carry a
  row from the append to the message.
- Pool. `LockInv`, `SlotInv` and `RefInv` describe lock, slots and references;
  `PickInv` is the point of the argument: what a Get has picked lies below `current`,
  and once a shrink has found no reference under the lock, every client that has
  counted one since is still waiting for the lock. `ShrinkInv` says who will shrink
  a pool above its idle size.
- A task given up in the channel: `Skipped` (its flag is set, it has no handler, and
  its worker is not past the check of the flag) is kept by every step, since nothing but
  that check stands between the channel and the start of a handler.
- Dispatch. `KeysAtHome` carries a sensor's key from its job channel to the result, and
  `OfferedIsOnItsWay` says that what Kafka was offered is what the worker has taken and
  what still waits for it. For the refinement a line is read off the channels as one
  sequence (`ToTake`, `ToDecode`), and for each of the steps there is a lemma that says
  what it does to that sequence: `Recv` adds a message's decodable frames at its end, the
  worker takes from its front, and everything between moves a message or a result from
  one channel to the next, past others only if they are of other lines. That `DecodeJob`
  does not change a line is `DecodeIsDecodable`.
- History. Of the days (`WalkOrder`) those not yet visited are the last ones of the
  range; `VisitedIsListed` says that a file that was there is listed by its start, or
  another one of that start, once its day has been visited. `Lists` keeps the map a
  map from starts to files of the disk, so the files found have different starts and
  `InOrder` can sort them.
- Loops over data. `Decode` and `GetDaysDiffer` are recursive functions over the index or
  the time they have come to. The library's induction theorems take an operator, so
  `SequenceLemmas` states them for sets (`Induction`: a set of naturals that holds 0 and
  with n also n + 1 is all of them, from the well-foundedness of `<`), and derives that
  functions defined step by step exist (`Recursion`) and what `FlattenSeq` does to a
  concatenation. `DecodeIsDecodable` goes by the number of frames from the place in the
  message, `DaysDiffer` by the number of days left, `InOrder` by the number of files.

TLC checks the properties on small instances first; a proof takes one step
per action and one part of the invariant at a time.

Every safety property of the runs that pass, invariant, action property or
refinement, has a theorem. Only model-checked is liveness (fairness and ENABLED are
beyond the prover): `EveryCallReturns`, `AcceptedIsServed`, `TimedOutIsFlushed`,
`IdleIsFlushed`, `EveryFrameTaken`, `CloseEnds`, `QuitIsFlushed`, `KeptIsSent` and `UnderWayIsDone`. And so
are the counterexamples of the runs that end with a violation.

What the properties leave open, since the code does: a task whose deadline passes between
the look at its flag and its start runs; a send on a closed channel or queue ends the
process (liveness excuses `crashed`); after a signal nothing is claimed of the end of
`Close`; references of failed Gets are counted as leaked and keep the pool from shrinking;
rows that a full Kafka buffer drops, and rows that come after `Stop`, are not sent. These
are listed in `PROJECT.json` as hazards without a property.

One proof attempt showed a property to be wrong: `OverlapIsListed` once said that a
file that overlaps the range is always listed by its start. Two files of one start, the
later name with the earlier end, refute it; the instance of `MCHistory` had no such pair
and has one now.

## Not modelled

- File contents. `writeDataLogic` acknowledges a buffer without writing it
  (`isFirst` is false, and `createnewFile` writes no data), and `readDataLogic`
  fills no list of files, so a history read never returns bytes. "Stored" in the models
  is what the caller of a write has been told.
- The names of the service's own files. `writeDataLogic` never creates one; were it to,
  their names would have four parts (arc_volume_cache.go:307), where
  `GetTimeRangeFromFileName` reads six, nine or ten, and their directory would be another
  one (`.../TypeArc`, arc_volume_cache.go:268) than the one that the history list reads
  (`.../Arc`, storage.go:162). The files of `History` are any that lie in the latter.
- Messages that end within a frame, and the nil segment of `handleDecodeResult:308`.
- `ReadDataByQueue` is modelled although no handler of the HTTP API calls it.
- A file that began on the day before a query's range: its directory is not walked.
- Crontab, the linked queue, `MultiLocker` and the throttler: no code of the program
  imports or calls them.
- The real-time cache wraps an external container. The program calls its `Input` and
  `Close`, whose effects no other part sees, and never its `Search`.
- The HTTP handlers other than the history list, configuration, and metrics other than
  the timeout counter: no state that changes under the rest of the system.
- `pool.Close`, which callers may not run beside `Get`.
- The end of the process, which may come before `Close` is over because
  `component.Stop` does not wait.

- Rows that reach Kafka's buffers after `Stop`: the component stops Kafka before the
  stream (component.go:116), and nothing sends them. `SentBeforeClose` is about those
  that were there before.

## Plan

All of the plan's modules are written: `SerialExecutor`, `TaskQueue`, `FrameLog`,
`Ingest`, `Shutdown`, `ConnPool`, `FramePipe`, `Dispatch`, `KafkaBuffer`, `History` and
the proof modules above. What would be worth adding:

1. `Close` under a signal: which of its takers leave a service that still ends, as a
   liveness property, on an instance that TLC can still visit with two sensors.
2. `pool.Close` beside `Get`, should the code come to allow it.
3. Messages that end within a frame, should `decode` come to keep the rest for the next.
4. What follows from the abstract specifications alone: that no frame is in three batches
   of a `FrameLog`, and that `Receive` of `Ingest` is a step of `FramePipe`.
