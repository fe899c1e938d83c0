------------------------------- MODULE Ingest -------------------------------
(***************************************************************************)
(* pkg/handles.go: the data path of the service while it runs.  Frames of  *)
(* a sensor reach, in order, the decodeResultChans of one worker.  The     *)
(* worker (handleDecodeResult) keeps a volume per sensor in DataCache,     *)
(* hands the volume's buffer to the file cache with every frame after the  *)
(* first, and flushes it when the timeout walker (receiveDataTimerTask)    *)
(* finds the sensor idle.  Frames of a sensor are numbered 1, 2, ...       *)
(***************************************************************************)
EXTENDS Naturals, Sequences, SequencesExt, FiniteSets

CONSTANTS
  Sensors,
  Workers,
  WorkerOf,     \* id & (WorkCount - 1)
  MaxFrames,    \* bound of the model: frames sent per sensor
  ResultCap,    \* capacity of decodeResultChans[i]
  TimeoutCap,   \* capacity of timeoutChans[i]
  IDsCap,       \* capacity of sensorIDsChan
  TimeOut,      \* config.Work.TimeOut
  Minute,       \* the ticker's period and the width of the timeout window
  MaxLag,       \* how long after its tick a walk may be over, for a property
  None

ASSUME IngestAssumption ==
  /\ WorkerOf \in [Sensors -> Workers]
  /\ {MaxFrames, ResultCap, TimeoutCap, IDsCap, TimeOut, Minute} \subseteq Nat \ {0}
  /\ MaxLag \in Nat
  /\ None \notin Sensors \cup Nat /\ None \notin Seq(Nat)

VARIABLES
  sent,        \* sent[s]: frames of s that have entered the pipeline
  results,     \* results[w]: decodeResultChans[w], holding [s, n]
  vol,         \* vol[s]: frames in the buffer of s in DataCache, or None
  idle,        \* idle[s]: age of s in timeoutSyncMap, or None
  timeoutCh,   \* timeoutCh[w]: timeoutChans[w]
  work,        \* work[w]: what the worker is doing: [pc, s, n]
  jobs,        \* jobs[s]: the buffers of s written so far
  ids,         \* messages in sensorIDsChan
  gossip,      \* gossipKVCacheTimerTask has read the directory and sends what it found
  clock,       \* time since the last tick of the walker's ticker
  tick,        \* ticker.C holds a tick
  remaining,   \* the entries that the walk under way has still to visit
  pushing      \* the sensor that the walker is sending to timeoutChans, or None

workerVars == <<vol, work, jobs>>
walkerVars == <<clock, tick, remaining, pushing>>
vars == <<sent, results, timeoutCh, idle, ids, gossip, workerVars, walkerVars>>

AtRest == [pc |-> "idle", s |-> None, n |-> 0]

\* Ages beyond this one are not told apart.
Horizon == TimeOut + Minute + 1

Init ==
  /\ sent = [s \in Sensors |-> 0]
  /\ results = [w \in Workers |-> <<>>]
  /\ vol = [s \in Sensors |-> None]
  /\ idle = [s \in Sensors |-> None]
  /\ timeoutCh = [w \in Workers |-> <<>>]
  /\ work = [w \in Workers |-> AtRest]
  /\ jobs = [s \in Sensors |-> <<>>]
  /\ ids = 0 /\ gossip = FALSE
  /\ clock = 0 /\ tick = FALSE /\ remaining = {} /\ pushing = None

\* A frame has been received, dispatched and decoded.
Receive(s) ==
  LET w == WorkerOf[s] IN
  /\ sent[s] < MaxFrames /\ Len(results[w]) < ResultCap
  /\ sent' = [sent EXCEPT ![s] = @ + 1]
  /\ results' = [results EXCEPT ![w] = Append(@, [s |-> s, n |-> sent'[s]])]
  /\ UNCHANGED <<timeoutCh, idle, ids, gossip, workerVars, walkerVars>>

------------------------------------------------------------------------------
(* handleDecodeResult, case drc := <-decodeResultChans.                      *)

TakeFrame(w) ==
  /\ work[w].pc = "idle" /\ results[w] # <<>>
  /\ results' = [results EXCEPT ![w] = Tail(@)]

\* The first frame makes the volume.  timeoutSyncMap is not told.
FirstFrame(w) ==
  /\ TakeFrame(w)
  /\ LET f == Head(results[w]) IN
     /\ vol[f.s] = None
     /\ vol' = [vol EXCEPT ![f.s] = <<f.n>>]
  /\ UNCHANGED <<sent, timeoutCh, idle, ids, gossip, work, jobs, walkerVars>>

\* A later frame is appended and PreWriteToFileCache copies the buffer into
\* a write task; the worker waits for it.
NextFrame(w) ==
  /\ TakeFrame(w)
  /\ LET f == Head(results[w]) IN
     /\ vol[f.s] # None
     /\ vol' = [vol EXCEPT ![f.s] = Append(@, f.n)]
     /\ work' = [work EXCEPT ![w] = [pc |-> "write", s |-> f.s, n |-> f.n]]
  /\ UNCHANGED <<sent, timeoutCh, idle, ids, gossip, jobs, walkerVars>>

\* Mutant: the disk may refuse a write.
Mutant_WriteErrs == {"nil", "io"}

\* Outcomes of a write task: writeDataLogic only returns nil.
WriteErrs == {"nil"}

\* An error of the write is logged and nothing else.
Written(w) ==
  /\ work[w].pc = "write"
  /\ work' = [work EXCEPT ![w].pc = "notify"]
  /\ \E err \in WriteErrs :
        jobs' = IF err = "nil" THEN [jobs EXCEPT ![work[w].s] = Append(@, vol[work[w].s])] ELSE jobs
  /\ UNCHANGED <<sent, results, timeoutCh, idle, ids, gossip, vol, walkerVars>>

\* Mutant: the channel has no limit.
Mutant_Notify(w) ==
  /\ work[w].pc = "notify"
  /\ work' = [work EXCEPT ![w].pc = "update"]
  /\ ids' = ids + 1
  /\ UNCHANGED <<sent, results, timeoutCh, idle, gossip, vol, jobs, walkerVars>>

\* sensorIDsChan <- []string{item.idString}
Notify(w) ==
  /\ work[w].pc = "notify" /\ ids < IDsCap
  /\ work' = [work EXCEPT ![w].pc = "update"]
  /\ ids' = ids + 1
  /\ UNCHANGED <<sent, results, timeoutCh, idle, gossip, vol, jobs, walkerVars>>

\* ArcVolume.Update empties the buffer, the frame is written into it again,
\* and timeoutSyncMap records the present time.
Update(w) ==
  /\ work[w].pc = "update"
  /\ vol' = [vol EXCEPT ![work[w].s] = <<work[w].n>>]
  /\ idle' = [idle EXCEPT ![work[w].s] = 0]
  /\ work' = [work EXCEPT ![w] = AtRest]
  /\ UNCHANGED <<sent, results, timeoutCh, ids, gossip, jobs, walkerVars>>

------------------------------------------------------------------------------
(* handleDecodeResult, case id := <-timeoutChans: loadAndStoreTimeOutData.   *)

TakeTimeout(w) ==
  /\ work[w].pc = "idle" /\ timeoutCh[w] # <<>>
  /\ timeoutCh' = [timeoutCh EXCEPT ![w] = Tail(@)]

NothingToFlush(w) ==
  /\ TakeTimeout(w)
  /\ vol[Head(timeoutCh[w])] \in {None, <<>>}
  /\ UNCHANGED <<sent, results, idle, ids, gossip, workerVars, walkerVars>>

Flush(w) ==
  /\ TakeTimeout(w)
  /\ vol[Head(timeoutCh[w])] \notin {None, <<>>}
  /\ work' = [work EXCEPT ![w] = [pc |-> "flush", s |-> Head(timeoutCh[w]), n |-> 0]]
  /\ UNCHANGED <<sent, results, idle, ids, gossip, vol, jobs, walkerVars>>

\* Mutant: DataCache.Delete is forgotten.
Mutant_KeepVolume(w) ==
  LET s == work[w].s IN
  /\ work[w].pc = "flush"
  /\ work' = [work EXCEPT ![w] = AtRest]
  /\ jobs' = [jobs EXCEPT ![s] = Append(@, vol[s])]
  /\ idle' = [idle EXCEPT ![s] = None]
  /\ UNCHANGED <<sent, results, timeoutCh, ids, gossip, vol, walkerVars>>

\* After an error the volume and its entry stay as they are.
Flushed(w) ==
  LET s == work[w].s IN
  /\ work[w].pc = "flush"
  /\ work' = [work EXCEPT ![w] = AtRest]
  /\ \E err \in WriteErrs :
        IF err = "nil"
        THEN /\ jobs' = [jobs EXCEPT ![s] = Append(@, vol[s])]
             /\ vol' = [vol EXCEPT ![s] = None]
             /\ idle' = [idle EXCEPT ![s] = None]
        ELSE UNCHANGED <<jobs, vol, idle>>
  /\ UNCHANGED <<sent, results, timeoutCh, ids, gossip, walkerVars>>

Worker(w) ==
  \/ FirstFrame(w) \/ NextFrame(w) \/ Written(w) \/ Notify(w) \/ Update(w)
  \/ NothingToFlush(w) \/ Flush(w) \/ Flushed(w)

------------------------------------------------------------------------------
(* setDefaultSensorids, which empties sensorIDsChan, and                     *)
(* gossipKVCacheTimerTask, which competes with the workers to fill it.       *)

\* Mutant: the consumer has returned, as it does after a signal.
Mutant_HaveSensorIDs == FALSE /\ UNCHANGED vars

HaveSensorIDs ==
  /\ ids > 0
  /\ ids' = ids - 1
  /\ UNCHANGED <<sent, results, timeoutCh, idle, gossip, workerVars, walkerVars>>

\* Its ticker, or its start: the directory is read.
GossipTick ==
  /\ ~gossip /\ gossip' = TRUE
  /\ UNCHANGED <<sent, results, timeoutCh, idle, ids, workerVars, walkerVars>>

GossipSend ==
  /\ gossip /\ gossip' = FALSE
  /\ ids < IDsCap /\ ids' = ids + 1
  /\ UNCHANGED <<sent, results, timeoutCh, idle, workerVars, walkerVars>>

------------------------------------------------------------------------------
(* receiveDataTimerTask and timeOutSyncMapWalk.                              *)

Tracked == {s \in Sensors : idle[s] # None}

WalkOver == remaining = {} /\ pushing = None

\* Time passes, whatever the goroutines do.  ticker.C has room for one tick, and
\* one that finds it full is dropped.
Pass ==
  /\ clock' = (clock + 1) % Minute
  /\ tick' = (tick \/ clock' = 0)
  /\ idle' = [s \in Sensors |-> IF s \in Tracked /\ idle[s] < Horizon THEN idle[s] + 1 ELSE idle[s]]
  /\ UNCHANGED <<sent, results, timeoutCh, ids, gossip, workerVars, remaining, pushing>>

\* case <-ticker.C: Range begins.
StartWalk ==
  /\ WalkOver /\ tick
  /\ tick' = FALSE
  /\ remaining' = Tracked
  /\ UNCHANGED <<sent, results, timeoutCh, idle, ids, gossip, workerVars, clock, pushing>>

\* Mutant: the window leaves out its two ends.
Mutant_Expired(s) == s \in Tracked /\ idle[s] > TimeOut /\ idle[s] < TimeOut + Minute

Expired(s) == s \in Tracked /\ idle[s] >= TimeOut /\ idle[s] <= TimeOut + Minute

\* Range calls timeOutSyncMapWalk for one entry, whose age is that of the moment.
Visit(s) ==
  /\ pushing = None /\ s \in remaining
  /\ remaining' = remaining \ {s}
  /\ pushing' = IF Expired(s) THEN s ELSE None
  /\ UNCHANGED <<sent, results, timeoutCh, idle, ids, gossip, workerVars, clock, tick>>

\* Mutant: a send that gives up when the channel is full.
Mutant_Push ==
  /\ pushing # None
  /\ LET w == WorkerOf[pushing] IN
     timeoutCh' = [timeoutCh EXCEPT ![w] = IF Len(@) < TimeoutCap THEN Append(@, pushing) ELSE @]
  /\ pushing' = None
  /\ UNCHANGED <<sent, results, idle, ids, gossip, workerVars, clock, tick, remaining>>

\* timeoutChans[...] <- key blocks while the channel is full.
Push ==
  /\ pushing # None
  /\ LET w == WorkerOf[pushing] IN
     /\ Len(timeoutCh[w]) < TimeoutCap
     /\ timeoutCh' = [timeoutCh EXCEPT ![w] = Append(@, pushing)]
  /\ pushing' = None
  /\ UNCHANGED <<sent, results, idle, ids, gossip, workerVars, clock, tick, remaining>>

Walker == StartWalk \/ Push \/ \E s \in Sensors : Visit(s)

Next ==
  \/ \E s \in Sensors : Receive(s)
  \/ \E w \in Workers : Worker(w)
  \/ HaveSensorIDs \/ GossipTick \/ GossipSend
  \/ Pass
  \/ Walker

Spec == Init /\ [][Next]_vars

\* Every goroutine runs on and time passes.  A Go channel serves blocked senders
\* in the order in which they came, so a worker that waits for room in
\* sensorIDsChan cannot be overtaken for ever by gossipKVCacheTimerTask.
Fairness ==
  /\ \A w \in Workers : WF_vars(Worker(w)) /\ SF_vars(Notify(w))
  /\ WF_vars(HaveSensorIDs) /\ WF_vars(GossipSend)
  /\ WF_vars(Pass)
  /\ WF_vars(Walker)

FairSpec == Spec /\ Fairness

------------------------------------------------------------------------------
(* Properties.                                                               *)

Frames == 1 .. MaxFrames
Messages == [s : Sensors, n : Frames]
Works == [pc : {"idle", "write", "notify", "update", "flush"}, s : Sensors \cup {None}, n : 0 .. MaxFrames]

TypeOK ==
  /\ sent \in [Sensors -> 0 .. MaxFrames]
  /\ results \in [Workers -> Seq(Messages)]
  /\ vol \in [Sensors -> Seq(Frames) \cup {None}]
  /\ idle \in [Sensors -> 0 .. Horizon \cup {None}]
  /\ timeoutCh \in [Workers -> Seq(Sensors)]
  /\ work \in [Workers -> Works]
  /\ jobs \in [Sensors -> Seq(Seq(Frames))]
  /\ ids \in 0 .. IDsCap /\ gossip \in BOOLEAN
  /\ clock \in 0 .. (Minute - 1) /\ tick \in BOOLEAN
  /\ remaining \subseteq Sensors /\ pushing \in Sensors \cup {None}

\* Where frame n of sensor s may be.
Queued(s, n) == Contains(results[WorkerOf[s]], [s |-> s, n |-> n])
Buffered(s, n) == vol[s] # None /\ Contains(vol[s], n)
Stored(s, n) == \E i \in DOMAIN jobs[s] : Contains(jobs[s][i], n)

\* A frame that has entered the pipeline waits for the worker, is in the sensor's
\* buffer or has been written: neither Update nor a timeout that overtakes a new
\* frame drops it.
NoFrameLost == \A s \in Sensors : \A n \in 1 .. sent[s] : Queued(s, n) \/ Buffered(s, n) \/ Stored(s, n)

Log == INSTANCE FrameLog WITH received <- sent, written <- jobs

\* Whatever the timeouts do, the buffers that the worker writes for a sensor are
\* batches of consecutive frames, in order and without a gap, and a frame is
\* written at most twice.
ImplementsFrameLog == Log!Spec

\* A sensor that a walk has found idle is flushed, although the walk's send may
\* block on a full channel, time passes meanwhile and the worker has other frames.
TimedOutIsFlushed == \A s \in Sensors : pushing = s ~> vol[s] = None

\* Every walk is over by the given time after its tick.
WalksWithin(lag) == tick \/ ~WalkOver => clock <= lag

TrackedIsFlushed == \A s \in Sensors : s \in Tracked ~> vol[s] = None

\* If every walk is over at the instant of its tick, a sensor in timeoutSyncMap
\* that falls silent is flushed: the window of one minute has no gap for walks a
\* minute apart, whatever the phase.
IdleIsFlushed == []WalksWithin(0) => TrackedIsFlushed

\* What the design says of timeouts (docs, 430), for walks that are over by MaxLag
\* after their tick: the cached data of a sensor that falls silent is flushed.
LateIsFlushed == []WalksWithin(MaxLag) => TrackedIsFlushed

\* Every frame that reaches a worker's channel is taken.
EveryFrameTaken == \A w \in Workers : results[w] # <<>> ~> results[w] = <<>>

\* What the design says of timeouts (docs, 430): the cached data of a sensor
\* that stays silent is flushed, also after a single frame.
SilentIsFlushed == \A s \in Sensors : vol[s] # None ~> vol[s] = None
==============================================================================
