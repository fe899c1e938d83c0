------------------------------ MODULE Shutdown ------------------------------
(***************************************************************************)
(* pkg/handles.go: the end of the service, composed with the data path of  *)
(* Ingest.  A signal goes to one of the goroutines that share Start's      *)
(* sigchan, and to setDefaultSensorids, which has its own; a worker that   *)
(* catches it runs Close itself.  Start runs Close when its stop channel   *)
(* is served.                                                              *)
(***************************************************************************)
EXTENDS Ingest

CONSTANTS MaxSignals,  \* bound of the model: signals during the run
          Start        \* the goroutine of ArcStorage.Start

ASSUME ShutdownAssumption == MaxSignals \in Nat /\ Start \notin Workers /\ IsFiniteSet(Sensors)

VARIABLES
  signals,      \* signals so far
  sigchan,      \* whether Start's sigchan holds a signal
  idSig,        \* whether the sigchan of setDefaultSensorids holds one
  alive,        \* of "walker", "stream" and "ids", the goroutines not returned
  grpcClosed,   \* grpcmessage is closed
  cpc,          \* cpc[c]: where c stands in Close
  once,         \* the state of arc.once
  toQuit,       \* what quitSyncMapWalk has still to visit
  queueClosed,  \* the file cache's queues are closed
  hasty,        \* while others still had something to do, for the properties
  crashed       \* a send on a closed channel has panicked the process

signalVars == <<signals, sigchan, idSig, alive>>
closeVars == <<grpcClosed, cpc, once, toQuit, queueClosed, hasty>>
shutdownVars == <<signalVars, closeVars, crashed>>
allVars == <<vars, shutdownVars>>

Closers == Workers \cup {Start}

ShutdownInit ==
  /\ Init
  /\ signals = 0 /\ sigchan = FALSE /\ idSig = FALSE
  /\ alive = {"walker", "stream", "ids"}
  /\ grpcClosed = FALSE
  /\ cpc = [c \in Closers |-> "none"]
  /\ once = "free" /\ toQuit = <<>>
  /\ queueClosed = FALSE /\ hasty = FALSE /\ crashed = FALSE

------------------------------------------------------------------------------
(* The data path, as far as it is still served.  Frames that were received   *)
(* before the end may be in the buffered channels before decodeResultChans.  *)

InClose(c) == cpc[c] \notin {"none", "done"}

Writing(w) == work[w].pc \in {"write", "flush"}

DataPath ==
  /\ ~crashed
  /\ \/ (queueClosed => hasty) /\ \E s \in Sensors : Receive(s)
     \/ \E w \in Workers : ~InClose(w) /\ ~(queueClosed /\ Writing(w)) /\ Worker(w)
     \/ "ids" \in alive /\ HaveSensorIDs
     \/ GossipTick \/ GossipSend
     \/ Pass
     \/ "walker" \in alive /\ Walker
  /\ UNCHANGED shutdownVars

\* FrameDataCallback sends to grpcmessage after Close has closed it;
\* grpcserver.Stop does not wait for a stream that has a frame in its hands.
SendPanic ==
  /\ ~crashed /\ grpcClosed
  /\ \E s \in Sensors : sent[s] < MaxFrames
  /\ crashed' = TRUE
  /\ UNCHANGED <<vars, signalVars, closeVars>>

\* DoTask on a closed queue.
WritePanic(w) ==
  /\ ~crashed /\ queueClosed /\ Writing(w)
  /\ crashed' = TRUE
  /\ UNCHANGED <<vars, signalVars, closeVars>>

------------------------------------------------------------------------------
(* Signals.                                                                  *)

\* signal.Notify never blocks: a signal that finds a channel full is dropped.
Signal ==
  /\ ~crashed /\ signals < MaxSignals
  /\ signals' = signals + 1
  /\ sigchan' = TRUE /\ idSig' = TRUE
  /\ UNCHANGED <<vars, alive, closeVars, crashed>>

Return(g) ==
  /\ ~crashed /\ g \in alive
  /\ alive' = alive \ {g}
  /\ UNCHANGED <<vars, signals, closeVars, crashed>>

IDsReturn == idSig /\ idSig' = FALSE /\ Return("ids") /\ UNCHANGED sigchan

WalkerReturn == sigchan /\ sigchan' = FALSE /\ WalkOver /\ Return("walker") /\ UNCHANGED idSig

StreamReturn == sigchan /\ sigchan' = FALSE /\ Return("stream") /\ UNCHANGED idSig

------------------------------------------------------------------------------
(* Close.                                                                    *)

CloseStep(c, from, to) == ~crashed /\ cpc[c] = from /\ cpc' = [cpc EXCEPT ![c] = to]

\* case sig := <-sigchan in a worker, which keeps serving its channels afterwards.
WorkerSignal(w) ==
  /\ sigchan /\ sigchan' = FALSE
  /\ work[w].pc = "idle" /\ ~InClose(w)
  /\ CloseStep(w, cpc[w], "once")
  /\ UNCHANGED <<vars, signals, idSig, alive, grpcClosed, once, toQuit, queueClosed, hasty, crashed>>

\* <-stop
StopRequest ==
  /\ CloseStep(Start, "none", "once")
  /\ UNCHANGED <<vars, signalVars, grpcClosed, once, toQuit, queueClosed, hasty, crashed>>

EnterOnce(c) ==
  /\ CloseStep(c, "once", "stop")
  /\ once = "free" /\ once' = "running"
  /\ grpcClosed' = TRUE
  /\ UNCHANGED <<vars, signalVars, toQuit, queueClosed, hasty, crashed>>

\* grpcserver.Stop(), then Range over the sensors known at that time.
StopServer(c) ==
  /\ CloseStep(c, "stop", "walk")
  /\ toQuit' \in SetToSeqs(Tracked)
  /\ UNCHANGED <<vars, signalVars, grpcClosed, once, queueClosed, hasty, crashed>>

\* Range calls quitSyncMapWalk unless the entry has been deleted in the meantime.
QuitVisit(c) ==
  /\ toQuit # <<>>
  /\ LET tracked == Head(toQuit) \in Tracked IN
     /\ CloseStep(c, "walk", IF tracked THEN "push" ELSE "walk")
     /\ toQuit' = IF tracked THEN toQuit ELSE Tail(toQuit)
  /\ UNCHANGED <<vars, signalVars, grpcClosed, once, queueClosed, hasty, crashed>>

\* Mutant: a send that gives up when the channel is full.
Mutant_QuitPush(c) ==
  /\ CloseStep(c, "push", "walk")
  /\ LET w == WorkerOf[Head(toQuit)] IN
     timeoutCh' = [timeoutCh EXCEPT ![w] =
                     IF Len(@) < TimeoutCap THEN Append(@, Head(toQuit)) ELSE @]
  /\ toQuit' = Tail(toQuit)
  /\ UNCHANGED <<sent, results, idle, ids, gossip, workerVars, walkerVars, signalVars,
                 grpcClosed, once, queueClosed, hasty, crashed>>

\* quitSyncMapWalk: a send that blocks while the channel is full.
QuitPush(c) ==
  /\ CloseStep(c, "push", "walk")
  /\ LET w == WorkerOf[Head(toQuit)] IN
     /\ Len(timeoutCh[w]) < TimeoutCap
     /\ timeoutCh' = [timeoutCh EXCEPT ![w] = Append(@, Head(toQuit))]
  /\ toQuit' = Tail(toQuit)
  /\ UNCHANGED <<sent, results, idle, ids, gossip, workerVars, walkerVars, signalVars,
                 grpcClosed, once, queueClosed, hasty, crashed>>

LeaveOnce(c) ==
  /\ CloseStep(c, "walk", "sleep")
  /\ toQuit = <<>>
  /\ once' = "done"
  /\ UNCHANGED <<vars, signalVars, grpcClosed, toQuit, queueClosed, hasty, crashed>>

\* Mutant: a flag in place of the once, which does not wait.
Mutant_SkipOnce(c) ==
  /\ CloseStep(c, "once", "sleep")
  /\ once # "free"
  /\ UNCHANGED <<vars, signalVars, grpcClosed, once, toQuit, queueClosed, hasty, crashed>>

\* once.Do waits for the caller that is inside it, and then does nothing.
SkipOnce(c) ==
  /\ CloseStep(c, "once", "sleep")
  /\ once = "done"
  /\ UNCHANGED <<vars, signalVars, grpcClosed, once, toQuit, queueClosed, hasty, crashed>>

\* A worker outside Close that can do something.
Busy(w) ==
  /\ ~InClose(w)
  /\ CASE work[w].pc = "idle" -> results[w] # <<>> \/ timeoutCh[w] # <<>>
       [] work[w].pc = "notify" -> ids < IDsCap \/ "ids" \in alive
       [] OTHER -> TRUE

\* Nobody else has anything to do.
Settled ==
  /\ \A w \in Workers : ~Busy(w)
  /\ "walker" \in alive => pushing = None

\* time.Sleep, then arcFileStore.SafeClose(): twenty seconds that wait for nothing.
\* They may end before others, frames on their way included, have come to rest.
CloseStore(c) ==
  /\ CloseStep(c, "sleep", "done")
  /\ queueClosed' = TRUE
  /\ IF queueClosed THEN UNCHANGED hasty ELSE hasty' = TRUE \/ (Settled /\ hasty' = FALSE)
  /\ UNCHANGED <<vars, signalVars, grpcClosed, once, toQuit, crashed>>

Close(c) ==
  \/ EnterOnce(c) \/ StopServer(c) \/ QuitVisit(c) \/ QuitPush(c) \/ LeaveOnce(c)
  \/ SkipOnce(c) \/ CloseStore(c)

ShutdownNext ==
  \/ DataPath
  \/ SendPanic \/ \E w \in Workers : WritePanic(w)
  \/ Signal \/ IDsReturn \/ WalkerReturn \/ StreamReturn
  \/ \E w \in Workers : WorkerSignal(w)
  \/ StopRequest
  \/ \E c \in Closers : Close(c)

ShutdownSpec == ShutdownInit /\ [][ShutdownNext]_allVars

\* Every goroutine runs on; see Fairness in Ingest.
ShutdownFairness ==
  /\ \A w \in Workers :
        WF_allVars(DataPath /\ Worker(w)) /\ SF_allVars(DataPath /\ Notify(w)) /\ WF_allVars(WritePanic(w))
  /\ WF_allVars(DataPath /\ HaveSensorIDs) /\ WF_allVars(DataPath /\ GossipSend)
  /\ WF_allVars(DataPath /\ Walker)
  /\ \A c \in Closers : WF_allVars(Close(c))

FairShutdownSpec == ShutdownSpec /\ ShutdownFairness

------------------------------------------------------------------------------
(* Properties.                                                               *)

ShutdownTypeOK ==
  /\ TypeOK
  /\ signals \in 0 .. MaxSignals
  /\ {sigchan, idSig, grpcClosed, queueClosed, hasty, crashed} \subseteq BOOLEAN
  /\ alive \subseteq {"walker", "stream", "ids"}
  /\ cpc \in [Closers -> {"none", "once", "stop", "walk", "push", "sleep", "done"}]
  /\ once \in {"free", "running", "done"}
  /\ toQuit \in Seq(Sensors)

InOnce == {"stop", "walk", "push"}

\* At most one caller is inside the once, and only before any queue is closed:
\* grpcmessage is closed once and the quit walk precedes the end of the queues.
WalkBeforeClose ==
  /\ \A c, d \in Closers : {cpc[c], cpc[d]} \subseteq InOnce => c = d
  /\ queueClosed => \A c \in Closers : cpc[c] \notin InOnce

\* Without a signal, a service told to stop closes its queues, although the
\* quit walk blocks on full channels that also hold the walker's timeouts.
CloseEnds == cpc[Start] = "once" ~> queueClosed \/ crashed \/ signals > 0

\* Without a signal, and if the sleep is long enough, a sensor that the quit walk
\* finds is flushed.
QuitIsFlushed ==
  \A s \in Sensors :
     (cpc[Start] \in {"walk", "push"} /\ s \in Range(toQuit) /\ s \in Tracked)
        ~> (s \notin Tracked \/ crashed \/ signals > 0 \/ hasty)

\* What the comment in Close means by waiting for all data (handles.go:264).
\* Without a signal, and if the sleep was long enough, every frame is written when
\* the queues are closed, but for one alone in the buffer of a sensor of which
\* timeoutSyncMap, and so the quit walk, knows nothing.
WrittenAtClose ==
  queueClosed /\ ~hasty /\ signals = 0 =>
    \A s \in Sensors : \A n \in 1 .. sent[s] : Stored(s, n) \/ (vol[s] = <<n>> /\ s \notin Tracked)

\* What the comment on timeoutChans says (handles.go:199): a capacity of the
\* number of sensors is enough, so no send of the quit walk blocks for ever.
QuitSendEnds ==
  Cardinality(Sensors) <= TimeoutCap => \A c \in Closers : cpc[c] = "push" ~> cpc[c] # "push" \/ crashed
==============================================================================
