--------------------------- MODULE ShutdownProofs ----------------------------
(***************************************************************************)
(* Theorems about Shutdown: what the end of the service leaves true, for   *)
(* any number of sensors, workers, frames and signals.                     *)
(***************************************************************************)
EXTENDS Shutdown, IngestProofs, FiniteSetTheorems

------------------------------------------------------------------------------
(* The inductive invariant: that of the data path, and the state of the once. *)

ShutdownTypes ==
  /\ signals \in 0 .. MaxSignals
  /\ {sigchan, idSig, grpcClosed, queueClosed, hasty, crashed} \subseteq BOOLEAN
  /\ alive \subseteq {"walker", "stream", "ids"}
  /\ cpc \in [Closers -> {"none", "once", "stop", "walk", "push", "sleep", "done"}]
  /\ once \in {"free", "running", "done"}
  /\ toQuit \in Seq(Sensors)

\* Only the one caller inside the once walks; no queue is closed, and nobody
\* is about to close one, before the once is done.
OnceIsHeld ==
  /\ \A c \in Closers : cpc[c] \in InOnce => once = "running"
  /\ \A c, d \in Closers : cpc[c] \in InOnce /\ cpc[d] \in InOnce => c = d
  /\ \A c \in Closers : cpc[c] = "sleep" => once = "done"
  /\ \A c \in Closers : cpc[c] = "push" => toQuit # <<>>
  /\ queueClosed => once = "done"

CloseInv == ShutdownTypes /\ OnceIsHeld

ShutdownInv == IInv /\ CloseInv

------------------------------------------------------------------------------
(* The steps.                                                                *)

\* The order in which Range visits the sensors is a sequence of sensors.
LEMMA WalkOrder == ASSUME TypeOK, NEW q \in SetToSeqs(Tracked) PROVE q \in Seq(Sensors)
<1>1. IsFiniteSet(Tracked) /\ Tracked \subseteq Sensors
  BY ShutdownAssumption, FS_Subset DEF Tracked
<1>2. Cardinality(Tracked) \in Nat
  BY <1>1, FS_CardinalityType
<1>3. q \in [1 .. Cardinality(Tracked) -> Tracked]
  BY DEF SetToSeqs
<1> QED
  BY <1>1, <1>2, <1>3

\* At the start nobody is in Close.
LEMMA CloseInit == ShutdownInit => ShutdownInv
<1> SUFFICES ASSUME ShutdownInit PROVE ShutdownInv
  OBVIOUS
<1>1. IInv
  BY InvInit DEF ShutdownInit
<1>2. ShutdownTypes
  <2>1. toQuit \in Seq(Sensors) /\ 0 \in 0 .. MaxSignals
    BY ShutdownAssumption DEF ShutdownInit
  <2>2. {sigchan, idSig, grpcClosed, queueClosed, hasty, crashed} \subseteq BOOLEAN
    BY DEF ShutdownInit
  <2> QED
    BY <2>1, <2>2 DEF ShutdownInit, ShutdownTypes
<1>3. OnceIsHeld
  BY DEF ShutdownInit, OnceIsHeld, InOnce
<1> QED
  BY <1>1, <1>2, <1>3 DEF ShutdownInv, CloseInv

\* The steps of the data path are those of Ingest.
LEMMA DataPathIsNext == DataPath => Next /\ UNCHANGED shutdownVars
<1> SUFFICES ASSUME DataPath PROVE Next /\ UNCHANGED shutdownVars
  OBVIOUS
<1>1. UNCHANGED shutdownVars
  BY DEF DataPath
<1>2. \/ \E s \in Sensors : Receive(s)
      \/ \E w \in Workers : Worker(w)
      \/ HaveSensorIDs \/ GossipTick \/ GossipSend \/ Pass \/ Walker
  BY DEF DataPath
<1> QED
  BY <1>1, <1>2 DEF Next

\* A send of the quit walk is, for the data path, one more timeout.
LEMMA QuitPushKeeps ==
  ASSUME ShutdownInv, NEW c \in Closers, QuitPush(c)
  PROVE  IInv'
<1> DEFINE s == Head(toQuit)
           w == WorkerOf[s]
<1>0. TypeOK /\ Routed /\ toQuit \in Seq(Sensors) /\ toQuit # <<>>
  BY DEF ShutdownInv, CloseInv, IInv, ShutdownTypes, OnceIsHeld, QuitPush, CloseStep
<1>1. s \in Sensors /\ w \in Workers
  BY <1>0, Constants
<1>2. /\ timeoutCh' = [timeoutCh EXCEPT ![w] = Append(timeoutCh[w], s)]
      /\ UNCHANGED <<sent, results, idle, ids, gossip, vol, work, jobs, clock, tick, remaining, pushing>>
  BY DEF QuitPush, workerVars, walkerVars
<1>3. Append(timeoutCh[w], s) \in Seq(Sensors)
  BY <1>0, <1>1 DEF TypeOK
<1>4. TypeOK'
  BY <1>0, <1>1, <1>2, <1>3 DEF TypeOK
<1>5. Routed'
  <2>1. ASSUME NEW u \in Workers PROVE \A i \in DOMAIN timeoutCh'[u] : WorkerOf[timeoutCh'[u][i]] = u
    <3>1. CASE u # w
      BY <1>0, <1>2, <3>1 DEF TypeOK, Routed
    <3>2. CASE u = w
      <4>1. timeoutCh'[u] = Append(timeoutCh[u], s) /\ timeoutCh[u] \in Seq(Sensors)
        BY <1>0, <1>1, <1>2, <3>2 DEF TypeOK
      <4>2. \A i \in DOMAIN timeoutCh'[u] :
               (i \in DOMAIN timeoutCh[u] /\ timeoutCh'[u][i] = timeoutCh[u][i]) \/ timeoutCh'[u][i] = s
        BY <1>1, <4>1
      <4> QED
        BY <1>0, <3>2, <4>2 DEF Routed
    <3> QED
      BY <3>1, <3>2
  <2> QED
    BY <1>0, <1>2, <2>1 DEF Routed
<1>6. \A j \in Sensors : SensorOK(j)'
  BY <1>2, OtherSteps DEF ShutdownInv
<1> QED
  BY <1>4, <1>5, <1>6 DEF IInv

\* A step of Close keeps its invariant.
LEMMA CloseKeeps ==
  ASSUME ShutdownInv, NEW c \in Closers, Close(c)
  PROVE  CloseInv'
<1> USE DEF CloseInv, signalVars
<1>0. TypeOK /\ ShutdownTypes /\ OnceIsHeld
  BY DEF ShutdownInv, IInv
<1>1. ASSUME NEW from, NEW to \in {"once", "stop", "walk", "push", "sleep", "done"}, CloseStep(c, from, to)
      PROVE  /\ cpc[c] = from /\ cpc'[c] = to /\ \A d \in Closers \ {c} : cpc'[d] = cpc[d]
             /\ cpc' \in [Closers -> {"none", "once", "stop", "walk", "push", "sleep", "done"}]
  BY <1>0, <1>1 DEF CloseStep, ShutdownTypes
<1>2. CASE EnterOnce(c)
  <2>1. CloseStep(c, "once", "stop") /\ once = "free" /\ once' = "running" /\ grpcClosed' = TRUE
        /\ UNCHANGED <<signalVars, toQuit, queueClosed, hasty, crashed>>
    BY <1>2 DEF EnterOnce
  <2>2. ShutdownTypes'
    BY <1>0, <1>1, <2>1 DEF ShutdownTypes
  <2>3. OnceIsHeld'
    BY <1>0, <1>1, <2>1 DEF OnceIsHeld, InOnce
  <2> QED
    BY <2>2, <2>3
<1>3. CASE StopServer(c)
  <2>1. CloseStep(c, "stop", "walk") /\ toQuit' \in SetToSeqs(Tracked)
        /\ UNCHANGED <<signalVars, grpcClosed, once, queueClosed, hasty, crashed>>
    BY <1>3 DEF StopServer
  <2>2. ShutdownTypes'
    BY <1>0, <1>1, <2>1, WalkOrder DEF ShutdownTypes
  <2>3. OnceIsHeld'
    BY <1>0, <1>1, <2>1 DEF OnceIsHeld, InOnce
  <2> QED
    BY <2>2, <2>3
<1>4. CASE QuitVisit(c)
  <2>1. PICK to \in {"push", "walk"} :
           /\ CloseStep(c, "walk", to) /\ toQuit # <<>>
           /\ toQuit' = IF to = "push" THEN toQuit ELSE Tail(toQuit)
           /\ UNCHANGED <<signalVars, grpcClosed, once, queueClosed, hasty, crashed>>
    BY <1>4 DEF QuitVisit
  <2>2. toQuit' \in Seq(Sensors)
    BY <1>0, <2>1 DEF ShutdownTypes
  <2>3. ShutdownTypes'
    BY <1>0, <1>1, <2>1, <2>2 DEF ShutdownTypes
  <2>4. OnceIsHeld'
    BY <1>0, <1>1, <2>1 DEF OnceIsHeld, InOnce
  <2> QED
    BY <2>3, <2>4
<1>5. CASE QuitPush(c)
  <2>1. CloseStep(c, "push", "walk") /\ toQuit' = Tail(toQuit)
        /\ UNCHANGED <<signalVars, grpcClosed, once, queueClosed, hasty, crashed>>
    BY <1>5 DEF QuitPush
  <2>2. toQuit # <<>>
    BY <1>0, <1>1, <2>1 DEF OnceIsHeld
  <2>3. toQuit' \in Seq(Sensors)
    BY <1>0, <2>1, <2>2 DEF ShutdownTypes
  <2>4. ShutdownTypes'
    BY <1>0, <1>1, <2>1, <2>3 DEF ShutdownTypes
  <2>5. OnceIsHeld'
    BY <1>0, <1>1, <2>1 DEF OnceIsHeld, InOnce
  <2> QED
    BY <2>4, <2>5
<1>6. CASE LeaveOnce(c)
  <2>1. CloseStep(c, "walk", "sleep") /\ once' = "done"
        /\ UNCHANGED <<signalVars, grpcClosed, toQuit, queueClosed, hasty, crashed>>
    BY <1>6 DEF LeaveOnce
  <2>2. ShutdownTypes'
    BY <1>0, <1>1, <2>1 DEF ShutdownTypes
  <2>3. \A d \in Closers : cpc'[d] \notin InOnce
    BY <1>0, <1>1, <2>1 DEF OnceIsHeld, InOnce
  <2>4. OnceIsHeld'
    BY <1>0, <1>1, <2>1, <2>3 DEF OnceIsHeld, InOnce
  <2> QED
    BY <2>2, <2>4
<1>7. CASE SkipOnce(c) \/ CloseStore(c)
  <2>1. PICK from \in {"once", "sleep"}, to \in {"sleep", "done"} :
           /\ CloseStep(c, from, to) /\ (from = "once" => once = "done") /\ (from = "sleep" => to = "done")
           /\ {queueClosed', hasty'} \subseteq BOOLEAN /\ (queueClosed' => queueClosed \/ from = "sleep")
           /\ UNCHANGED <<signalVars, grpcClosed, once, toQuit, crashed>>
    <3>1. CASE SkipOnce(c)
      BY <1>0, <3>1 DEF SkipOnce, ShutdownTypes
    <3>2. CASE CloseStore(c)
      BY <1>0, <3>2 DEF CloseStore, ShutdownTypes
    <3> QED
      BY <1>7, <3>1, <3>2
  <2>2. ShutdownTypes'
    BY <1>0, <1>1, <2>1 DEF ShutdownTypes
  <2>3. OnceIsHeld'
    BY <1>0, <1>1, <2>1 DEF OnceIsHeld, InOnce
  <2> QED
    BY <2>2, <2>3
<1> QED
  BY <1>2, <1>3, <1>4, <1>5, <1>6, <1>7 DEF Close

\* A call of Close waits for the once before it does anything.
LEMMA CallKeeps ==
  ASSUME ShutdownInv, (\E w \in Workers : WorkerSignal(w)) \/ StopRequest
  PROVE  CloseInv'
<1>0. ShutdownTypes /\ OnceIsHeld
  BY DEF ShutdownInv, CloseInv
<1>1. PICK c \in Closers :
         /\ cpc' = [cpc EXCEPT ![c] = "once"]
         /\ sigchan' \in BOOLEAN
         /\ UNCHANGED <<signals, idSig, alive, grpcClosed, once, toQuit, queueClosed, hasty, crashed>>
  <2>1. CASE StopRequest
    BY <1>0, <2>1 DEF StopRequest, CloseStep, Closers, signalVars, ShutdownTypes
  <2>2. ASSUME NEW w \in Workers, WorkerSignal(w)
        PROVE  w \in Closers /\ cpc' = [cpc EXCEPT ![w] = "once"] /\ sigchan' \in BOOLEAN
               /\ UNCHANGED <<signals, idSig, alive, grpcClosed, once, toQuit, queueClosed, hasty, crashed>>
    BY <2>2 DEF WorkerSignal, CloseStep, Closers
  <2> QED
    BY <2>1, <2>2
<1>2. cpc'[c] = "once" /\ \A d \in Closers \ {c} : cpc'[d] = cpc[d]
  BY <1>0, <1>1 DEF ShutdownTypes
<1>3. ShutdownTypes'
  BY <1>0, <1>1 DEF ShutdownTypes
<1>4. OnceIsHeld'
  BY <1>0, <1>1, <1>2 DEF OnceIsHeld, InOnce
<1> QED
  BY <1>3, <1>4 DEF CloseInv

\* Signals, goroutines that return and panics change nothing in Close.
LEMMA OthersKeep ==
  ASSUME ShutdownInv,
         \/ SendPanic \/ \E w \in Workers : WritePanic(w)
         \/ Signal \/ IDsReturn \/ WalkerReturn \/ StreamReturn \/ UNCHANGED shutdownVars
  PROVE  CloseInv'
<1>0. ShutdownTypes /\ OnceIsHeld
  BY DEF ShutdownInv, CloseInv
<1>1. UNCHANGED closeVars
  BY DEF SendPanic, WritePanic, Signal, IDsReturn, WalkerReturn, StreamReturn, Return, shutdownVars
<1>2. /\ signals' \in 0 .. MaxSignals /\ {sigchan', idSig', crashed'} \subseteq BOOLEAN
      /\ alive' \subseteq {"walker", "stream", "ids"}
  <2>1. CASE Signal
    BY <1>0, <2>1, ShutdownAssumption DEF Signal, ShutdownTypes
  <2>2. CASE ~Signal
    BY <1>0, <2>2 DEF SendPanic, WritePanic, IDsReturn, WalkerReturn, StreamReturn, Return,
       shutdownVars, signalVars, ShutdownTypes
  <2> QED
    BY <2>1, <2>2
<1>3. ShutdownTypes'
  BY <1>0, <1>1, <1>2 DEF ShutdownTypes, closeVars
<1>4. OnceIsHeld'
  BY <1>0, <1>1 DEF OnceIsHeld, closeVars
<1> QED
  BY <1>3, <1>4 DEF CloseInv

\* Every step keeps the invariant.
LEMMA ShutdownStep == ShutdownInv /\ [ShutdownNext]_allVars => ShutdownInv'
<1> SUFFICES ASSUME ShutdownInv, [ShutdownNext]_allVars PROVE ShutdownInv'
  OBVIOUS
<1>0. IInv
  BY DEF ShutdownInv
<1>1. ASSUME UNCHANGED vars PROVE IInv'
  BY <1>0, <1>1, InvStep
<1>2. CASE DataPath
  <2>1. IInv'
    BY <1>0, <1>2, DataPathIsNext, InvStep
  <2>2. CloseInv'
    BY <1>2, DataPathIsNext, OthersKeep
  <2> QED
    BY <2>1, <2>2 DEF ShutdownInv
<1>3. ASSUME NEW c \in Closers, Close(c) PROVE ShutdownInv'
  <2>1. CASE QuitPush(c)
    BY <1>3, <2>1, QuitPushKeeps, CloseKeeps DEF ShutdownInv
  <2>2. CASE ~QuitPush(c)
    <3>1. UNCHANGED vars
      BY <1>3, <2>2 DEF Close, EnterOnce, StopServer, QuitVisit, LeaveOnce, SkipOnce, CloseStore
    <3> QED
      BY <1>1, <1>3, <3>1, CloseKeeps DEF ShutdownInv
  <2> QED
    BY <2>1, <2>2
<1>4. CASE (\E w \in Workers : WorkerSignal(w)) \/ StopRequest
  <2>1. UNCHANGED vars
    BY <1>4 DEF WorkerSignal, StopRequest
  <2> QED
    BY <1>1, <1>4, <2>1, CallKeeps DEF ShutdownInv
<1>5. CASE \/ SendPanic \/ \E w \in Workers : WritePanic(w)
           \/ Signal \/ IDsReturn \/ WalkerReturn \/ StreamReturn \/ UNCHANGED allVars
  <2>1. UNCHANGED vars
    BY <1>5 DEF SendPanic, WritePanic, Signal, IDsReturn, WalkerReturn, StreamReturn, Return, allVars
  <2>2. CloseInv'
    BY <1>5, OthersKeep DEF allVars
  <2> QED
    BY <1>1, <2>1, <2>2 DEF ShutdownInv
<1> QED
  BY <1>2, <1>3, <1>4, <1>5 DEF ShutdownNext

\* The invariant holds in every reachable state of a service that ends.
LEMMA ShutdownInvariant == ShutdownSpec => []ShutdownInv
BY CloseInit, ShutdownStep, PTL DEF ShutdownSpec

\* The types hold to the end.
THEOREM ShutdownTypeCorrect == ShutdownSpec => []ShutdownTypeOK
<1>1. ShutdownInv => ShutdownTypeOK
  BY DEF ShutdownInv, CloseInv, IInv, ShutdownTypes, ShutdownTypeOK
<1> QED
  BY <1>1, ShutdownInvariant, PTL

\* However many workers and Start call Close at once, one of them walks over the
\* sensors, and before any queue of the file cache is closed (arc.once).
THEOREM WalkIsFirst == ShutdownSpec => []WalkBeforeClose
<1>1. ShutdownInv => WalkBeforeClose
  BY DEF ShutdownInv, CloseInv, OnceIsHeld, WalkBeforeClose, InOnce
<1> QED
  BY <1>1, ShutdownInvariant, PTL

\* The timeouts of quitSyncMapWalk, which come from another goroutine and among
\* those of the walker, drop no frame either: up to the end of the process each
\* is in the channel, in the buffer or on disk.
THEOREM FramesAreKeptToTheEnd == ShutdownSpec => []NoFrameLost
<1>1. ShutdownInv => NoFrameLost
  BY InvIsNoFrameLost DEF ShutdownInv
<1> QED
  BY <1>1, ShutdownInvariant, PTL

\* Nor do they change what is written: with a quit walk among its timeouts, a signal
\* taken between two frames and queues that close, the worker still writes each
\* sensor's frames in batches of consecutive frames, in order and without a gap.
THEOREM LogIsKeptToTheEnd == ShutdownSpec => ImplementsFrameLog
<1>1. ShutdownInit => Log!Init
  BY DEF ShutdownInit, Init, Log!Init
<1>2. ShutdownInv /\ [ShutdownNext]_allVars => [Log!Next]_<<sent, jobs>>
  <2> SUFFICES ASSUME ShutdownInv, [ShutdownNext]_allVars PROVE [Log!Next]_<<sent, jobs>>
    OBVIOUS
  <2>1. CASE DataPath
    BY <2>1, DataPathIsNext, LogStep DEF ShutdownInv
  <2>2. CASE ~DataPath
    <3>1. UNCHANGED <<sent, jobs>>
      BY <2>2 DEF ShutdownNext, SendPanic, WritePanic, Signal, IDsReturn, WalkerReturn, StreamReturn, Return,
                  WorkerSignal, StopRequest, Close, EnterOnce, StopServer, QuitVisit, QuitPush, LeaveOnce,
                  SkipOnce, CloseStore, workerVars, vars, allVars
    <3> QED
      BY <3>1
  <2> QED
    BY <2>1, <2>2
<1> QED
  BY <1>1, <1>2, ShutdownInvariant, PTL DEF ShutdownSpec, ImplementsFrameLog, Log!Spec

------------------------------------------------------------------------------
(* What is written when the queues close.  The proof needs what               *)
(* timeoutSyncMap tells of a buffer, that only Start closes as long as no     *)
(* signal came, and how an unhurried end leaves the workers.                  *)

\* A sensor in timeoutSyncMap has a buffer, and between two frames of it what
\* the buffer holds has been written: Update comes after the write.
TrackedIsStored ==
  \A s \in Sensors : s \in Tracked =>
     /\ vol[s] # None
     /\ ~Doing(s, {"write", "notify", "update"}) => Stored(s, End(s))

\* Without a signal no worker calls Close and setDefaultSensorids goes on.
OnlyStart ==
  signals = 0 =>
    ~sigchan /\ ~idSig /\ alive = {"walker", "stream", "ids"} /\ \A w \in Workers : cpc[w] = "none"

\* Once the queues have been closed without haste no frame waits for a worker,
\* and no worker gets beyond the closed queue.
WorkersRest ==
  queueClosed /\ ~hasty /\ signals = 0 =>
    \A w \in Workers : results[w] = <<>> /\ work[w].pc \in {"idle", "flush"}

EndInv == TrackedIsStored /\ OnlyStart /\ WorkersRest

\* At the start nothing is tracked and no signal has come.
LEMMA EndInit == ShutdownInit => EndInv
<1> SUFFICES ASSUME ShutdownInit PROVE EndInv
  OBVIOUS
<1>1. Tracked \cap Sensors = {}
  BY DEF ShutdownInit, Init, Tracked
<1>2. OnlyStart
  BY DEF ShutdownInit, OnlyStart, Closers
<1> QED
  BY <1>1, <1>2 DEF ShutdownInit, EndInv, TrackedIsStored, WorkersRest

\* A sensor for which a step changes nothing stays as it was.
LEMMA UntouchedStaysStored ==
  ASSUME TrackedIsStored, NEW s \in Sensors, UNCHANGED <<vol[s], jobs[s]>>,
         s \in Tracked' => s \in Tracked,
         Doing(s, {"write", "notify", "update"}) => Doing(s, {"write", "notify", "update"})'
  PROVE  s \in Tracked' => /\ vol'[s] # None
                           /\ ~Doing(s, {"write", "notify", "update"})' => Stored(s, End(s))'
<1>1. UNCHANGED End(s)
  BY DEF End
<1> QED
  BY <1>1 DEF TrackedIsStored, Stored

\* The steps of a worker: for its own sensor only Update makes an entry, and only
\* Flushed deletes the buffer, with the entry.
LEMMA TrackedWorker ==
  ASSUME IInv, TrackedIsStored, NEW w \in Workers, Worker(w)
  PROVE  TrackedIsStored'
<1> DEFINE OK(j) == j \in Tracked => /\ vol[j] # None
                                     /\ ~Doing(j, {"write", "notify", "update"}) => Stored(j, End(j))
<1>0. TypeOK /\ Routed
  BY DEF IInv
<1>1. ASSUME UNCHANGED <<vol, jobs, idle>>,
             \A u \in Workers : work[u].pc \in {"write", "notify", "update"} =>
                work'[u].pc \in {"write", "notify", "update"} /\ work'[u].s = work[u].s
      PROVE  TrackedIsStored'
  <2> SUFFICES ASSUME NEW j \in Sensors PROVE OK(j)'
    BY DEF TrackedIsStored
  <2>1. Doing(j, {"write", "notify", "update"}) => Doing(j, {"write", "notify", "update"})'
    BY <1>1, Constants DEF Doing
  <2>2. j \in Tracked' => j \in Tracked
    BY <1>1 DEF Tracked
  <2> QED
    BY <1>1, <2>1, <2>2, UntouchedStaysStored
\* The sensors but one, whose worker does nothing for them.
<1>2. ASSUME NEW s \in Sensors, NEW j \in Sensors \ {s}, WorkerOf[s] = w,
             \A i \in Sensors \ {s} : UNCHANGED <<vol[i], jobs[i], idle[i]>>,
             \A u \in Workers \ {w} : UNCHANGED work[u],
             work[w].s \in {s, None}
      PROVE  OK(j)'
  <2>1. Doing(j, {"write", "notify", "update"}) => Doing(j, {"write", "notify", "update"})'
    <3>1. CASE WorkerOf[j] = w
      BY <1>2, <3>1, Constants DEF Doing
    <3>2. CASE WorkerOf[j] # w
      BY <1>2, <3>2, Constants DEF Doing
    <3> QED
      BY <3>1, <3>2
  <2>2. j \in Tracked' => j \in Tracked
    BY <1>2 DEF Tracked
  <2> QED
    BY <1>2, <2>1, <2>2, UntouchedStaysStored
<1>3. CASE FirstFrame(w)
  <2>1. PICK s \in Sensors, n \in Frames :
           Head(results[w]).s = s /\ Head(results[w]).n = n /\ WorkerOf[s] = w /\ work[w].s = None
    BY <1>3, FrameTaken DEF FirstFrame
  <2>2. vol[s] = None /\ vol' = [vol EXCEPT ![s] = <<n>>] /\ UNCHANGED <<work, jobs, idle>>
    BY <1>3, <2>1 DEF FirstFrame, TakeFrame
  <2>3. s \notin Tracked'
    BY <2>2 DEF TrackedIsStored, Tracked
  <2>4. \A j \in Sensors \ {s} : OK(j)'
    BY <1>0, <1>2, <2>1, <2>2 DEF TypeOK
  <2> QED
    BY <2>3, <2>4 DEF TrackedIsStored
<1>4. CASE NextFrame(w)
  <2>1. PICK s \in Sensors, n \in Frames :
           /\ Head(results[w]).s = s /\ Head(results[w]).n = n /\ WorkerOf[s] = w
           /\ work[w].s = None /\ s # None
    BY <1>4, FrameTaken DEF NextFrame
  <2>2. /\ vol[s] # None /\ vol' = [vol EXCEPT ![s] = Append(vol[s], n)]
        /\ work' = [work EXCEPT ![w] = [pc |-> "write", s |-> s, n |-> n]]
        /\ UNCHANGED <<jobs, idle>>
    BY <1>4, <2>1 DEF NextFrame, TakeFrame
  <2>3. Doing(s, {"write", "notify", "update"})'
    BY <1>0, <2>1, <2>2 DEF TypeOK, Doing
  <2>4. vol'[s] # None
    <3>1. vol'[s] = Append(vol[s], n) /\ vol[s] \in Seq(Frames)
      BY <1>0, <2>2 DEF TypeOK
    <3>2. vol'[s] \in Seq(Frames)
      BY <3>1
    <3> QED
      BY <3>2, Constants
  <2>5. \A j \in Sensors \ {s} : OK(j)'
    BY <1>0, <1>2, <2>1, <2>2 DEF TypeOK
  <2> QED
    BY <2>3, <2>4, <2>5 DEF TrackedIsStored
<1>5. CASE Written(w)
  <2>0. work[w].pc = "write"
    BY <1>5 DEF Written
  <2>1. PICK s \in Sensors, n \in Frames :
           work[w].s = s /\ WorkerOf[s] = w /\ vol[s] = <<n - 1, n>> /\ {n - 1, n} \subseteq Frames
    BY <2>0, AtWork
  <2>2. /\ work' = [work EXCEPT ![w].pc = "notify"]
        /\ jobs' = [jobs EXCEPT ![s] = Append(jobs[s], vol[s])]
        /\ UNCHANGED <<vol, idle>>
    BY <1>5, <2>1 DEF Written, WriteErrs
  <2>3. Doing(s, {"write", "notify", "update"})'
    BY <1>0, <2>1, <2>2 DEF TypeOK, Works, Doing
  <2>4. vol'[s] # None
    <3>1. vol[s] \in Seq(Frames)
      BY <2>1, PairOf
    <3> QED
      BY <2>2, <3>1, Constants
  <2>5. \A j \in Sensors \ {s} : OK(j)'
    BY <1>0, <1>2, <2>1, <2>2 DEF TypeOK
  <2> QED
    BY <2>3, <2>4, <2>5 DEF TrackedIsStored
<1>6. CASE Update(w)
  <2>0. work[w].pc = "update"
    BY <1>6 DEF Update
  <2>1. PICK s \in Sensors, n \in Frames :
           work[w].s = s /\ work[w].n = n /\ WorkerOf[s] = w
    BY <2>0, AtWork
  <2>2. /\ work' = [work EXCEPT ![w] = AtRest] /\ vol' = [vol EXCEPT ![s] = <<n>>]
        /\ idle' = [idle EXCEPT ![s] = 0] /\ UNCHANGED jobs
    BY <1>6, <2>1 DEF Update
  <2>3. vol'[s] = <<n>> /\ vol'[s] # None
    BY <1>0, <2>2, Constants, Elements DEF TypeOK
  <2>4. End(s)' = n
    BY <2>3 DEF End, Last
  <2>5. Stored(s, n)'
    <3>1. BufferOf(s)
      BY DEF IInv, SensorOK
    <3>2. jobs[s] # <<>> /\ Last(jobs[s]) = <<n - 1, n>>
      BY <2>0, <2>1, <3>1 DEF BufferOf, Doing
    <3>3. jobs[s] \in Seq(Seq(Frames))
      BY <1>0 DEF TypeOK
    <3>4. Len(jobs[s]) \in DOMAIN jobs[s] /\ jobs[s][Len(jobs[s])] = <<n - 1, n>>
      BY <3>2, <3>3 DEF Last
    <3>5. Contains(<<n - 1, n>>, n)
      BY DEF Contains
    <3> QED
      BY <2>2, <3>4, <3>5 DEF Stored
  <2>6. \A j \in Sensors \ {s} : OK(j)'
    BY <1>0, <1>2, <2>1, <2>2 DEF TypeOK
  <2> QED
    BY <2>3, <2>4, <2>5, <2>6 DEF TrackedIsStored
<1>7. CASE Flushed(w)
  <2>0. work[w].pc = "flush"
    BY <1>7 DEF Flushed
  <2>1. PICK s \in Sensors : work[w].s = s /\ WorkerOf[s] = w
    BY <2>0, FlushedBatch
  <2>2. /\ work' = [work EXCEPT ![w] = AtRest] /\ vol' = [vol EXCEPT ![s] = None]
        /\ idle' = [idle EXCEPT ![s] = None] /\ jobs' = [jobs EXCEPT ![s] = Append(jobs[s], vol[s])]
    BY <1>7, <2>1 DEF Flushed, WriteErrs
  <2>3. s \notin Tracked'
    BY <1>0, <2>2 DEF TypeOK, Tracked
  <2>4. \A j \in Sensors \ {s} : OK(j)'
    BY <1>0, <1>2, <2>1, <2>2 DEF TypeOK
  <2> QED
    BY <2>3, <2>4 DEF TrackedIsStored
<1>8. CASE Notify(w) \/ NothingToFlush(w) \/ Flush(w)
  <2>1. UNCHANGED <<vol, jobs, idle>>
    BY <1>8 DEF Notify, NothingToFlush, Flush, workerVars
  <2>2. \A u \in Workers : work[u].pc \in {"write", "notify", "update"} =>
           work'[u].pc \in {"write", "notify", "update"} /\ work'[u].s = work[u].s
    BY <1>0, <1>8 DEF Notify, NothingToFlush, Flush, TakeTimeout, workerVars, TypeOK, Works
  <2> QED
    BY <1>1, <2>1, <2>2
<1> QED
  BY <1>3, <1>4, <1>5, <1>6, <1>7, <1>8 DEF Worker

\* No other step writes, or makes an entry.
LEMMA TrackedStep ==
  ASSUME ShutdownInv, TrackedIsStored, [ShutdownNext]_allVars
  PROVE  TrackedIsStored'
<1>0. IInv /\ TypeOK
  BY DEF ShutdownInv, IInv
<1>1. ASSUME UNCHANGED <<vol, jobs, work>>, Tracked' \subseteq Tracked PROVE TrackedIsStored'
  BY <1>1, UntouchedStaysStored DEF TrackedIsStored, Doing
<1>2. CASE DataPath
  <2>1. ASSUME NEW w \in Workers, Worker(w) PROVE TrackedIsStored'
    BY <1>0, <2>1, TrackedWorker
  <2>2. CASE (\E s \in Sensors : Receive(s)) \/ HaveSensorIDs \/ GossipTick \/ GossipSend \/ Walker
    <3>1. UNCHANGED <<vol, jobs, work, idle>>
      BY <2>2 DEF Receive, HaveSensorIDs, GossipTick, GossipSend, Walker, StartWalk, Push, Visit, workerVars
    <3> QED
      BY <1>1, <3>1 DEF Tracked
  <2>3. CASE Pass
    <3>1. UNCHANGED <<vol, jobs, work>> /\ \A s \in Sensors : s \notin Tracked => idle'[s] = idle[s]
      BY <1>0, <2>3 DEF Pass, workerVars, TypeOK
    <3>2. Tracked' \subseteq Tracked
      BY <3>1 DEF Tracked
    <3> QED
      BY <1>1, <3>1, <3>2
  <2> QED
    BY <1>2, <2>1, <2>2, <2>3 DEF DataPath
<1>3. CASE ~DataPath
  <2>1. UNCHANGED <<vol, jobs, work, idle>>
    BY <1>3 DEF ShutdownNext, SendPanic, WritePanic, Signal, IDsReturn, WalkerReturn, StreamReturn, Return,
                WorkerSignal, StopRequest, Close, EnterOnce, StopServer, QuitVisit, QuitPush, LeaveOnce,
                SkipOnce, CloseStore, workerVars, vars, allVars
  <2> QED
    BY <1>1, <2>1 DEF Tracked
<1> QED
  BY <1>2, <1>3

\* Only a signal makes a worker call Close or another goroutine return.
LEMMA OnlyStartStep ==
  ASSUME ShutdownInv, OnlyStart, [ShutdownNext]_allVars
  PROVE  OnlyStart'
<1>0. signals \in Nat /\ cpc \in [Closers -> {"none", "once", "stop", "walk", "push", "sleep", "done"}]
  BY ShutdownAssumption DEF ShutdownInv, CloseInv, ShutdownTypes
<1> SUFFICES ASSUME signals' = 0
             PROVE  ~sigchan' /\ ~idSig' /\ alive' = {"walker", "stream", "ids"} /\ \A w \in Workers : cpc'[w] = "none"
  BY DEF OnlyStart
<1>1. signals = 0
  BY <1>0 DEF ShutdownNext, DataPath, SendPanic, WritePanic, Signal, IDsReturn, WalkerReturn, StreamReturn, Return,
              WorkerSignal, StopRequest, Close, EnterOnce, StopServer, QuitVisit, QuitPush, LeaveOnce,
              SkipOnce, CloseStore, shutdownVars, signalVars, allVars
<1>2. ~sigchan /\ ~idSig /\ alive = {"walker", "stream", "ids"} /\ \A w \in Workers : cpc[w] = "none"
  BY <1>1 DEF OnlyStart
<1>3. ~Signal
  BY <1>0 DEF Signal
<1>4. UNCHANGED <<sigchan, idSig, alive>>
  BY <1>2, <1>3 DEF ShutdownNext, DataPath, SendPanic, WritePanic, IDsReturn, WalkerReturn, StreamReturn,
              WorkerSignal, StopRequest, Close, EnterOnce, StopServer, QuitVisit, QuitPush, LeaveOnce,
              SkipOnce, CloseStore, shutdownVars, signalVars, allVars
<1>5. ASSUME NEW w \in Workers PROVE cpc'[w] = "none"
  <2>0. w \in Closers /\ w # Start /\ cpc[w] = "none"
    BY <1>2, ShutdownAssumption DEF Closers
  <2>1. CASE StopRequest
    BY <1>0, <2>0, <2>1 DEF StopRequest, CloseStep
  <2>2. ASSUME NEW c \in Closers, Close(c) PROVE cpc'[w] = "none"
    <3>1. c # w
      BY <2>0, <2>2 DEF Close, EnterOnce, StopServer, QuitVisit, QuitPush, LeaveOnce, SkipOnce, CloseStore, CloseStep
    <3> QED
      BY <1>0, <2>0, <2>2, <3>1 DEF Close, EnterOnce, StopServer, QuitVisit, QuitPush, LeaveOnce, SkipOnce,
         CloseStore, CloseStep
  <2>3. ASSUME NEW v \in Workers, WorkerSignal(v) PROVE FALSE
    BY <1>2, <2>3 DEF WorkerSignal
  <2>4. CASE DataPath \/ SendPanic \/ (\E v \in Workers : WritePanic(v)) \/ IDsReturn \/ WalkerReturn
             \/ StreamReturn \/ UNCHANGED allVars
    BY <2>0, <2>4 DEF DataPath, SendPanic, WritePanic, IDsReturn, WalkerReturn, StreamReturn, Return,
       shutdownVars, closeVars, allVars
  <2> QED
    BY <1>3, <2>1, <2>2, <2>3, <2>4 DEF ShutdownNext
<1> QED
  BY <1>2, <1>4, <1>5

\* An unhurried end finds the workers at rest, and they stay so.
LEMMA WorkersRestStep ==
  ASSUME ShutdownInv, OnlyStart, WorkersRest, [ShutdownNext]_allVars
  PROVE  WorkersRest'
<1>0. TypeOK /\ signals \in Nat /\ queueClosed \in BOOLEAN /\ hasty \in BOOLEAN
  BY ShutdownAssumption DEF ShutdownInv, IInv, CloseInv, ShutdownTypes
<1>1. ASSUME queueClosed => queueClosed' /\ UNCHANGED hasty, signals' = 0 => signals = 0,
             UNCHANGED <<results, work>>, queueClosed' = queueClosed
      PROVE  WorkersRest'
  BY <1>1 DEF WorkersRest
<1>2. CASE DataPath
  <2>0. UNCHANGED <<queueClosed, hasty, signals>>
    BY <1>2 DEF DataPath, shutdownVars, signalVars, closeVars
  <2> SUFFICES ASSUME queueClosed, ~hasty, signals = 0,
                      \A w \in Workers : results[w] = <<>> /\ work[w].pc \in {"idle", "flush"}
               PROVE  \A w \in Workers : results'[w] = <<>> /\ work'[w].pc \in {"idle", "flush"}
    BY <2>0 DEF WorkersRest
  <2>1. ASSUME NEW w \in Workers, Worker(w), ~Writing(w)
        PROVE  \A u \in Workers : results'[u] = <<>> /\ work'[u].pc \in {"idle", "flush"}
    <3>1. work[w].pc = "idle" /\ results[w] = <<>>
      BY <2>1 DEF Writing
    <3>2. NothingToFlush(w) \/ Flush(w)
      BY <2>1, <3>1 DEF Worker, FirstFrame, NextFrame, TakeFrame, Written, Notify, Update, Flushed
    <3>3. /\ UNCHANGED results
          /\ \/ UNCHANGED work
             \/ work' = [work EXCEPT ![w] = [pc |-> "flush", s |-> Head(timeoutCh[w]), n |-> 0]]
      BY <3>2 DEF NothingToFlush, Flush, workerVars
    <3>4. \A u \in Workers : work'[u].pc \in {"idle", "flush"}
      <4>1. work \in [Workers -> Works]
        BY <1>0 DEF TypeOK
      <4>2. CASE UNCHANGED work
        BY <4>2
      <4>3. CASE work' = [work EXCEPT ![w] = [pc |-> "flush", s |-> Head(timeoutCh[w]), n |-> 0]]
        <5>1. \A u \in Workers : work'[u] = work[u] \/ work'[u].pc = "flush"
          BY <4>1, <4>3
        <5> QED
          BY <5>1
      <4> QED
        BY <3>3, <4>2, <4>3
    <3> QED
      BY <3>3, <3>4
  <2>2. CASE HaveSensorIDs \/ GossipTick \/ GossipSend \/ Pass \/ Walker
    BY <2>2 DEF HaveSensorIDs, GossipTick, GossipSend, Pass, Walker, StartWalk, Push, Visit, workerVars
  <2> QED
    BY <1>2, <2>1, <2>2 DEF DataPath
<1>3. ASSUME NEW c \in Closers, CloseStore(c) PROVE WorkersRest'
  <2>1. UNCHANGED <<results, work, signals>> /\ queueClosed'
    BY <1>3 DEF CloseStore, vars, workerVars, signalVars
  <2>2. CASE queueClosed
    BY <1>3, <2>1, <2>2 DEF CloseStore, WorkersRest
  <2>3. CASE ~queueClosed
    <3> SUFFICES ASSUME ~hasty', signals = 0, NEW w \in Workers
                 PROVE  results[w] = <<>> /\ work[w].pc \in {"idle", "flush"}
      BY <2>1 DEF WorkersRest
    <3>1. Settled
      BY <1>3, <2>3 DEF CloseStore
    <3>2. ~InClose(w) /\ "ids" \in alive
      BY DEF OnlyStart, InClose
    <3>3. ~Busy(w)
      BY <3>1 DEF Settled
    <3>4. work[w].pc \in {"idle", "write", "notify", "update", "flush"}
      BY <1>0 DEF TypeOK, Works
    <3> QED
      BY <3>2, <3>3, <3>4 DEF Busy
  <2> QED
    BY <1>0, <2>2, <2>3
<1>4. ASSUME NEW c \in Closers, Close(c), ~CloseStore(c) PROVE WorkersRest'
  BY <1>1, <1>4 DEF Close, EnterOnce, StopServer, QuitVisit, QuitPush, LeaveOnce, SkipOnce, vars, workerVars,
                    signalVars
<1>5. CASE Signal
  BY <1>0, <1>1, <1>5 DEF Signal, vars, workerVars, closeVars
<1>6. CASE \/ SendPanic \/ (\E w \in Workers : WritePanic(w)) \/ IDsReturn \/ WalkerReturn \/ StreamReturn
           \/ (\E w \in Workers : WorkerSignal(w)) \/ StopRequest \/ UNCHANGED allVars
  BY <1>1, <1>6 DEF SendPanic, WritePanic, IDsReturn, WalkerReturn, StreamReturn, Return, WorkerSignal,
     StopRequest, vars, workerVars, signalVars, closeVars, shutdownVars, allVars
<1> QED
  BY <1>2, <1>3, <1>4, <1>5, <1>6 DEF ShutdownNext

\* Both invariants hold in every reachable state of a service that ends.
LEMMA EndInvariant == ShutdownSpec => [](ShutdownInv /\ EndInv)
<1>1. ShutdownInv /\ EndInv /\ [ShutdownNext]_allVars => EndInv'
  BY TrackedStep, OnlyStartStep, WorkersRestStep DEF EndInv
<1> QED
  BY <1>1, EndInit, ShutdownInvariant, PTL DEF ShutdownSpec

\* Without a signal, and when the sleep of Close has been long enough, the only
\* frame not written when the queues close is one that no later frame of its
\* sensor has followed and that timeoutSyncMap does not know of.
THEOREM OthersAreWritten == ShutdownSpec => []WrittenAtClose
<1>1. ASSUME ShutdownInv, EndInv PROVE WrittenAtClose
  <2> SUFFICES ASSUME queueClosed, ~hasty, signals = 0, NEW s \in Sensors, NEW n \in 1 .. sent[s]
               PROVE  Stored(s, n) \/ (vol[s] = <<n>> /\ s \notin Tracked)
    BY DEF WrittenAtClose
  <2>0. IInv /\ TrackedIsStored /\ WorkersRest /\ NoFrameLost
    BY <1>1, InvIsNoFrameLost DEF ShutdownInv, EndInv
  <2>1. WorkerOf[s] \in Workers
    BY Constants
  <2>2. ~Queued(s, n)
    BY <2>0, <2>1 DEF WorkersRest, Queued, Contains
  <2>3. CASE Buffered(s, n)
    <3>1. ~Doing(s, {"write", "notify", "update"})
      BY <2>0, <2>1 DEF WorkersRest, Doing
    <3>2. PICK m \in Frames : vol[s] = <<m>>
      BY <2>0, <2>3, <3>1 DEF Buffered, IInv, SensorOK, BufferOf
    <3>3. m = n
      BY <2>3, <3>2 DEF Buffered, Contains
    <3>4. End(s) = n
      BY <2>3, <3>2, <3>3 DEF End, Last, Buffered
    <3> QED
      BY <2>0, <3>1, <3>2, <3>3, <3>4 DEF TrackedIsStored
  <2> QED
    BY <2>0, <2>2, <2>3 DEF NoFrameLost
<1> QED
  BY <1>1, EndInvariant, PTL
==============================================================================
