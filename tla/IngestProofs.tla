---------------------------- MODULE IngestProofs -----------------------------
(***************************************************************************)
(* Theorems about Ingest, for any sensors, workers, numbers of frames,     *)
(* capacities of the channels and timeouts.                                *)
(***************************************************************************)
EXTENDS Ingest, SequenceLemmas, TLAPS

------------------------------------------------------------------------------
(* The inductive invariant.                                                  *)

\* The last frame of s that its worker has taken.
End(s) ==
  IF vol[s] # None THEN Last(vol[s])
  ELSE IF jobs[s] # <<>> THEN Last(Last(jobs[s])) ELSE 0

\* What a worker does for a sensor; a sensor always has the same worker.
Doing(s, pcs) == work[WorkerOf[s]].s = s /\ work[WorkerOf[s]].pc \in pcs

Routed ==
  \A w \in Workers :
     /\ \A i \in DOMAIN results[w] : WorkerOf[results[w][i].s] = w
     /\ \A i \in DOMAIN timeoutCh[w] : WorkerOf[timeoutCh[w][i]] = w
     /\ work[w].pc = "idle" => work[w].s = None
     /\ work[w].pc # "idle" => work[w].s \in Sensors /\ WorkerOf[work[w].s] = w

\* The channel holds the frames after the last one taken, in order and each once.
ChannelOf(s) ==
  LET r == results[WorkerOf[s]] IN
  /\ \A i \in DOMAIN r : r[i].s = s => r[i].n \in End(s) + 1 .. sent[s]
  /\ \A i, j \in DOMAIN r : i < j /\ r[i].s = s /\ r[j].s = s => r[i].n < r[j].n
  /\ \A n \in End(s) + 1 .. sent[s] : Contains(r, [s |-> s, n |-> n])

\* Between two frames the buffer holds a single frame, which may follow what has
\* been written; while a frame is handled it holds the one before it as well.
BufferOf(s) ==
  LET n == work[WorkerOf[s]].n IN
  /\ jobs[s] # <<>> => Last(jobs[s]) # <<>>
  /\ End(s) <= sent[s]
  /\ Doing(s, {"write", "notify", "update"}) => {n - 1, n} \subseteq Frames /\ vol[s] = <<n - 1, n>>
  /\ Doing(s, {"write"}) => Log!Continues(jobs[s], n - 1)
  /\ Doing(s, {"notify", "update"}) => jobs[s] # <<>> /\ Last(jobs[s]) = <<n - 1, n>>
  /\ Doing(s, {"flush"}) => vol[s] # None
  /\ vol[s] # None /\ ~Doing(s, {"write", "notify", "update"}) =>
        \E m \in Frames : vol[s] = <<m>> /\ Log!Continues(jobs[s], m)

\* Every frame taken is in the buffer or has been written.
SavedOf(s) == \A n \in 1 .. End(s) : Buffered(s, n) \/ Stored(s, n)

SensorOK(s) == ChannelOf(s) /\ BufferOf(s) /\ SavedOf(s)

IInv == TypeOK /\ Routed /\ \A s \in Sensors : SensorOK(s)

------------------------------------------------------------------------------
(* Type correctness.                                                         *)

\* The assumptions on the constants, one by one.
LEMMA Constants ==
  /\ \A s \in Sensors : WorkerOf[s] \in Workers
  /\ MaxFrames \in Nat /\ MaxFrames > 0 /\ IDsCap \in Nat /\ Minute \in Nat /\ Minute > 0 /\ Horizon \in Nat
  /\ None \notin Sensors /\ None \notin Nat /\ None \notin Seq(Frames)
<1>1. {MaxFrames, IDsCap, TimeOut, Minute} \subseteq Nat \ {0}
  BY IngestAssumption
<1>2. Horizon \in Nat
  BY <1>1 DEF Horizon
<1>3. None \notin Seq(Frames)
  <2>1. Frames \subseteq Nat
    BY DEF Frames
  <2> QED
    BY <2>1, SeqWider, IngestAssumption
<1>4. None \notin Sensors /\ None \notin Nat /\ WorkerOf \in [Sensors -> Workers]
  BY IngestAssumption
<1> QED
  BY <1>1, <1>2, <1>3, <1>4

\* Types of what channels and workers hold.
LEMMA Elements ==
  /\ \A m \in Messages : m.s \in Sensors /\ m.n \in Frames
  /\ \A n \in Frames : n \in Nat /\ n \in 0 .. MaxFrames /\ <<n>> \in Seq(Frames)
  /\ \A s \in Sensors : \A n \in Frames : [s |-> s, n |-> n] \in Messages
<1>1. \A m \in Messages : m.s \in Sensors /\ m.n \in Frames
  BY DEF Messages
<1>2. \A n \in Frames : n \in Nat /\ n \in 0 .. MaxFrames
  BY Constants DEF Frames
<1>3. \A n \in Frames : <<n>> \in Seq(Frames)
  OBVIOUS
<1> QED
  BY <1>1, <1>2, <1>3 DEF Messages

\* Every variable has its type at the start.
LEMMA TypeInit == Init => TypeOK
<1> SUFFICES ASSUME Init PROVE TypeOK
  OBVIOUS
<1> USE Constants DEF Init
<1>1. 0 \in 0 .. MaxFrames /\ 0 \in 0 .. IDsCap /\ 0 \in 0 .. (Minute - 1)
  OBVIOUS
<1>2. results \in [Workers -> Seq(Messages)] /\ timeoutCh \in [Workers -> Seq(Sensors)]
  OBVIOUS
<1>3. vol \in [Sensors -> Seq(Frames) \cup {None}] /\ idle \in [Sensors -> 0 .. Horizon \cup {None}]
  OBVIOUS
<1>4. jobs \in [Sensors -> Seq(Seq(Frames))]
  OBVIOUS
<1>5. work \in [Workers -> Works]
  BY DEF AtRest, Works
<1>6. sent \in [Sensors -> 0 .. MaxFrames]
  BY <1>1
<1> QED
  BY <1>1, <1>2, <1>3, <1>4, <1>5, <1>6 DEF TypeOK

\* A frame that arrives is a frame, and its worker exists.
LEMMA TypeReceive ==
  ASSUME TypeOK, NEW s \in Sensors, Receive(s)
  PROVE  TypeOK'
<1> DEFINE w == WorkerOf[s]
<1>0. w \in Workers /\ MaxFrames \in Nat
  BY Constants
<1>1. sent[s] \in 0 .. MaxFrames /\ sent[s] < MaxFrames
  BY DEF Receive, TypeOK
<1>2. sent' = [sent EXCEPT ![s] = sent[s] + 1] /\ sent' \in [Sensors -> 0 .. MaxFrames] /\ sent'[s] \in Frames
  BY <1>0, <1>1 DEF Receive, TypeOK, Frames
<1>3. results' \in [Workers -> Seq(Messages)]
  <2>1. results' = [results EXCEPT ![w] = Append(results[w], [s |-> s, n |-> sent'[s]])]
    BY DEF Receive
  <2>2. [s |-> s, n |-> sent'[s]] \in Messages
    BY <1>2, Elements
  <2>3. Append(results[w], [s |-> s, n |-> sent'[s]]) \in Seq(Messages)
    BY <1>0, <2>2 DEF TypeOK
  <2> QED
    BY <1>0, <2>1, <2>3 DEF TypeOK
<1> QED
  BY <1>2, <1>3 DEF Receive, TypeOK, workerVars, walkerVars

\* A step of a worker keeps the types.
LEMMA TypeWorker ==
  ASSUME IInv, NEW w \in Workers, Worker(w)
  PROVE  TypeOK'
<1> USE DEF TypeOK, walkerVars
<1>0. TypeOK /\ Routed /\ \A s \in Sensors : BufferOf(s)
  BY DEF IInv, SensorOK
<1>1. ASSUME TakeFrame(w)
      PROVE  /\ Head(results[w]).s \in Sensors /\ Head(results[w]).n \in Frames
             /\ results' \in [Workers -> Seq(Messages)]
  <2>1. results[w] \in Seq(Messages) /\ results[w] # <<>>
    BY <1>0, <1>1 DEF TakeFrame
  <2>2. Head(results[w]) \in Messages /\ Tail(results[w]) \in Seq(Messages)
    BY <2>1
  <2> QED
    BY <1>0, <1>1, <2>2, Elements DEF TakeFrame
<1>2. ASSUME NEW pc \in {"idle", "write", "notify", "update", "flush"}, NEW s \in Sensors \cup {None},
             NEW n \in 0 .. MaxFrames
      PROVE  [work EXCEPT ![w] = [pc |-> pc, s |-> s, n |-> n]] \in [Workers -> Works]
  BY <1>0 DEF Works
<1>3. /\ [work EXCEPT ![w].pc = "notify"] \in [Workers -> Works]
      /\ [work EXCEPT ![w].pc = "update"] \in [Workers -> Works]
      /\ [work EXCEPT ![w] = AtRest] \in [Workers -> Works]
  <2>1. \A v \in Works : [v EXCEPT !.pc = "notify"] \in Works /\ [v EXCEPT !.pc = "update"] \in Works
    BY DEF Works
  <2>2. AtRest \in Works
    BY Constants DEF Works, AtRest
  <2> QED
    BY <1>0, <2>1, <2>2
<1>4. ASSUME work[w].pc # "idle"
      PROVE  work[w].s \in Sensors /\ vol[work[w].s] \in Seq(Frames) /\ vol[work[w].s] # None
  <2>1. work[w].s \in Sensors /\ WorkerOf[work[w].s] = w
    BY <1>0, <1>4 DEF Routed
  <2>2. work[w].pc \in {"write", "notify", "update", "flush"}
    BY <1>0, <1>4 DEF Works
  <2>3. vol[work[w].s] # None
    <3>1. CASE work[w].pc = "flush"
      BY <1>0, <2>1, <3>1 DEF BufferOf, Doing
    <3>2. CASE work[w].pc # "flush"
      <4>1. {work[w].n - 1, work[w].n} \subseteq Frames /\ vol[work[w].s] = <<work[w].n - 1, work[w].n>>
        BY <1>0, <2>1, <2>2, <3>2 DEF BufferOf, Doing
      <4>2. vol[work[w].s] \in Seq(Frames)
        BY <4>1
      <4> QED
        BY <4>2, Constants
    <3> QED
      BY <3>1, <3>2
  <2> QED
    BY <1>0, <2>1, <2>3
<1>5. ASSUME NEW s \in Sensors, vol[s] \in Seq(Frames)
      PROVE  [jobs EXCEPT ![s] = Append(@, vol[s])] \in [Sensors -> Seq(Seq(Frames))]
  <2>1. Append(jobs[s], vol[s]) \in Seq(Seq(Frames))
    BY <1>0, <1>5
  <2> QED
    BY <1>0, <2>1
<1>6. CASE FirstFrame(w)
  <2>1. vol' \in [Sensors -> Seq(Frames) \cup {None}]
    BY <1>0, <1>1, <1>6, Elements DEF FirstFrame
  <2> QED
    BY <1>0, <1>1, <1>6, <2>1 DEF FirstFrame
<1>7. CASE NextFrame(w)
  <2> DEFINE f == Head(results[w])
  <2>1. f.s \in Sensors /\ f.n \in Frames /\ vol[f.s] \in Seq(Frames)
    BY <1>0, <1>1, <1>7 DEF NextFrame
  <2>2. vol' = [vol EXCEPT ![f.s] = Append(vol[f.s], f.n)] /\ Append(vol[f.s], f.n) \in Seq(Frames)
    BY <1>7, <2>1 DEF NextFrame
  <2>3. vol' \in [Sensors -> Seq(Frames) \cup {None}]
    BY <1>0, <2>1, <2>2
  <2>4. work' \in [Workers -> Works]
    BY <1>2, <1>7, <2>1, Elements DEF NextFrame
  <2> QED
    BY <1>0, <1>1, <1>7, <2>3, <2>4 DEF NextFrame
<1>8. CASE Written(w)
  BY <1>0, <1>3, <1>4, <1>5, <1>8 DEF Written
<1>9. CASE Notify(w)
  <2>1. ids' \in 0 .. IDsCap
    BY <1>0, <1>9, Constants DEF Notify
  <2> QED
    BY <1>0, <1>3, <1>9, <2>1 DEF Notify
<1>10. CASE Update(w)
  <2>1. work[w].s \in Sensors /\ work[w].n \in Frames
    BY <1>0, <1>4, <1>10 DEF Update, Routed, BufferOf, Doing
  <2>2. vol' \in [Sensors -> Seq(Frames) \cup {None}]
    BY <1>0, <1>10, <2>1, Elements DEF Update
  <2>3. idle' \in [Sensors -> 0 .. Horizon \cup {None}]
    <3>1. 0 \in 0 .. Horizon
      BY Constants
    <3> QED
      BY <1>0, <1>10, <3>1 DEF Update
  <2> QED
    BY <1>0, <1>3, <1>10, <2>2, <2>3 DEF Update
<1>11. ASSUME TakeTimeout(w)
       PROVE  Head(timeoutCh[w]) \in Sensors /\ timeoutCh' \in [Workers -> Seq(Sensors)]
  <2>1. Head(timeoutCh[w]) \in Sensors /\ Tail(timeoutCh[w]) \in Seq(Sensors)
    BY <1>0, <1>11 DEF TakeTimeout
  <2> QED
    BY <1>0, <1>11, <2>1 DEF TakeTimeout
<1>12. CASE NothingToFlush(w)
  BY <1>0, <1>11, <1>12 DEF NothingToFlush, workerVars
<1>13. CASE Flush(w)
  <2>1. work' \in [Workers -> Works]
    BY <1>2, <1>11, <1>13, Constants DEF Flush
  <2> QED
    BY <1>0, <1>11, <1>13, <2>1 DEF Flush
<1>14. CASE Flushed(w)
  <2>1. work' \in [Workers -> Works] /\ UNCHANGED <<sent, results, timeoutCh, ids, gossip, walkerVars>>
    BY <1>3, <1>14 DEF Flushed
  <2>2. CASE UNCHANGED <<jobs, vol, idle>>
    BY <1>0, <2>1, <2>2
  <2>3. CASE /\ jobs' = [jobs EXCEPT ![work[w].s] = Append(@, vol[work[w].s])]
             /\ vol' = [vol EXCEPT ![work[w].s] = None]
             /\ idle' = [idle EXCEPT ![work[w].s] = None]
    BY <1>0, <1>4, <1>5, <1>14, <2>1, <2>3 DEF Flushed
  <2> QED
    BY <1>14, <2>2, <2>3 DEF Flushed
<1> QED
  BY <1>6, <1>7, <1>8, <1>9, <1>10, <1>12, <1>13, <1>14 DEF Worker

\* The publisher, the walker and the passing of time keep the types.
LEMMA TypeOther ==
  ASSUME TypeOK, \/ HaveSensorIDs \/ GossipTick \/ GossipSend \/ Pass \/ Walker
                 \/ UNCHANGED vars
  PROVE  TypeOK'
<1> USE DEF TypeOK, workerVars, walkerVars
<1>1. CASE HaveSensorIDs
  <2>1. ids' \in 0 .. IDsCap
    BY <1>1, Constants DEF HaveSensorIDs
  <2> QED
    BY <1>1, <2>1 DEF HaveSensorIDs
<1>2. CASE GossipTick
  BY <1>2 DEF GossipTick
<1>3. CASE GossipSend
  <2>1. ids' \in 0 .. IDsCap
    BY <1>3, Constants DEF GossipSend
  <2> QED
    BY <1>3, <2>1 DEF GossipSend
<1>4. CASE Pass
  <2>1. clock' \in 0 .. (Minute - 1)
    BY <1>4, Constants DEF Pass
  <2>2. idle' \in [Sensors -> 0 .. Horizon \cup {None}]
    <3>1. \A s \in Sensors : idle[s] \in 0 .. Horizon \cup {None}
      OBVIOUS
    <3>2. \A s \in Sensors : s \in Tracked /\ idle[s] < Horizon => idle[s] + 1 \in 0 .. Horizon
      BY <3>1, Constants DEF Tracked
    <3> QED
      BY <1>4, <3>1, <3>2 DEF Pass
  <2> QED
    BY <1>4, <2>1, <2>2 DEF Pass
<1>5. CASE Push
  <2>1. pushing \in Sensors /\ WorkerOf[pushing] \in Workers
    BY <1>5, Constants DEF Push
  <2>2. Append(timeoutCh[WorkerOf[pushing]], pushing) \in Seq(Sensors)
    BY <2>1
  <2>3. timeoutCh' \in [Workers -> Seq(Sensors)]
    BY <1>5, <2>1, <2>2 DEF Push
  <2> QED
    BY <1>5, <2>3 DEF Push
<1>6. ASSUME NEW s \in Sensors, Visit(s) PROVE TypeOK'
  BY <1>6 DEF Visit
<1>7. CASE StartWalk
  <2>1. remaining' \subseteq Sensors
    BY <1>7 DEF StartWalk, Tracked
  <2> QED
    BY <1>7, <2>1 DEF StartWalk
<1>8. CASE UNCHANGED vars
  BY <1>8 DEF vars
<1> QED
  BY <1>1, <1>2, <1>3, <1>4, <1>5, <1>6, <1>7, <1>8 DEF Walker

------------------------------------------------------------------------------
(* One sensor at a time.                                                     *)

\* The last frame taken is a number.
LEMMA EndIsNat == ASSUME IInv, NEW s \in Sensors PROVE End(s) \in Nat
<1>0. TypeOK /\ BufferOf(s)
  BY DEF IInv, SensorOK
<1>1. CASE vol[s] = None /\ jobs[s] = <<>>
  BY <1>1 DEF End
<1>2. CASE vol[s] = None /\ jobs[s] # <<>>
  <2>1. jobs[s] \in Seq(Seq(Frames))
    BY <1>0 DEF TypeOK
  <2>2. Last(jobs[s]) \in Seq(Frames) /\ Last(jobs[s]) # <<>>
    BY <1>0, <1>2, <2>1 DEF BufferOf, Last
  <2>3. Last(Last(jobs[s])) \in Frames
    BY <2>2 DEF Last
  <2> QED
    BY <1>2, <2>3, Elements DEF End
<1>3. CASE vol[s] # None
  <2>1. PICK m \in Frames, n \in Frames : vol[s] = <<m>> \/ vol[s] = <<m, n>>
    BY <1>0, <1>3 DEF BufferOf
  <2>2. Last(<<m>>) = m /\ Last(<<m, n>>) = n
    BY DEF Last
  <2> QED
    BY <1>3, <2>1, <2>2, Elements DEF End
<1> QED
  BY <1>1, <1>2, <1>3

\* The first frame of a channel is the one after the last frame of its sensor
\* that was taken.
LEMMA HeadIsNext ==
  ASSUME IInv, NEW s \in Sensors, results[WorkerOf[s]] # <<>>, Head(results[WorkerOf[s]]).s = s
  PROVE  Head(results[WorkerOf[s]]).n = End(s) + 1 /\ End(s) + 1 <= sent[s]
<1> DEFINE r == results[WorkerOf[s]]
<1>0. TypeOK /\ ChannelOf(s) /\ End(s) \in Nat /\ WorkerOf[s] \in Workers
  BY EndIsNat, Constants DEF IInv, SensorOK
<1>1. r \in Seq(Messages) /\ sent[s] \in Nat
  BY <1>0 DEF TypeOK
<1>2. 1 \in DOMAIN r /\ Head(r) = r[1]
  BY <1>1
<1>3. r[1].n \in End(s) + 1 .. sent[s]
  BY <1>0, <1>2 DEF ChannelOf
<1>4. PICK i \in 1 .. Len(r) : r[i] = [s |-> s, n |-> End(s) + 1]
  <2>1. End(s) + 1 \in End(s) + 1 .. sent[s]
    BY <1>0, <1>1, <1>3
  <2> QED
    BY <1>0, <2>1 DEF ChannelOf, Contains
<1>5. i \in DOMAIN r /\ r[i].s = s /\ r[i].n = End(s) + 1
  BY <1>1, <1>4
<1>6. 1 < i => r[1].n < r[i].n
  BY <1>0, <1>2, <1>5 DEF ChannelOf
<1> QED
  BY <1>0, <1>1, <1>2, <1>3, <1>4, <1>5, <1>6

\* Taking that frame keeps the channel in order, for its own sensor and for others.
LEMMA ChannelTaken ==
  ASSUME IInv, NEW s \in Sensors, results[WorkerOf[s]] # <<>>,
         results'[WorkerOf[s]] = Tail(results[WorkerOf[s]]), sent'[s] = sent[s],
         End(s)' = IF Head(results[WorkerOf[s]]).s = s THEN Head(results[WorkerOf[s]]).n ELSE End(s)
  PROVE  ChannelOf(s)'
<1> DEFINE r == results[WorkerOf[s]]
           e == IF Head(r).s = s THEN Head(r).n ELSE End(s)
<1>0. TypeOK /\ ChannelOf(s) /\ End(s) \in Nat /\ WorkerOf[s] \in Workers
  BY EndIsNat, Constants DEF IInv, SensorOK
<1>1. r \in Seq(Messages) /\ sent[s] \in Nat
  BY <1>0 DEF TypeOK
<1>2. /\ 1 \in DOMAIN r /\ Head(r) = r[1] /\ DOMAIN Tail(r) = 1 .. (Len(r) - 1)
      /\ \A i \in DOMAIN Tail(r) : Tail(r)[i] = r[i + 1] /\ i + 1 \in DOMAIN r /\ 1 < i + 1
  BY <1>1
<1>3. \A i \in DOMAIN r : r[i].n \in Nat
  BY <1>1, Elements
<1>4. e \in Nat /\ End(s) <= e
  BY <1>0, HeadIsNext
<1>5. \A i \in DOMAIN Tail(r) : Tail(r)[i].s = s => Tail(r)[i].n \in e + 1 .. sent[s]
  <2> SUFFICES ASSUME NEW i \in DOMAIN Tail(r), r[i + 1].s = s PROVE r[i + 1].n \in e + 1 .. sent[s]
    BY <1>2
  <2>1. r[i + 1].n \in End(s) + 1 .. sent[s]
    BY <1>0, <1>2 DEF ChannelOf
  <2>2. r[1].s = s => r[1].n < r[i + 1].n
    BY <1>0, <1>2 DEF ChannelOf
  <2> QED
    BY <1>0, <1>1, <1>2, <1>3, <1>4, <2>1, <2>2
<1>6. \A i, j \in DOMAIN Tail(r) : i < j /\ Tail(r)[i].s = s /\ Tail(r)[j].s = s => Tail(r)[i].n < Tail(r)[j].n
  <2> SUFFICES ASSUME NEW i \in DOMAIN Tail(r), NEW j \in DOMAIN Tail(r), i < j, r[i + 1].s = s, r[j + 1].s = s
               PROVE  r[i + 1].n < r[j + 1].n
    BY <1>2
  <2>1. i + 1 < j + 1 /\ i + 1 \in DOMAIN r /\ j + 1 \in DOMAIN r
    BY <1>2
  <2> QED
    BY <1>0, <2>1 DEF ChannelOf
<1>7. \A n \in e + 1 .. sent[s] : Contains(Tail(r), [s |-> s, n |-> n])
  <2> TAKE n \in e + 1 .. sent[s]
  <2>1. n \in End(s) + 1 .. sent[s]
    BY <1>0, <1>1, <1>4
  <2>2. Contains(r, [s |-> s, n |-> n])
    BY <1>0, <2>1 DEF ChannelOf
  <2>3. [s |-> s, n |-> n] # Head(r)
    BY <1>4
  <2> QED
    BY <1>1, <2>2, <2>3, ContainsTail
<1> QED
  BY <1>5, <1>6, <1>7 DEF ChannelOf

\* A sensor that the step is not about: its worker does something for another
\* one, if anything, and may have taken a frame of another one.
LEMMA OtherSensor ==
  ASSUME IInv, NEW s \in Sensors,
         UNCHANGED <<vol[s], jobs[s], sent[s]>>,
         \/ work'[WorkerOf[s]] = work[WorkerOf[s]]
         \/ work[WorkerOf[s]].s # s /\ work'[WorkerOf[s]].s # s,
         \/ results'[WorkerOf[s]] = results[WorkerOf[s]]
         \/ /\ results[WorkerOf[s]] # <<>> /\ Head(results[WorkerOf[s]]).s # s
            /\ results'[WorkerOf[s]] = Tail(results[WorkerOf[s]])
  PROVE  SensorOK(s)'
<1>0. ChannelOf(s) /\ BufferOf(s) /\ SavedOf(s)
  BY DEF IInv, SensorOK
<1>1. End(s)' = End(s)
  BY DEF End
<1>2. ChannelOf(s)'
  <2>1. CASE results'[WorkerOf[s]] = results[WorkerOf[s]]
    BY <1>0, <1>1, <2>1 DEF ChannelOf
  <2> QED
    BY <1>1, <2>1, ChannelTaken
<1>3. BufferOf(s)'
  BY <1>0, <1>1 DEF BufferOf, Doing
<1>4. SavedOf(s)'
  BY <1>0, <1>1 DEF SavedOf, Buffered, Stored
<1> QED
  BY <1>2, <1>3, <1>4 DEF SensorOK

\* All sensors but one, in a step of the worker of that one.
LEMMA OtherSensors ==
  ASSUME IInv, NEW w \in Workers, NEW s \in Sensors, WorkerOf[s] = w,
         \A j \in Sensors \ {s} : UNCHANGED <<vol[j], jobs[j], sent[j]>>,
         \A u \in Workers \ {w} : UNCHANGED <<work[u], results[u]>>,
         work'[w] = work[w] \/ (work[w].s \in {s, None} /\ work'[w].s \in {s, None}),
         \/ results'[w] = results[w]
         \/ results[w] # <<>> /\ Head(results[w]).s = s /\ results'[w] = Tail(results[w])
  PROVE  \A j \in Sensors \ {s} : SensorOK(j)'
<1> SUFFICES ASSUME NEW j \in Sensors \ {s} PROVE SensorOK(j)'
  OBVIOUS
<1>1. WorkerOf[j] \in Workers /\ j # None
  BY Constants
<1>2. CASE WorkerOf[j] = w
  BY <1>1, <1>2, OtherSensor
<1>3. CASE WorkerOf[j] # w
  BY <1>1, <1>3, OtherSensor
<1> QED
  BY <1>2, <1>3

\* What the worker has for a sensor whose frame it handles.
LEMMA AtWork ==
  ASSUME IInv, NEW w \in Workers, work[w].pc \in {"write", "notify", "update"}
  PROVE  \E s \in Sensors, n \in Frames :
         /\ work[w].s = s /\ work[w].n = n /\ WorkerOf[s] = w /\ n \in Nat
         /\ {n - 1, n} \subseteq Frames /\ vol[s] = <<n - 1, n>> /\ End(s) = n
<1> DEFINE s == work[w].s
           n == work[w].n
<1>1. s \in Sensors /\ WorkerOf[s] = w
  BY DEF IInv, Routed
<1>2. BufferOf(s) /\ Doing(s, {"write", "notify", "update"})
  BY <1>1 DEF IInv, SensorOK, Doing
<1>3. {n - 1, n} \subseteq Frames /\ vol[s] = <<n - 1, n>>
  BY <1>1, <1>2 DEF BufferOf
<1>4. vol[s] # None
  <2>1. <<n - 1, n>> \in Seq(Frames)
    BY <1>3
  <2> QED
    BY <1>3, <2>1, Constants
<1>5. End(s) = n /\ n \in Frames /\ n \in Nat
  BY <1>3, <1>4, Elements DEF End, Last
<1>6. work[w].s = s /\ work[w].n = n
  OBVIOUS
<1> HIDE DEF s, n
<1> QED
  BY <1>1, <1>3, <1>5, <1>6

------------------------------------------------------------------------------
(* The steps of the system.                                                  *)

\* At the start nothing has arrived.
LEMMA InvInit == Init => IInv
<1> SUFFICES ASSUME Init PROVE IInv
  OBVIOUS
<1>1. TypeOK
  BY TypeInit
<1>2. Routed
  BY Constants DEF Init, Routed, AtRest
<1>3. ASSUME NEW s \in Sensors PROVE SensorOK(s)
  <2>1. /\ vol[s] = None /\ jobs[s] = <<>> /\ sent[s] = 0
        /\ results[WorkerOf[s]] = <<>> /\ work[WorkerOf[s]].pc = "idle"
    BY Constants DEF Init, AtRest
  <2>2. End(s) = 0
    BY <2>1 DEF End
  <2>3. ~Doing(s, {"write", "notify", "update"}) /\ ~Doing(s, {"write"}) /\ ~Doing(s, {"notify", "update"}) /\ ~Doing(s, {"flush"})
    BY <2>1 DEF Doing
  <2> QED
    BY <2>1, <2>2, <2>3 DEF SensorOK, ChannelOf, BufferOf, SavedOf
<1> QED
  BY <1>1, <1>2, <1>3 DEF IInv

\* The frame that arrives is the one after the last that did.
LEMMA SensorReceive ==
  ASSUME IInv, NEW s \in Sensors, Receive(s)
  PROVE  \A j \in Sensors : SensorOK(j)'
<1> DEFINE w == WorkerOf[s]
           m == [s |-> s, n |-> sent[s] + 1]
<1>0. TypeOK /\ w \in Workers /\ sent[s] \in Nat /\ m \in Messages
  <2>1. TypeOK /\ w \in Workers /\ MaxFrames \in Nat
    BY Constants DEF IInv
  <2>2. sent[s] \in Nat /\ sent[s] + 1 \in Frames
    BY <2>1 DEF Receive, TypeOK, Frames
  <2> QED
    BY <2>1, <2>2, Elements
<1>1. sent' = [sent EXCEPT ![s] = sent[s] + 1] /\ sent'[s] = sent[s] + 1
  BY <1>0 DEF Receive, TypeOK
<1>2. results' = [results EXCEPT ![w] = Append(results[w], m)]
  BY <1>1 DEF Receive
<1>3. UNCHANGED <<vol, work, jobs>> /\ \A j \in Sensors : End(j)' = End(j)
  BY DEF Receive, workerVars, End
<1>4. ASSUME NEW j \in Sensors PROVE SensorOK(j)'
  <2> DEFINE r == results[WorkerOf[j]]
             q == results'[WorkerOf[j]]
  <2>0. ChannelOf(j) /\ BufferOf(j) /\ SavedOf(j) /\ End(j) \in Nat /\ r \in Seq(Messages) /\ WorkerOf[j] \in Workers
    BY <1>0, EndIsNat, Constants DEF IInv, SensorOK, TypeOK
  <2>1. sent[j] \in Nat /\ sent'[j] \in Nat /\ sent[j] <= sent'[j] /\ (j # s => sent'[j] = sent[j])
    BY <1>0, <1>1 DEF TypeOK
  <2>2. q = r \/ (q = Append(r, m) /\ w = WorkerOf[j])
    BY <1>0, <1>2, <2>0 DEF TypeOK
  <2>3. BufferOf(j)'
    BY <1>3, <2>0, <2>1 DEF BufferOf, Doing
  <2>4. SavedOf(j)'
    BY <1>3, <2>0 DEF SavedOf, Buffered, Stored
  <2>5. ChannelOf(j)'
    <3>1. CASE q = r /\ j # s
      BY <1>3, <2>0, <2>1, <3>1 DEF ChannelOf
    <3>2. CASE q = Append(r, m)
      <4>0. /\ DOMAIN q = 1 .. Len(r) + 1 /\ DOMAIN r = 1 .. Len(r) /\ Len(r) \in Nat
            /\ q[Len(r) + 1] = m /\ \A i \in DOMAIN r : q[i] = r[i]
        BY <1>0, <2>0, <3>2
      <4>1. \A i \in DOMAIN q : q[i].s = j => q[i].n \in End(j) + 1 .. sent'[j]
        <5> SUFFICES ASSUME NEW i \in DOMAIN q, q[i].s = j PROVE q[i].n \in End(j) + 1 .. sent'[j]
          OBVIOUS
        <5>1. CASE i \in DOMAIN r
          <6>1. r[i].n \in End(j) + 1 .. sent[j]
            BY <2>0, <4>0, <5>1 DEF ChannelOf
          <6>2. q[i].n = r[i].n
            BY <4>0, <5>1
          <6>3. r[i].n \in End(j) + 1 .. sent'[j]
            BY <2>0, <2>1, <6>1
          <6> QED
            BY <6>2, <6>3
        <5>2. CASE i = Len(r) + 1
          <6>1. j = s /\ q[i].n = sent[s] + 1
            BY <4>0, <5>2
          <6>2. End(s) <= sent[s]
            BY <2>0, <6>1 DEF BufferOf
          <6> QED
            BY <1>0, <1>1, <2>0, <6>1, <6>2
        <5> QED
          BY <4>0, <5>1, <5>2
      <4>2. \A a, b \in DOMAIN q : a < b /\ q[a].s = j /\ q[b].s = j => q[a].n < q[b].n
        <5> SUFFICES ASSUME NEW a \in DOMAIN q, NEW b \in DOMAIN q, a < b, q[a].s = j, q[b].s = j
                     PROVE  q[a].n < q[b].n
          OBVIOUS
        <5>1. a \in DOMAIN r
          BY <4>0
        <5>2. CASE b \in DOMAIN r
          <6>1. r[a].n < r[b].n
            BY <2>0, <4>0, <5>1, <5>2 DEF ChannelOf
          <6> QED
            BY <4>0, <5>1, <5>2, <6>1
        <5>3. CASE b = Len(r) + 1
          <6>1. j = s /\ q[b].n = sent[s] + 1
            BY <4>0, <5>3
          <6>2. r[a].n \in End(s) + 1 .. sent[s]
            BY <2>0, <4>0, <5>1, <6>1 DEF ChannelOf
          <6>3. q[a].n = r[a].n
            BY <4>0, <5>1
          <6>4. r[a].n < sent[s] + 1
            BY <1>0, <2>0, <6>1, <6>2
          <6> QED
            BY <6>1, <6>3, <6>4
        <5> QED
          BY <4>0, <5>2, <5>3
      <4>3. \A n \in End(j) + 1 .. sent'[j] : Contains(q, [s |-> j, n |-> n])
        <5> SUFFICES ASSUME NEW n \in End(j) + 1 .. sent'[j] PROVE Contains(q, [s |-> j, n |-> n])
          OBVIOUS
        <5>1. CASE n <= sent[j]
          <6>1. n \in End(j) + 1 .. sent[j]
            BY <2>0, <2>1, <5>1
          <6>2. Contains(r, [s |-> j, n |-> n])
            BY <2>0, <6>1 DEF ChannelOf
          <6> QED
            BY <1>0, <2>0, <3>2, <6>2, ContainsAppend
        <5>2. CASE n > sent[j]
          <6>1. j = s /\ n = sent[s] + 1
            BY <1>0, <1>1, <2>0, <2>1, <5>2
          <6> QED
            BY <1>0, <2>0, <3>2, <6>1, ContainsAppend
        <5> QED
          BY <2>0, <2>1, <5>1, <5>2
      <4> QED
        BY <1>3, <4>1, <4>2, <4>3 DEF ChannelOf
    <3>3. j = s => q = Append(r, m)
      BY <1>0, <1>2 DEF TypeOK
    <3> QED
      BY <2>2, <3>1, <3>2, <3>3
  <2> QED
    BY <2>3, <2>4, <2>5 DEF SensorOK
<1> QED
  BY <1>4

\* The sensor of the timeout that a worker takes.
LEMMA TimeoutTaken ==
  ASSUME IInv, NEW w \in Workers, TakeTimeout(w)
  PROVE  LET s == Head(timeoutCh[w]) IN
         s \in Sensors /\ WorkerOf[s] = w /\ work[w].s = None /\ s # None
<1>0. TypeOK /\ Routed
  BY DEF IInv
<1>1. timeoutCh[w] \in Seq(Sensors) /\ timeoutCh[w] # <<>> /\ work[w].pc = "idle"
  BY <1>0 DEF TakeTimeout, TypeOK
<1>2. 1 \in DOMAIN timeoutCh[w] /\ Head(timeoutCh[w]) = timeoutCh[w][1] /\ Head(timeoutCh[w]) \in Sensors
  BY <1>1
<1> QED
  BY <1>0, <1>1, <1>2, Constants DEF Routed

\* Steps that leave the frames and the workers alone.
LEMMA OtherSteps ==
  ASSUME IInv, UNCHANGED <<sent, results, vol, work, jobs>>
  PROVE  \A j \in Sensors : SensorOK(j)'
<1>1. \A j \in Sensors : UNCHANGED End(j)
  BY DEF End
<1> QED
  BY <1>1 DEF IInv, SensorOK, ChannelOf, BufferOf, SavedOf, Doing, Buffered, Stored

\* A batch that is added leaves the frames stored before where they are.
LEMMA StoredKept ==
  ASSUME NEW s \in Sensors, NEW b, jobs[s] \in Seq(Seq(Frames)), b \in Seq(Frames),
         jobs'[s] = Append(jobs[s], b), NEW k
  PROVE  /\ Stored(s, k) => Stored(s, k)'
         /\ Contains(b, k) => Stored(s, k)'
<1>1. /\ DOMAIN jobs'[s] = 1 .. Len(jobs[s]) + 1 /\ DOMAIN jobs[s] = 1 .. Len(jobs[s]) /\ Len(jobs[s]) \in Nat
      /\ jobs'[s][Len(jobs[s]) + 1] = b
      /\ \A i \in DOMAIN jobs[s] : jobs'[s][i] = jobs[s][i]
  OBVIOUS
<1>2. ASSUME Stored(s, k) PROVE Stored(s, k)'
  <2>1. PICK i \in DOMAIN jobs[s] : Contains(jobs[s][i], k)
    BY <1>2 DEF Stored
  <2>2. i \in DOMAIN jobs'[s] /\ Contains(jobs'[s][i], k)
    BY <1>1, <2>1
  <2> QED
    BY <2>2 DEF Stored
<1>3. ASSUME Contains(b, k) PROVE Stored(s, k)'
  <2>1. Len(jobs[s]) + 1 \in DOMAIN jobs'[s] /\ Contains(jobs'[s][Len(jobs[s]) + 1], k)
    BY <1>1, <1>3
  <2> QED
    BY <2>1 DEF Stored
<1> QED
  BY <1>2, <1>3

\* The sensor of the frame that a worker takes, and how far it has got.
LEMMA FrameTaken ==
  ASSUME IInv, NEW w \in Workers, TakeFrame(w)
  PROVE  LET f == Head(results[w]) IN
         /\ f.s \in Sensors /\ f.n \in Frames /\ WorkerOf[f.s] = w
         /\ f.n = End(f.s) + 1 /\ f.n <= sent[f.s] /\ work[w].s = None /\ f.s # None
<1> DEFINE f == Head(results[w])
<1>0. TypeOK /\ Routed
  BY DEF IInv
<1>1. results[w] \in Seq(Messages) /\ results[w] # <<>> /\ work[w].pc = "idle"
  BY <1>0 DEF TakeFrame, TypeOK
<1>2. 1 \in DOMAIN results[w] /\ f = results[w][1] /\ f \in Messages
  BY <1>1
<1>3. f.s \in Sensors /\ f.n \in Frames /\ WorkerOf[f.s] = w
  BY <1>0, <1>2, Elements DEF Routed
<1>4. f.n = End(f.s) + 1 /\ f.n <= sent[f.s]
  BY <1>1, <1>3, HeadIsNext
<1> QED
  BY <1>0, <1>1, <1>3, <1>4, Constants DEF Routed

\* The first frame begins a buffer that follows what has been written.
LEMMA SensorFirstFrame ==
  ASSUME IInv, NEW w \in Workers, FirstFrame(w)
  PROVE  \A j \in Sensors : SensorOK(j)'
<1>0. PICK s \in Sensors, n \in Frames :
         /\ Head(results[w]).s = s /\ Head(results[w]).n = n /\ n \in Nat /\ WorkerOf[s] = w
         /\ n = End(s) + 1 /\ n <= sent[s] /\ work[w].s = None /\ s # None
  BY FrameTaken, Elements DEF FirstFrame
<1>1. TypeOK /\ ChannelOf(s) /\ BufferOf(s) /\ SavedOf(s) /\ End(s) \in Nat
  BY <1>0, EndIsNat DEF IInv, SensorOK
<1>2. /\ vol[s] = None /\ vol' = [vol EXCEPT ![s] = <<n>>]
      /\ results[w] # <<>> /\ results' = [results EXCEPT ![w] = Tail(results[w])]
      /\ UNCHANGED <<sent, work, jobs>>
  BY <1>0 DEF FirstFrame, TakeFrame
<1>3. vol'[s] = <<n>> /\ results'[w] = Tail(results[w])
  BY <1>0, <1>1, <1>2 DEF TypeOK
<1>4. <<n>> # None
  BY <1>0, Constants, Elements
<1>5. End(s)' = n
  BY <1>3, <1>4 DEF End, Last
<1>6. ChannelOf(s)'
  BY <1>0, <1>2, <1>3, <1>5, ChannelTaken
<1>7. BufferOf(s)'
  <2>1. ~Doing(s, {"write", "notify", "update"})' /\ ~Doing(s, {"write"})' /\ ~Doing(s, {"notify", "update"})' /\ ~Doing(s, {"flush"})'
    BY <1>0, <1>2 DEF Doing
  <2>2. Log!Continues(jobs[s], n)
    BY <1>0, <1>2 DEF End, Last, Log!Continues, Log!Last
  <2> QED
    BY <1>0, <1>1, <1>2, <1>3, <1>5, <2>1, <2>2 DEF BufferOf
<1>8. SavedOf(s)'
  <2> SUFFICES ASSUME NEW k \in 1 .. n PROVE Buffered(s, k)' \/ Stored(s, k)'
    BY <1>5 DEF SavedOf
  <2>1. CASE k = n
    <3>1. Contains(<<n>>, n)
      BY DEF Contains
    <3> QED
      BY <1>3, <1>4, <2>1, <3>1 DEF Buffered
  <2>2. CASE k # n
    <3>1. k \in 1 .. End(s)
      BY <1>0, <1>1, <2>2
    <3>2. Stored(s, k)
      BY <1>1, <1>2, <3>1 DEF SavedOf, Buffered
    <3> QED
      BY <1>2, <3>2 DEF Stored
  <2> QED
    BY <2>1, <2>2
<1>9. \A j \in Sensors \ {s} : SensorOK(j)'
  <2>1. \A j \in Sensors \ {s} : UNCHANGED <<vol[j], jobs[j], sent[j]>>
    BY <1>1, <1>2 DEF TypeOK
  <2>2. \A u \in Workers \ {w} : UNCHANGED <<work[u], results[u]>>
    BY <1>1, <1>2 DEF TypeOK
  <2> QED
    BY <1>0, <1>2, <1>3, <2>1, <2>2, OtherSensors
<1> QED
  BY <1>6, <1>7, <1>8, <1>9 DEF SensorOK

\* A later frame makes the buffer two consecutive frames long.
LEMMA SensorNextFrame ==
  ASSUME IInv, NEW w \in Workers, NextFrame(w)
  PROVE  \A j \in Sensors : SensorOK(j)'
<1>0. PICK s \in Sensors, n \in Frames :
         /\ Head(results[w]).s = s /\ Head(results[w]).n = n /\ n \in Nat /\ WorkerOf[s] = w
         /\ n = End(s) + 1 /\ n <= sent[s] /\ work[w].s = None /\ s # None
  BY FrameTaken, Elements DEF NextFrame
<1>1. TypeOK /\ ChannelOf(s) /\ BufferOf(s) /\ SavedOf(s) /\ End(s) \in Nat
  BY <1>0, EndIsNat DEF IInv, SensorOK
<1>2. /\ vol[s] # None /\ vol' = [vol EXCEPT ![s] = Append(vol[s], n)]
      /\ results[w] # <<>> /\ results' = [results EXCEPT ![w] = Tail(results[w])]
      /\ work' = [work EXCEPT ![w] = [pc |-> "write", s |-> s, n |-> n]]
      /\ UNCHANGED <<sent, jobs>>
  BY <1>0 DEF NextFrame, TakeFrame
<1>3. /\ vol'[s] = Append(vol[s], n) /\ results'[w] = Tail(results[w])
      /\ work'[w] = [pc |-> "write", s |-> s, n |-> n]
  BY <1>0, <1>1, <1>2 DEF TypeOK
<1>4. PICK m \in Frames : vol[s] = <<m>> /\ Log!Continues(jobs[s], m)
  <2>1. ~Doing(s, {"write", "notify", "update"})
    BY <1>0 DEF Doing
  <2> QED
    BY <1>1, <1>2, <2>1 DEF BufferOf
<1>5. m \in Nat /\ m = n - 1 /\ vol'[s] = <<n - 1, n>> /\ vol'[s] # None
  <2>1. m \in Nat /\ End(s) = m
    BY <1>2, <1>4, Elements DEF End, Last
  <2>2. m = n - 1
    BY <1>0, <2>1
  <2>3. Append(<<m>>, n) = <<m, n>> /\ <<m, n>> \in Seq(Frames)
    BY PairOf
  <2>4. vol'[s] = <<m, n>> /\ vol'[s] # None
    BY <1>3, <1>4, <2>3, Constants
  <2> QED
    BY <2>1, <2>2, <2>4
<1>6. End(s)' = n
  BY <1>0, <1>5 DEF End, Last
<1>7. ChannelOf(s)'
  BY <1>0, <1>2, <1>3, <1>6, ChannelTaken
<1>8. BufferOf(s)'
  <2>1. ~Doing(s, {"notify", "update"})' /\ ~Doing(s, {"flush"})'
    BY <1>0, <1>3 DEF Doing
  <2>2. Doing(s, {"write", "notify", "update"})' /\ work'[WorkerOf[s]].n = n
    BY <1>0, <1>2, <1>3 DEF Doing
  <2>3. {n - 1, n} \subseteq Frames /\ Log!Continues(jobs[s], n - 1)
    BY <1>0, <1>4, <1>5
  <2> QED
    BY <1>0, <1>1, <1>2, <1>5, <1>6, <2>1, <2>2, <2>3 DEF BufferOf
<1>9. SavedOf(s)'
  <2> SUFFICES ASSUME NEW k \in 1 .. n PROVE Buffered(s, k)' \/ Stored(s, k)'
    BY <1>6 DEF SavedOf
  <2>1. CASE k \in {n - 1, n}
    <3>1. Contains(<<n - 1, n>>, k)
      BY <2>1 DEF Contains
    <3> QED
      BY <1>5, <3>1 DEF Buffered
  <2>2. CASE k \notin {n - 1, n}
    <3>1. k \in 1 .. End(s) /\ k # m
      BY <1>0, <1>1, <1>5, <2>2
    <3>2. ~Contains(<<m>>, k)
      BY <3>1 DEF Contains
    <3>3. Stored(s, k)
      BY <1>1, <1>4, <3>1, <3>2 DEF SavedOf, Buffered
    <3> QED
      BY <1>2, <3>3 DEF Stored
  <2> QED
    BY <2>1, <2>2
<1>10. \A j \in Sensors \ {s} : SensorOK(j)'
  <2>1. \A j \in Sensors \ {s} : UNCHANGED <<vol[j], jobs[j], sent[j]>>
    BY <1>1, <1>2 DEF TypeOK
  <2>2. \A u \in Workers \ {w} : UNCHANGED <<work[u], results[u]>>
    BY <1>1, <1>2 DEF TypeOK
  <2>3. work[w].s \in {s, None} /\ work'[w].s \in {s, None}
    BY <1>0, <1>3
  <2> QED
    BY <1>0, <1>2, <1>3, <2>1, <2>2, <2>3, OtherSensors
<1> QED
  BY <1>7, <1>8, <1>9, <1>10 DEF SensorOK

\* A written batch is the last one; a rewritten frame is not lost.
LEMMA SensorWritten ==
  ASSUME IInv, NEW w \in Workers, Written(w)
  PROVE  \A j \in Sensors : SensorOK(j)'
<1>p. work[w].pc = "write"
  BY DEF Written
<1>0. PICK s \in Sensors, n \in Frames :
         /\ work[w].s = s /\ work[w].n = n /\ WorkerOf[s] = w /\ n \in Nat
         /\ {n - 1, n} \subseteq Frames /\ vol[s] = <<n - 1, n>> /\ End(s) = n
  BY <1>p, AtWork
<1>1. TypeOK /\ ChannelOf(s) /\ BufferOf(s) /\ SavedOf(s)
  BY DEF IInv, SensorOK
<1>2. /\ work[w].pc = "write" /\ work' = [work EXCEPT ![w].pc = "notify"]
      /\ jobs' = [jobs EXCEPT ![s] = Append(jobs[s], vol[s])]
      /\ UNCHANGED <<sent, results, vol>>
  BY <1>0 DEF Written, WriteErrs
<1>3. /\ work'[w].pc = "notify" /\ work'[w].s = s /\ work'[w].n = n
      /\ jobs'[s] = Append(jobs[s], vol[s])
  BY <1>0, <1>1, <1>2 DEF TypeOK, Works
<1>4. vol[s] # None /\ jobs[s] \in Seq(Seq(Frames)) /\ vol[s] \in Seq(Frames)
  <2>1. vol[s] \in Seq(Frames)
    BY <1>0, PairOf
  <2> QED
    BY <1>1, <2>1, Constants DEF TypeOK
<1>5. jobs'[s] # <<>> /\ Last(jobs'[s]) = vol[s] /\ vol[s] # <<>>
  BY <1>0, <1>3, <1>4 DEF Last
<1>6. End(s)' = End(s)
  BY <1>2, <1>4 DEF End
<1>7. ChannelOf(s)'
  BY <1>1, <1>2, <1>6 DEF ChannelOf
<1>8. BufferOf(s)'
  <2>1. ~Doing(s, {"write"})' /\ ~Doing(s, {"flush"})'
    BY <1>0, <1>3 DEF Doing
  <2>2. Doing(s, {"write", "notify", "update"})' /\ work'[WorkerOf[s]].n = n
    BY <1>0, <1>3 DEF Doing
  <2> QED
    BY <1>0, <1>1, <1>2, <1>5, <1>6, <2>1, <2>2 DEF BufferOf
<1>9. SavedOf(s)'
  <2>1. \A k \in 1 .. n : Stored(s, k) => Stored(s, k)'
    BY <1>3, <1>4, StoredKept
  <2> QED
    BY <1>0, <1>1, <1>2, <1>6, <2>1 DEF SavedOf, Buffered
<1>10. \A j \in Sensors \ {s} : SensorOK(j)'
  <2>1. \A j \in Sensors \ {s} : UNCHANGED <<vol[j], jobs[j], sent[j]>>
    BY <1>1, <1>2 DEF TypeOK
  <2>2. \A u \in Workers \ {w} : UNCHANGED <<work[u], results[u]>>
    BY <1>1, <1>2 DEF TypeOK
  <2> QED
    BY <1>0, <1>2, <1>3, <2>1, <2>2, OtherSensors
<1> QED
  BY <1>7, <1>8, <1>9, <1>10 DEF SensorOK

\* The worker reports the sensor and goes on.
LEMMA SensorNotify ==
  ASSUME IInv, NEW w \in Workers, Notify(w)
  PROVE  \A j \in Sensors : SensorOK(j)'
<1>p. work[w].pc = "notify"
  BY DEF Notify
<1>0. PICK s \in Sensors, n \in Frames :
         work[w].s = s /\ work[w].n = n /\ WorkerOf[s] = w
  BY <1>p, AtWork
<1>1. TypeOK /\ ChannelOf(s) /\ BufferOf(s) /\ SavedOf(s)
  BY DEF IInv, SensorOK
<1>2. /\ work[w].pc = "notify" /\ work' = [work EXCEPT ![w].pc = "update"]
      /\ UNCHANGED <<sent, results, vol, jobs>>
  BY DEF Notify
<1>3. work'[w].pc = "update" /\ work'[w].s = s /\ work'[w].n = n
  BY <1>0, <1>1, <1>2 DEF TypeOK, Works
<1>4. UNCHANGED End(s)
  BY <1>2 DEF End
<1>5. ChannelOf(s)' /\ SavedOf(s)'
  BY <1>1, <1>2, <1>4 DEF ChannelOf, SavedOf, Buffered, Stored
<1>6. BufferOf(s)'
  <2>1. Doing(s, {"notify", "update"}) /\ Doing(s, {"write", "notify", "update"}) /\ work[WorkerOf[s]].n = n
    BY <1>0, <1>2 DEF Doing
  <2>2. ~Doing(s, {"write"})' /\ ~Doing(s, {"flush"})' /\ Doing(s, {"write", "notify", "update"})' /\ work'[WorkerOf[s]].n = n
    BY <1>0, <1>3 DEF Doing
  <2> QED
    BY <1>1, <1>2, <1>4, <2>1, <2>2 DEF BufferOf
<1>7. \A j \in Sensors \ {s} : SensorOK(j)'
  <2>1. \A u \in Workers \ {w} : UNCHANGED <<work[u], results[u]>>
    BY <1>1, <1>2 DEF TypeOK
  <2> QED
    BY <1>0, <1>2, <1>3, <2>1, OtherSensors
<1> QED
  BY <1>5, <1>6, <1>7 DEF SensorOK

\* The emptied buffer begins again with the frame that ended the batch.
LEMMA SensorUpdate ==
  ASSUME IInv, NEW w \in Workers, Update(w)
  PROVE  \A j \in Sensors : SensorOK(j)'
<1>p. work[w].pc = "update"
  BY DEF Update
<1>0. PICK s \in Sensors, n \in Frames :
         /\ work[w].s = s /\ work[w].n = n /\ WorkerOf[s] = w /\ n \in Nat
         /\ {n - 1, n} \subseteq Frames /\ vol[s] = <<n - 1, n>> /\ End(s) = n
  BY <1>p, AtWork
<1>1. TypeOK /\ ChannelOf(s) /\ BufferOf(s) /\ SavedOf(s)
  BY DEF IInv, SensorOK
<1>2. /\ work[w].pc = "update" /\ work' = [work EXCEPT ![w] = AtRest]
      /\ vol' = [vol EXCEPT ![s] = <<n>>]
      /\ UNCHANGED <<sent, results, jobs>>
  BY <1>0 DEF Update
<1>3. work'[w].pc = "idle" /\ work'[w].s = None /\ vol'[s] = <<n>> /\ vol'[s] # None
  BY <1>1, <1>2, Constants, Elements DEF TypeOK, AtRest
<1>4. End(s)' = n
  BY <1>3 DEF End, Last
<1>5. jobs[s] # <<>> /\ Last(jobs[s]) = <<n - 1, n>>
  BY <1>0, <1>1, <1>2 DEF BufferOf, Doing
<1>6. ChannelOf(s)'
  BY <1>0, <1>1, <1>2, <1>4 DEF ChannelOf
<1>7. BufferOf(s)'
  <2>1. ~Doing(s, {"write", "notify", "update"})' /\ ~Doing(s, {"write"})' /\ ~Doing(s, {"notify", "update"})' /\ ~Doing(s, {"flush"})'
    BY <1>0, <1>3 DEF Doing
  <2>2. Log!Continues(jobs[s], n)
    BY <1>5 DEF Last, Log!Continues, Log!Last
  <2> QED
    BY <1>0, <1>1, <1>2, <1>3, <1>4, <2>1, <2>2 DEF BufferOf
<1>8. SavedOf(s)'
  <2> SUFFICES ASSUME NEW k \in 1 .. n PROVE Buffered(s, k)' \/ Stored(s, k)'
    BY <1>4 DEF SavedOf
  <2>1. CASE Stored(s, k)
    BY <1>2, <2>1 DEF Stored
  <2>2. CASE Contains(<<n - 1, n>>, k)
    <3>1. jobs[s] \in Seq(Seq(Frames)) /\ jobs[s] # <<>>
      BY <1>1, <1>5 DEF TypeOK
    <3>2. Len(jobs[s]) \in DOMAIN jobs[s] /\ Contains(jobs[s][Len(jobs[s])], k)
      BY <1>5, <2>2, <3>1 DEF Last
    <3> QED
      BY <1>2, <3>2 DEF Stored
  <2> QED
    BY <1>0, <1>1, <2>1, <2>2 DEF SavedOf, Buffered
<1>9. \A j \in Sensors \ {s} : SensorOK(j)'
  <2>1. \A j \in Sensors \ {s} : UNCHANGED <<vol[j], jobs[j], sent[j]>>
    BY <1>1, <1>2 DEF TypeOK
  <2>2. \A u \in Workers \ {w} : UNCHANGED <<work[u], results[u]>>
    BY <1>1, <1>2 DEF TypeOK
  <2> QED
    BY <1>0, <1>2, <1>3, <2>1, <2>2, OtherSensors
<1> QED
  BY <1>6, <1>7, <1>8, <1>9 DEF SensorOK

\* A timeout that finds no buffer has no effect.
LEMMA SensorNothingToFlush ==
  ASSUME IInv, NEW w \in Workers, NothingToFlush(w)
  PROVE  \A j \in Sensors : SensorOK(j)'
BY OtherSteps DEF NothingToFlush, workerVars

\* A timeout that finds a buffer leaves it as it is for now.
LEMMA SensorFlush ==
  ASSUME IInv, NEW w \in Workers, Flush(w)
  PROVE  \A j \in Sensors : SensorOK(j)'
<1>0. PICK s \in Sensors : Head(timeoutCh[w]) = s /\ WorkerOf[s] = w /\ work[w].s = None /\ s # None
  BY TimeoutTaken DEF Flush
<1>1. TypeOK /\ ChannelOf(s) /\ BufferOf(s) /\ SavedOf(s)
  BY DEF IInv, SensorOK
<1>2. /\ vol[s] # None /\ work' = [work EXCEPT ![w] = [pc |-> "flush", s |-> s, n |-> 0]]
      /\ UNCHANGED <<sent, results, vol, jobs>>
  BY <1>0 DEF Flush, TakeTimeout
<1>3. work'[w].pc = "flush" /\ work'[w].s = s
  BY <1>1, <1>2 DEF TypeOK
<1>4. UNCHANGED End(s)
  BY <1>2 DEF End
<1>5. ChannelOf(s)' /\ SavedOf(s)'
  BY <1>1, <1>2, <1>4 DEF ChannelOf, SavedOf, Buffered, Stored
<1>6. BufferOf(s)'
  <2>1. ~Doing(s, {"write", "notify", "update"})' /\ ~Doing(s, {"write"})' /\ ~Doing(s, {"notify", "update"})'
    BY <1>0, <1>3 DEF Doing
  <2>2. ~Doing(s, {"write", "notify", "update"})
    BY <1>0 DEF Doing
  <2> QED
    BY <1>1, <1>2, <1>4, <2>1, <2>2 DEF BufferOf
<1>7. \A j \in Sensors \ {s} : SensorOK(j)'
  <2>1. \A u \in Workers \ {w} : UNCHANGED <<work[u], results[u]>>
    BY <1>1, <1>2 DEF TypeOK
  <2> QED
    BY <1>0, <1>2, <1>3, <2>1, OtherSensors
<1> QED
  BY <1>5, <1>6, <1>7 DEF SensorOK

\* The flushed buffer is a single frame that follows what has been written.
LEMMA FlushedBatch ==
  ASSUME IInv, NEW w \in Workers, work[w].pc = "flush"
  PROVE  LET s == work[w].s IN
         /\ s \in Sensors /\ s # None /\ WorkerOf[s] = w /\ vol[s] # None
         /\ \E m \in Frames : vol[s] = <<m>> /\ Log!Continues(jobs[s], m) /\ End(s) = m
<1> DEFINE s == work[w].s
<1>1. s \in Sensors /\ WorkerOf[s] = w /\ s # None
  BY Constants DEF IInv, Routed
<1>2. BufferOf(s) /\ Doing(s, {"flush"}) /\ ~Doing(s, {"write", "notify", "update"})
  BY <1>1 DEF IInv, SensorOK, Doing
<1>3. vol[s] # None
  BY <1>2 DEF BufferOf
<1>4. PICK m \in Frames : vol[s] = <<m>> /\ Log!Continues(jobs[s], m)
  BY <1>2, <1>3 DEF BufferOf
<1>5. End(s) = m
  BY <1>3, <1>4 DEF End, Last
<1> QED
  BY <1>1, <1>3, <1>4, <1>5

\* Once written, the buffer is gone.
LEMMA SensorFlushed ==
  ASSUME IInv, NEW w \in Workers, Flushed(w)
  PROVE  \A j \in Sensors : SensorOK(j)'
<1>0. PICK s \in Sensors, m \in Frames :
         /\ work[w].s = s /\ s # None /\ WorkerOf[s] = w /\ vol[s] = <<m>> /\ End(s) = m
         /\ vol[s] # None /\ m \in Nat
  BY FlushedBatch, Elements DEF Flushed
<1>1. TypeOK /\ ChannelOf(s) /\ BufferOf(s) /\ SavedOf(s)
  BY DEF IInv, SensorOK
<1>2. /\ work' = [work EXCEPT ![w] = AtRest]
      /\ jobs' = [jobs EXCEPT ![s] = Append(jobs[s], vol[s])]
      /\ vol' = [vol EXCEPT ![s] = None]
      /\ UNCHANGED <<sent, results>>
  BY <1>0 DEF Flushed, WriteErrs
<1>3. /\ work'[w].pc = "idle" /\ work'[w].s = None /\ vol'[s] = None
      /\ jobs'[s] = Append(jobs[s], vol[s])
  BY <1>1, <1>2 DEF TypeOK, AtRest
<1>4. jobs[s] \in Seq(Seq(Frames)) /\ vol[s] \in Seq(Frames)
  BY <1>0, <1>1, Elements DEF TypeOK
<1>5. jobs'[s] # <<>> /\ Last(jobs'[s]) = <<m>> /\ <<m>> # <<>> /\ Last(<<m>>) = m
  BY <1>0, <1>3, <1>4 DEF Last
<1>6. End(s)' = m
  BY <1>3, <1>5 DEF End
<1>7. ChannelOf(s)'
  BY <1>0, <1>1, <1>2, <1>6 DEF ChannelOf
<1>8. BufferOf(s)'
  <2>1. ~Doing(s, {"write", "notify", "update"})' /\ ~Doing(s, {"write"})' /\ ~Doing(s, {"notify", "update"})' /\ ~Doing(s, {"flush"})'
    BY <1>0, <1>3 DEF Doing
  <2> QED
    BY <1>0, <1>1, <1>2, <1>3, <1>5, <1>6, <2>1 DEF BufferOf
<1>9. SavedOf(s)'
  <2>1. \A k \in 1 .. m : (Stored(s, k) => Stored(s, k)') /\ (Contains(vol[s], k) => Stored(s, k)')
    BY <1>3, <1>4, StoredKept
  <2> QED
    BY <1>0, <1>1, <1>6, <2>1 DEF SavedOf, Buffered
<1>10. \A j \in Sensors \ {s} : SensorOK(j)'
  <2>1. \A j \in Sensors \ {s} : UNCHANGED <<vol[j], jobs[j], sent[j]>>
    BY <1>1, <1>2 DEF TypeOK
  <2>2. \A u \in Workers \ {w} : UNCHANGED <<work[u], results[u]>>
    BY <1>1, <1>2 DEF TypeOK
  <2> QED
    BY <1>0, <1>2, <1>3, <2>1, <2>2, OtherSensors
<1> QED
  BY <1>7, <1>8, <1>9, <1>10 DEF SensorOK

\* Frames and timeouts go to the worker of their sensor, which handles them.
LEMMA RoutedStep == IInv /\ [Next]_vars => Routed'
<1> SUFFICES ASSUME IInv, [Next]_vars PROVE Routed'
  OBVIOUS
<1> DEFINE WorkOK(u) == /\ work[u].pc = "idle" => work[u].s = None
                        /\ work[u].pc # "idle" => work[u].s \in Sensors /\ WorkerOf[work[u].s] = u
           ResultsOK(u) == \A i \in DOMAIN results[u] : WorkerOf[results[u][i].s] = u
           TimeoutsOK(u) == \A i \in DOMAIN timeoutCh[u] : WorkerOf[timeoutCh[u][i]] = u
<1>0. TypeOK /\ \A u \in Workers : WorkOK(u) /\ ResultsOK(u) /\ TimeoutsOK(u)
  BY DEF IInv, Routed
<1>1. SUFFICES (\A u \in Workers : WorkOK(u)') /\ (\A u \in Workers : ResultsOK(u)')
               /\ (\A u \in Workers : TimeoutsOK(u)')
  BY DEF Routed
<1>2. \A u \in Workers : ResultsOK(u)'
  <2> SUFFICES ASSUME NEW u \in Workers PROVE ResultsOK(u)'
    OBVIOUS
  <2>0. results[u] \in Seq(Messages)
    BY <1>0 DEF TypeOK
  <2>1. CASE results'[u] = results[u]
    BY <1>0, <2>1
  <2>2. CASE results[u] # <<>> /\ results'[u] = Tail(results[u])
    <3>1. \A i \in DOMAIN results'[u] : i + 1 \in DOMAIN results[u] /\ results'[u][i] = results[u][i + 1]
      BY <2>0, <2>2
    <3> QED
      BY <1>0, <3>1
  <2>3. ASSUME NEW s \in Sensors, NEW n, WorkerOf[s] = u, results'[u] = Append(results[u], [s |-> s, n |-> n])
        PROVE  ResultsOK(u)'
    <3>1. \A i \in DOMAIN results'[u] :
             (i \in DOMAIN results[u] /\ results'[u][i] = results[u][i]) \/ results'[u][i] = [s |-> s, n |-> n]
      BY <2>0, <2>3
    <3> QED
      BY <1>0, <2>3, <3>1
  <2>4. ASSUME NEW s \in Sensors, Receive(s) PROVE ResultsOK(u)'
    BY <1>0, <2>1, <2>3, <2>4 DEF Receive, TypeOK
  <2>5. ASSUME NEW w \in Workers, TakeFrame(w) PROVE ResultsOK(u)'
    BY <1>0, <2>1, <2>2, <2>5 DEF TakeFrame, TypeOK
  <2>6. ASSUME UNCHANGED results PROVE ResultsOK(u)'
    BY <2>1, <2>6
  <2>7. ASSUME NEW w \in Workers, Worker(w) PROVE ResultsOK(u)'
    BY <2>5, <2>6, <2>7 DEF Worker, FirstFrame, NextFrame, Written, Notify, Update, NothingToFlush, Flush, Flushed
  <2>8. CASE HaveSensorIDs \/ GossipTick \/ GossipSend \/ Pass \/ Walker \/ UNCHANGED vars
    BY <2>6, <2>8 DEF HaveSensorIDs, GossipTick, GossipSend, Pass, Walker, StartWalk, Push, Visit, vars
  <2> QED
    BY <2>4, <2>7, <2>8 DEF Next
<1>3. \A u \in Workers : TimeoutsOK(u)'
  <2> SUFFICES ASSUME NEW u \in Workers PROVE TimeoutsOK(u)'
    OBVIOUS
  <2>0. timeoutCh[u] \in Seq(Sensors)
    BY <1>0 DEF TypeOK
  <2>1. ASSUME UNCHANGED timeoutCh PROVE TimeoutsOK(u)'
    BY <1>0, <2>1
  <2>2. ASSUME NEW w \in Workers, TakeTimeout(w) PROVE TimeoutsOK(u)'
    <3>1. CASE u # w
      BY <1>0, <2>2, <3>1 DEF TakeTimeout, TypeOK
    <3>2. CASE u = w
      <4>1. \A i \in DOMAIN timeoutCh'[u] : i + 1 \in DOMAIN timeoutCh[u] /\ timeoutCh'[u][i] = timeoutCh[u][i + 1]
        BY <1>0, <2>0, <2>2, <3>2 DEF TakeTimeout, TypeOK
      <4> QED
        BY <1>0, <4>1
    <3> QED
      BY <3>1, <3>2
  <2>3. ASSUME Push PROVE TimeoutsOK(u)'
    <3>1. CASE u # WorkerOf[pushing]
      BY <1>0, <2>3, <3>1 DEF Push, TypeOK
    <3>2. CASE u = WorkerOf[pushing]
      <4>1. pushing \in Sensors /\ timeoutCh'[u] = Append(timeoutCh[u], pushing)
        BY <1>0, <2>3, <3>2 DEF Push, TypeOK
      <4>2. \A i \in DOMAIN timeoutCh'[u] :
               (i \in DOMAIN timeoutCh[u] /\ timeoutCh'[u][i] = timeoutCh[u][i]) \/ timeoutCh'[u][i] = pushing
        BY <2>0, <4>1
      <4> QED
        BY <1>0, <3>2, <4>2
    <3> QED
      BY <3>1, <3>2
  <2>4. ASSUME NEW w \in Workers, Worker(w) PROVE TimeoutsOK(u)'
    BY <2>1, <2>2, <2>4 DEF Worker, FirstFrame, NextFrame, Written, Notify, Update, NothingToFlush, Flush, Flushed
  <2>5. CASE (\E s \in Sensors : Receive(s)) \/ HaveSensorIDs \/ GossipTick \/ GossipSend \/ Pass \/ Walker \/ UNCHANGED vars
    BY <2>1, <2>3, <2>5 DEF Receive, HaveSensorIDs, GossipTick, GossipSend, Pass, Walker, StartWalk, Visit, vars
  <2> QED
    BY <2>4, <2>5 DEF Next
<1>4. \A u \in Workers : WorkOK(u)'
  <2> SUFFICES ASSUME NEW u \in Workers PROVE WorkOK(u)'
    OBVIOUS
  <2>1. CASE work'[u] = work[u]
    BY <1>0, <2>1
  <2>2. ASSUME NEW w \in Workers, Worker(w) PROVE WorkOK(u)'
    <3>1. CASE UNCHANGED work
      BY <2>1, <3>1
    <3>2. CASE NextFrame(w)
      <4>1. work' = [work EXCEPT ![w] = [pc |-> "write", s |-> Head(results[w]).s, n |-> Head(results[w]).n]]
        BY <3>2 DEF NextFrame
      <4>2. Head(results[w]).s \in Sensors /\ WorkerOf[Head(results[w]).s] = w
        BY <3>2, FrameTaken DEF NextFrame
      <4>3. u # w => work'[u] = work[u]
        BY <1>0, <4>1 DEF TypeOK
      <4>4. u = w => work'[u].pc = "write" /\ work'[u].s = Head(results[w]).s
        BY <1>0, <4>1 DEF TypeOK
      <4> QED
        BY <2>1, <4>2, <4>3, <4>4
    <3>3. CASE Flush(w)
      <4>1. work' = [work EXCEPT ![w] = [pc |-> "flush", s |-> Head(timeoutCh[w]), n |-> 0]]
        BY <3>3 DEF Flush
      <4>2. Head(timeoutCh[w]) \in Sensors /\ WorkerOf[Head(timeoutCh[w])] = w
        BY <3>3, TimeoutTaken DEF Flush
      <4>3. u # w => work'[u] = work[u]
        BY <1>0, <4>1 DEF TypeOK
      <4>4. u = w => work'[u].pc = "flush" /\ work'[u].s = Head(timeoutCh[w])
        BY <1>0, <4>1 DEF TypeOK
      <4> QED
        BY <2>1, <4>2, <4>3, <4>4
    <3>4. CASE Written(w) \/ Notify(w)
      <4>1. PICK pc \in {"notify", "update"} : work' = [work EXCEPT ![w].pc = pc] /\ work[w].pc # "idle"
        BY <3>4 DEF Written, Notify
      <4>2. \A v \in Works : [v EXCEPT !.pc = pc].pc = pc /\ [v EXCEPT !.pc = pc].s = v.s
        BY DEF Works
      <4>3. work'[u] = work[u] \/ (u = w /\ work'[u].pc = pc /\ work'[u].s = work[u].s)
        BY <1>0, <4>1, <4>2 DEF TypeOK
      <4> QED
        BY <1>0, <2>1, <4>1, <4>3
    <3>5. CASE Update(w) \/ Flushed(w)
      <4>1. work' = [work EXCEPT ![w] = AtRest]
        BY <3>5 DEF Update, Flushed
      <4>2. work'[u] = work[u] \/ work'[u] = AtRest
        BY <1>0, <4>1 DEF TypeOK
      <4> QED
        BY <2>1, <4>2 DEF AtRest
    <3> QED
      BY <2>2, <3>1, <3>2, <3>3, <3>4, <3>5 DEF Worker, FirstFrame, NothingToFlush, workerVars
  <2>3. CASE (\E s \in Sensors : Receive(s)) \/ HaveSensorIDs \/ GossipTick \/ GossipSend \/ Pass \/ Walker \/ UNCHANGED vars
    BY <2>1, <2>3 DEF Receive, HaveSensorIDs, GossipTick, GossipSend, Pass, Walker, StartWalk, Push, Visit, vars, workerVars
  <2> QED
    BY <2>2, <2>3 DEF Next
<1> QED
  BY <1>2, <1>3, <1>4

\* Every step keeps the invariant.
LEMMA InvStep == IInv /\ [Next]_vars => IInv'
<1> SUFFICES ASSUME IInv, [Next]_vars PROVE TypeOK' /\ \A s \in Sensors : SensorOK(s)'
  BY RoutedStep DEF IInv
<1>0. TypeOK
  BY DEF IInv
<1>1. ASSUME NEW s \in Sensors, Receive(s) PROVE TypeOK' /\ \A j \in Sensors : SensorOK(j)'
  BY <1>0, <1>1, TypeReceive, SensorReceive
<1>2. ASSUME NEW w \in Workers, Worker(w) PROVE TypeOK' /\ \A j \in Sensors : SensorOK(j)'
  <2>1. TypeOK'
    BY <1>2, TypeWorker
  <2>2. \A j \in Sensors : SensorOK(j)'
    BY <1>2, SensorFirstFrame, SensorNextFrame, SensorWritten, SensorNotify, SensorUpdate,
       SensorNothingToFlush, SensorFlush, SensorFlushed DEF Worker
  <2> QED
    BY <2>1, <2>2
<1>3. CASE HaveSensorIDs \/ GossipTick \/ GossipSend \/ Pass \/ Walker \/ UNCHANGED vars
  <2>1. TypeOK'
    BY <1>0, <1>3, TypeOther
  <2>2. UNCHANGED <<sent, results, vol, work, jobs>>
    BY <1>3 DEF HaveSensorIDs, GossipTick, GossipSend, Pass, Walker, StartWalk, Push, Visit, vars, workerVars
  <2> QED
    BY <2>1, <2>2, OtherSteps
<1> QED
  BY <1>1, <1>2, <1>3 DEF Next

\* The invariant holds in every reachable state.
LEMMA Invariant == Spec => []IInv
BY InvInit, InvStep, PTL DEF Spec

\* Channels, buffers and workers always hold what their types say.
THEOREM TypeCorrect == Spec => []TypeOK
<1>1. IInv => TypeOK
  BY DEF IInv
<1> QED
  BY <1>1, Invariant, PTL

\* What the invariant says of the frames of each sensor.
LEMMA InvIsNoFrameLost == IInv => NoFrameLost
<1> SUFFICES ASSUME IInv, NEW s \in Sensors, NEW n \in 1 .. sent[s]
             PROVE  Queued(s, n) \/ Buffered(s, n) \/ Stored(s, n)
  BY DEF NoFrameLost
<1>1. ChannelOf(s) /\ SavedOf(s) /\ End(s) \in Nat /\ sent[s] \in Nat
  BY EndIsNat DEF IInv, SensorOK, TypeOK
<1>2. CASE n <= End(s)
  BY <1>1, <1>2 DEF SavedOf
<1>3. CASE n > End(s)
  <2>1. n \in End(s) + 1 .. sent[s]
    BY <1>1, <1>3
  <2> QED
    BY <1>1, <2>1 DEF ChannelOf, Queued
<1> QED
  BY <1>1, <1>2, <1>3

\* A frame that entered the pipeline is in the channel, in the buffer or on disk
\* (handleDecodeResult), whatever the timeouts do and in whatever order.
THEOREM FramesAreKept == Spec => []NoFrameLost
BY InvIsNoFrameLost, Invariant, PTL

\* A batch that the worker writes is one that FrameLog allows.
LEMMA WriteIsBatch ==
  ASSUME IInv, NEW s \in Sensors, NEW lo \in Frames, NEW hi \in Frames,
         lo = hi \/ lo = hi - 1, hi = End(s), Log!Continues(jobs[s], lo),
         jobs' = [jobs EXCEPT ![s] = Append(jobs[s], IF lo = hi THEN <<hi>> ELSE <<lo, hi>>)],
         UNCHANGED sent
  PROVE  Log!Write(s)
<1>1. lo \in Nat /\ hi \in Nat /\ 1 <= lo /\ 1 <= hi
  BY DEF Frames
<1>2. hi <= sent[s] /\ sent[s] \in Nat
  BY DEF IInv, SensorOK, BufferOf, TypeOK
<1>3. Log!Batch(lo, hi) = IF lo = hi THEN <<hi>> ELSE <<lo, hi>>
  <2>1. CASE lo = hi
    <3>1. <<hi>> = [i \in 1 .. 1 |-> lo + i - 1]
      BY <1>1, <2>1
    <3> QED
      BY <1>1, <2>1, <3>1 DEF Log!Batch
  <2>2. CASE lo = hi - 1
    <3>1. <<lo, hi>> = [i \in 1 .. 2 |-> lo + i - 1]
      BY <1>1, <2>2
    <3>2. hi + 1 - lo = 2 /\ lo # hi
      BY <1>1, <2>2
    <3> QED
      BY <3>1, <3>2 DEF Log!Batch
  <2> QED
    BY <2>1, <2>2
<1>4. lo \in 1 .. sent[s] /\ hi \in 1 .. sent[s] /\ lo <= hi
  BY <1>1, <1>2
<1> QED
  BY <1>3, <1>4 DEF Log!Write

\* A step of the data path is one of FrameLog for some sensor, or none.
LEMMA LogStep == IInv /\ [Next]_vars => [Log!Next]_<<sent, jobs>>
<1> SUFFICES ASSUME IInv, [Next]_vars
             PROVE  (\E s \in Sensors : Log!Arrive(s) \/ Log!Write(s)) \/ UNCHANGED <<sent, jobs>>
  BY DEF Log!Next
<1>1. ASSUME NEW s \in Sensors, Receive(s) PROVE Log!Arrive(s)
  BY <1>1 DEF Receive, Log!Arrive, workerVars
<1>2. ASSUME NEW w \in Workers, Written(w) PROVE \E s \in Sensors : Log!Write(s)
  <2>0. IInv /\ w \in Workers /\ work[w].pc = "write"
    BY <1>2 DEF Written
  <2>1. PICK s \in Sensors, lo \in Frames, hi \in Frames :
           /\ work[w].s = s /\ work[w].n = hi /\ WorkerOf[s] = w /\ lo = hi - 1
           /\ vol[s] = <<lo, hi>> /\ End(s) = hi
    BY <2>0, AtWork
  <2>2. Log!Continues(jobs[s], lo)
    BY <1>2, <2>1 DEF Written, IInv, SensorOK, BufferOf, Doing
  <2>3. lo # hi
    BY <2>1, Elements
  <2>4. jobs' = [jobs EXCEPT ![s] = Append(jobs[s], <<lo, hi>>)] /\ UNCHANGED sent
    BY <1>2, <2>1 DEF Written, WriteErrs
  <2> QED
    BY <2>1, <2>2, <2>3, <2>4, WriteIsBatch
<1>3. ASSUME NEW w \in Workers, Flushed(w) PROVE \E s \in Sensors : Log!Write(s)
  <2>0. IInv /\ w \in Workers /\ work[w].pc = "flush"
    BY <1>3 DEF Flushed
  <2>1. PICK s \in Sensors, m \in Frames :
           work[w].s = s /\ vol[s] = <<m>> /\ Log!Continues(jobs[s], m) /\ End(s) = m
    BY <2>0, FlushedBatch
  <2>2. jobs' = [jobs EXCEPT ![s] = Append(jobs[s], <<m>>)] /\ UNCHANGED sent
    BY <1>3, <2>1 DEF Flushed, WriteErrs
  <2> QED
    BY <2>1, <2>2, WriteIsBatch
<1>4. ASSUME NEW w \in Workers, Worker(w), ~Written(w), ~Flushed(w) PROVE UNCHANGED <<sent, jobs>>
  BY <1>4 DEF Worker, FirstFrame, NextFrame, Notify, Update, NothingToFlush, Flush, workerVars
<1>5. CASE HaveSensorIDs \/ GossipTick \/ GossipSend \/ Pass \/ Walker \/ UNCHANGED vars
  BY <1>5 DEF HaveSensorIDs, GossipTick, GossipSend, Pass, Walker, StartWalk, Push, Visit, vars, workerVars
<1> QED
  BY <1>1, <1>2, <1>3, <1>4, <1>5 DEF Next

\* The worker implements FrameLog: it writes the frames of a sensor in batches of
\* consecutive frames, in order and without a gap, each frame at most twice.
THEOREM Refinement == Spec => ImplementsFrameLog
<1>1. Init => Log!Init
  BY DEF Init, Log!Init
<1> QED
  BY <1>1, LogStep, Invariant, PTL DEF Spec, ImplementsFrameLog, Log!Spec
==============================================================================
