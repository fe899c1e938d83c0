--------------------------- MODULE TaskQueueProofs ---------------------------
(***************************************************************************)
(* Theorems about TaskQueue, for any sets of tasks and queues and any      *)
(* capacity of the channels: where a task is and when it runs, the answers *)
(* that DoTask returns, and the order in which the tasks are served.       *)
(***************************************************************************)
EXTENDS TaskQueue, TLAPS

------------------------------------------------------------------------------
(* Type correctness.                                                         *)

\* Every variable keeps its type, and only a caller whose context is done
\* sets the expire flag of its task.
LEMMA TypeInit == Init => TypeOK
<1> SUFFICES ASSUME Init PROVE TypeOK
  OBVIOUS
<1>1. /\ pc \in [Tasks -> CallerPCs] /\ handler \in [Tasks -> HandlerPCs]
      /\ wpc \in [Queues -> WorkerPCs] /\ cur \in [Queues -> Tasks \cup {NoTask}]
  BY DEF Init, CallerPCs, HandlerPCs, WorkerPCs
<1>2. /\ ctxDone \subseteq ReadTasks /\ expire \subseteq ctxDone
      /\ closing \in BOOLEAN /\ closed \subseteq Queues /\ crashed \in BOOLEAN
  BY DEF Init
<1>3. result \in [Tasks -> Answers] /\ mem \in [Tasks -> Answers]
  BY DEF Init, Answers, Empty, Datas, Errs
<1>4. DOMAIN reply = Tasks /\ \A t \in Tasks : reply[t] \in [FieldsOf(t) -> {"unread"} \cup Datas \cup Errs]
  BY DEF Init
<1>5. taskCh \in [Queues -> Seq(Tasks)] /\ timeouts \in [Tasks -> Nat]
  BY DEF Init
<1>6. unstored \in [Tasks -> SUBSET Fields]
  BY DEF Init
<1> QED
  BY <1>1, <1>2, <1>3, <1>4, <1>5, <1>6 DEF TypeOK

\* A step of a caller keeps the types.
LEMMA TypeCaller ==
  ASSUME TypeOK, NEW t \in Tasks, Submit(t) \/ CtxFires(t) \/ Caller(t)
  PROVE  TypeOK'
<1> USE DEF TypeOK, Goto, callerVars, queueVars, workerVars, handlerVars, sharedVars
<1>1. CASE Submit(t)
  BY <1>1 DEF Submit, CallerPCs
<1>2. CASE CtxFires(t)
  BY <1>2 DEF CtxFires
<1>3. CASE InsertTimeout(t)
  BY <1>3 DEF InsertTimeout, CallerPCs
<1>4. CASE Insert(t)
  <2>1. QueueOf[t] \in Queues
    BY QueueAssumption
  <2>2. taskCh' \in [Queues -> Seq(Tasks)]
    BY <1>4, <2>1 DEF Insert
  <2> QED
    BY <1>4, <2>2 DEF Insert, CallerPCs
<1>5. CASE InsertPanic(t)
  BY <1>5 DEF InsertPanic
<1>6. CASE StartTimeout(t)
  BY <1>6 DEF StartTimeout, CallerPCs
<1>7. CASE SeeStart(t)
  BY <1>7 DEF SeeStart, CallerPCs
<1>8. CASE DoneTimeout(t)
  BY <1>8 DEF DoneTimeout, CallerPCs
<1>9. CASE SeeComplete(t)
  BY <1>9 DEF SeeComplete, CallerPCs
<1>10. CASE Timeout(t)
  <2>1. timeouts' \in [Tasks -> Nat]
    BY <1>10 DEF Timeout
  <2> QED
    BY <1>10, <2>1 DEF Timeout, CallerPCs
<1>11. CASE SetErr(t)
  <2>1. mem' \in [Tasks -> Answers]
    BY <1>11 DEF SetErr, Answers, Errs
  <2> QED
    BY <1>11, <2>1 DEF SetErr, CallerPCs
<1>12. ASSUME NEW f \in Fields, Collect(t, f) PROVE TypeOK'
  <2>1. mem[t][f] \in Datas \cup Errs
    BY <1>12 DEF Answers, Fields
  <2>2. DOMAIN reply' = Tasks /\ \A u \in Tasks : reply'[u] \in [FieldsOf(u) -> {"unread"} \cup Datas \cup Errs]
    BY <1>12, <2>1 DEF Collect
  <2>3. pc' \in [Tasks -> CallerPCs] /\ ctxDone' \subseteq ReadTasks /\ expire' \subseteq ctxDone'
    BY <1>12 DEF Collect, CallerPCs
  <2> QED
    BY <1>12, <2>2, <2>3 DEF Collect
<1> QED
  BY <1>1, <1>2, <1>3, <1>4, <1>5, <1>6, <1>7, <1>8, <1>9, <1>10, <1>11, <1>12 DEF Caller

\* A step of a handler keeps the types.
LEMMA TypeHandler ==
  ASSUME TypeOK, NEW t \in Tasks, Handler(t)
  PROVE  TypeOK'
<1> USE DEF TypeOK, HandlerGoto, callerVars, queueVars, workerVars, sharedVars
<1>1. CASE HRun(t)
  <2>1. ReadResults(t) \subseteq Answers /\ WriteResults \subseteq Answers
    BY DEF ReadResults, WriteResults, IsFirst, FilePathList, Answers, Datas, Errs, Empty
  <2>2. result' \in [Tasks -> Answers]
    BY <1>1, <2>1 DEF HRun
  <2>3. unstored' \in [Tasks -> SUBSET Fields]
    BY <1>1 DEF HRun, FieldsOf, Fields
  <2> QED
    BY <1>1, <2>2, <2>3 DEF HRun, HandlerPCs
<1>2. CASE HCount(t)
  <2>1. timeouts' \in [Tasks -> Nat]
    BY <1>2 DEF HCount
  <2> QED
    BY <1>2, <2>1 DEF HCount, HandlerPCs
<1>3. CASE HComplete(t)
  BY <1>3 DEF HComplete, HandlerPCs
<1>4. ASSUME NEW f \in Fields, HStore(t, f) PROVE TypeOK'
  <2>1. CASE f = "data"
    <3>1. mem' \in [Tasks -> Answers]
      BY <1>4, <2>1 DEF HStore, Answers
    <3> QED
      BY <1>4, <3>1 DEF HStore, HandlerPCs
  <2>2. CASE f = "err"
    <3>1. mem' \in [Tasks -> Answers]
      BY <1>4, <2>2 DEF HStore, Answers
    <3> QED
      BY <1>4, <3>1 DEF HStore, HandlerPCs
  <2> QED
    BY <2>1, <2>2 DEF Fields
<1> QED
  BY <1>1, <1>2, <1>3, <1>4 DEF Handler

\* SafeClose keeps the types.
LEMMA TypeClose == TypeOK /\ SafeClose => TypeOK'
BY DEF TypeOK, SafeClose, callerVars, workerVars, handlerVars, sharedVars

\* A step of a worker, or of closing its queue, keeps the types.
LEMMA TypeWorker ==
  ASSUME TypeOK, NEW q \in Queues, Worker(q) \/ CloseQueue(q)
  PROVE  TypeOK'
<1> USE DEF TypeOK, WorkerGoto, callerVars, queueVars, workerVars, handlerVars, sharedVars
<1>1. CASE WRecv(q)
  <2>1. taskCh[q] \in Seq(Tasks) /\ taskCh[q] # <<>>
    BY <1>1 DEF WRecv
  <2>2. Head(taskCh[q]) \in Tasks /\ Tail(taskCh[q]) \in Seq(Tasks)
    BY <2>1
  <2> QED
    BY <1>1, <2>2 DEF WRecv, WorkerPCs
<1>2. CASE WCheck(q)
  BY <1>2 DEF WCheck, WorkerPCs
<1>3. CASE WStart(q)
  BY <1>3 DEF WStart, WorkerPCs, HandlerPCs
<1>4. CASE WNext(q)
  BY <1>4 DEF WNext, WorkerPCs
<1>5. CASE WExit(q)
  BY <1>5 DEF WExit, WorkerPCs
<1>6. CASE CloseQueue(q)
  BY <1>6 DEF CloseQueue
<1> QED
  BY <1>1, <1>2, <1>3, <1>4, <1>5, <1>6 DEF Worker

\* Stuttering keeps the types.
LEMMA TypeStutter == TypeOK /\ UNCHANGED vars => TypeOK'
BY DEF TypeOK, vars, callerVars, queueVars, workerVars, handlerVars, sharedVars

\* Every step keeps the types.
LEMMA TypeNext == TypeOK /\ Next => TypeOK'
BY TypeCaller, TypeHandler, TypeWorker, TypeClose DEF Next

\* Spec keeps every variable in its type.
THEOREM TypeCorrect == Spec => []TypeOK
BY TypeInit, TypeNext, TypeStutter, PTL DEF Spec

------------------------------------------------------------------------------
(* The inductive invariant.                                                  *)

\* A queue and its worker only hold tasks that hash to the queue.
OwnQueue ==
  \A q \in Queues :
     /\ \A i \in DOMAIN taskCh[q] : QueueOf[taskCh[q][i]] = q
     /\ wpc[q] \in {"check", "start", "wait"} => cur[q] \in Tasks /\ QueueOf[cur[q]] = q

\* A task that its caller has not sent yet is nowhere else.
NotYetSent ==
  \A t \in Tasks : pc[t] \in {"idle", "insert"} => handler[t] = "none" /\ ~Waiting(t)

\* The worker waits for every running handler whose context is not done.
LiveIsServed ==
  \A t \in Tasks :
     Active(t) => t \in ctxDone \/ (cur[QueueOf[t]] = t /\ wpc[QueueOf[t]] = "wait")

IInv == TypeOK /\ OwnQueue /\ HeldOnce /\ NotYetSent /\ LiveIsServed

\* A step that moves no task between channel, worker and handler, sends none
\* and cancels no deadline keeps the invariant.
LEMMA SamePlaces ==
  ASSUME IInv, TypeOK', UNCHANGED <<taskCh, wpc, cur>>, ctxDone \subseteq ctxDone',
         \A t \in Tasks : /\ Active(t)' => Active(t)
                          /\ handler[t] = "none" => handler'[t] = "none"
                          /\ pc'[t] \in {"idle", "insert"} => pc[t] \in {"idle", "insert"}
  PROVE  IInv'
<1>0. \A t \in Tasks : handler[t] \in HandlerPCs /\ handler'[t] \in HandlerPCs
  BY DEF IInv, TypeOK
<1>1. \A t \in Tasks : Waiting(t)' <=> Waiting(t)
  BY DEF Waiting, InQueue
<1>2. OwnQueue'
  BY DEF IInv, OwnQueue
<1>3. HeldOnce'
  <2> SUFFICES ASSUME NEW q \in Queues
               PROVE  /\ \A i \in DOMAIN taskCh[q] :
                            /\ handler'[taskCh[q][i]] = "none"
                            /\ \A j \in DOMAIN taskCh[q] : taskCh[q][i] = taskCh[q][j] => i = j
                            /\ wpc[q] \in {"check", "start"} => taskCh[q][i] # cur[q]
                      /\ wpc[q] \in {"check", "start"} => handler'[cur[q]] = "none"
    BY DEF HeldOnce
  <2>1. taskCh[q] \in Seq(Tasks)
    BY DEF IInv, TypeOK
  <2>2. \A i \in DOMAIN taskCh[q] : taskCh[q][i] \in Tasks
    BY <2>1
  <2> QED
    BY <2>2 DEF IInv, HeldOnce, OwnQueue
<1>4. NotYetSent'
  BY <1>1 DEF IInv, NotYetSent
<1>5. LiveIsServed'
  BY DEF IInv, LiveIsServed
<1> QED
  BY <1>2, <1>3, <1>4, <1>5 DEF IInv

\* What a task that has not been sent is spared: it is in no channel and in no
\* worker's hands.
LEMMA NotHeld ==
  ASSUME IInv, NEW t \in Tasks, ~Waiting(t), NEW q \in Queues
  PROVE  /\ \A i \in DOMAIN taskCh[q] : taskCh[q][i] # t
         /\ wpc[q] \in {"check", "start"} => cur[q] # t
BY DEF IInv, OwnQueue, Waiting, InQueue

\* Accepting a task keeps the invariant.
LEMMA PlacesInsert ==
  ASSUME IInv, TypeOK', NEW t \in Tasks, Insert(t)
  PROVE  IInv'
<1> DEFINE q == QueueOf[t]
<1>1. q \in Queues /\ taskCh[q] \in Seq(Tasks)
  BY QueueAssumption DEF IInv, TypeOK
<1>2. /\ taskCh' = [taskCh EXCEPT ![q] = Append(@, t)]
      /\ pc' = [pc EXCEPT ![t] = "waitStart"] /\ pc[t] = "insert"
      /\ UNCHANGED <<wpc, cur, handler, ctxDone>>
  BY DEF Insert, Goto, workerVars, handlerVars
<1>3. handler[t] = "none" /\ ~Waiting(t)
  BY <1>2 DEF IInv, NotYetSent
<1>4. \A r \in Queues \ {q} : taskCh'[r] = taskCh[r]
  BY <1>2 DEF IInv, TypeOK
<1>5. taskCh'[q] = Append(taskCh[q], t)
  BY <1>1, <1>2 DEF IInv, TypeOK
<1>6. /\ DOMAIN taskCh'[q] = DOMAIN taskCh[q] \cup {Len(taskCh[q]) + 1}
      /\ \A i \in DOMAIN taskCh[q] : taskCh'[q][i] = taskCh[q][i] /\ taskCh[q][i] \in Tasks
      /\ taskCh'[q][Len(taskCh[q]) + 1] = t
  BY <1>1, <1>5
<1>7. OwnQueue'
  BY <1>2, <1>4, <1>6 DEF IInv, OwnQueue
<1>8. HeldOnce'
  <2>1. \A r \in Queues \ {q} :
           /\ \A i \in DOMAIN taskCh'[r] :
                 /\ handler'[taskCh'[r][i]] = "none"
                 /\ \A j \in DOMAIN taskCh'[r] : taskCh'[r][i] = taskCh'[r][j] => i = j
                 /\ wpc'[r] \in {"check", "start"} => taskCh'[r][i] # cur'[r]
           /\ wpc'[r] \in {"check", "start"} => handler'[cur'[r]] = "none"
    BY <1>2, <1>4 DEF IInv, HeldOnce
  <2>2. \A i \in DOMAIN taskCh[q] : taskCh[q][i] # t
    BY <1>1, <1>3, NotHeld
  <2>3. wpc[q] \in {"check", "start"} => cur[q] # t
    BY <1>1, <1>3, NotHeld
  <2>4. \A i \in DOMAIN taskCh'[q] : handler'[taskCh'[q][i]] = "none"
    BY <1>1, <1>2, <1>3, <1>6 DEF IInv, HeldOnce
  <2>5. \A i, j \in DOMAIN taskCh'[q] : taskCh'[q][i] = taskCh'[q][j] => i = j
    BY <1>1, <1>6, <2>2 DEF IInv, HeldOnce
  <2>6. \A i \in DOMAIN taskCh'[q] : wpc'[q] \in {"check", "start"} => taskCh'[q][i] # cur'[q]
    BY <1>1, <1>2, <1>6, <2>3 DEF IInv, HeldOnce
  <2>7. wpc'[q] \in {"check", "start"} => handler'[cur'[q]] = "none"
    BY <1>1, <1>2 DEF IInv, HeldOnce
  <2> QED
    BY <2>1, <2>4, <2>5, <2>6, <2>7 DEF HeldOnce
<1>9. NotYetSent'
  <2>1. \A u \in Tasks \ {t} : Waiting(u)' => Waiting(u)
    BY <1>1, <1>2, <1>4, <1>6, QueueAssumption DEF Waiting, InQueue
  <2> QED
    BY <1>2, <2>1 DEF IInv, NotYetSent, TypeOK
<1>10. LiveIsServed'
  BY <1>2 DEF IInv, LiveIsServed, Active
<1> QED
  BY <1>7, <1>8, <1>9, <1>10 DEF IInv

\* Receiving a task from the channel keeps the invariant.
LEMMA PlacesRecv ==
  ASSUME IInv, TypeOK', NEW q \in Queues, WRecv(q)
  PROVE  IInv'
<1>1. taskCh[q] \in Seq(Tasks) /\ taskCh[q] # <<>>
  BY DEF IInv, TypeOK, WRecv
<1>2. /\ taskCh' = [taskCh EXCEPT ![q] = Tail(@)]
      /\ cur' = [cur EXCEPT ![q] = Head(taskCh[q])]
      /\ wpc' = [wpc EXCEPT ![q] = "check"] /\ wpc[q] = "recv"
      /\ UNCHANGED <<pc, handler, ctxDone>>
  BY DEF WRecv, WorkerGoto, callerVars, handlerVars
<1>3. /\ \A r \in Queues \ {q} : taskCh'[r] = taskCh[r] /\ cur'[r] = cur[r] /\ wpc'[r] = wpc[r]
      /\ taskCh'[q] = Tail(taskCh[q]) /\ cur'[q] = taskCh[q][1] /\ wpc'[q] = "check"
  BY <1>1, <1>2 DEF IInv, TypeOK
<1>4. /\ 1 \in DOMAIN taskCh[q]
      /\ \A i \in DOMAIN taskCh[q] : taskCh[q][i] \in Tasks
      /\ \A i \in DOMAIN taskCh'[q] : /\ i + 1 \in DOMAIN taskCh[q] /\ i + 1 # 1
                                      /\ taskCh'[q][i] = taskCh[q][i + 1]
      /\ \A i, j \in DOMAIN taskCh'[q] : i + 1 = j + 1 => i = j
  <2> DEFINE s == taskCh[q]
  <2>1. s \in Seq(Tasks) /\ Len(s) \in Nat /\ Len(s) > 0 /\ DOMAIN s = 1 .. Len(s)
    BY <1>1
  <2>2. DOMAIN Tail(s) = 1 .. (Len(s) - 1) /\ \A i \in 1 .. (Len(s) - 1) : Tail(s)[i] = s[i + 1]
    BY <2>1
  <2> HIDE DEF s
  <2>3. 1 \in DOMAIN s /\ \A i \in DOMAIN s : s[i] \in Tasks
    BY <2>1
  <2>4. \A i \in DOMAIN Tail(s) : i + 1 \in DOMAIN s /\ i + 1 # 1 /\ Tail(s)[i] = s[i + 1]
    BY <2>1, <2>2
  <2>5. \A i, j \in DOMAIN Tail(s) : i + 1 = j + 1 => i = j
    BY <2>1, <2>2
  <2> QED
    BY <1>3, <2>3, <2>4, <2>5 DEF s
<1>5. OwnQueue'
  <2>1. \A i \in DOMAIN taskCh'[q] : QueueOf[taskCh'[q][i]] = q
    BY <1>4 DEF IInv, OwnQueue
  <2>2. cur'[q] \in Tasks /\ QueueOf[cur'[q]] = q
    BY <1>3, <1>4 DEF IInv, OwnQueue
  <2>3. \A r \in Queues \ {q} :
           /\ \A i \in DOMAIN taskCh'[r] : QueueOf[taskCh'[r][i]] = r
           /\ wpc'[r] \in {"check", "start", "wait"} => cur'[r] \in Tasks /\ QueueOf[cur'[r]] = r
    BY <1>3 DEF IInv, OwnQueue
  <2> QED
    BY <2>1, <2>2, <2>3 DEF OwnQueue
<1>6. HeldOnce'
  <2>1. \A r \in Queues \ {q} :
           /\ \A i \in DOMAIN taskCh'[r] :
                 /\ handler'[taskCh'[r][i]] = "none"
                 /\ \A j \in DOMAIN taskCh'[r] : taskCh'[r][i] = taskCh'[r][j] => i = j
                 /\ wpc'[r] \in {"check", "start"} => taskCh'[r][i] # cur'[r]
           /\ wpc'[r] \in {"check", "start"} => handler'[cur'[r]] = "none"
    BY <1>2, <1>3 DEF IInv, HeldOnce
  <2>2. \A i \in DOMAIN taskCh'[q] : handler'[taskCh'[q][i]] = "none"
    BY <1>2, <1>4 DEF IInv, HeldOnce
  <2>3. \A i, j \in DOMAIN taskCh'[q] : taskCh'[q][i] = taskCh'[q][j] => i = j
    BY <1>4 DEF IInv, HeldOnce
  <2>4. \A i \in DOMAIN taskCh'[q] : taskCh'[q][i] # cur'[q]
    BY <1>3, <1>4 DEF IInv, HeldOnce
  <2>5. handler'[cur'[q]] = "none"
    BY <1>2, <1>3, <1>4 DEF IInv, HeldOnce
  <2> QED
    BY <2>1, <2>2, <2>3, <2>4, <2>5 DEF HeldOnce
<1>7. NotYetSent'
  <2>1. ASSUME NEW u \in Tasks, Waiting(u)' PROVE Waiting(u)
    <3>1. CASE QueueOf[u] = q
      <4>1. CASE cur'[q] = u
        BY <1>3, <1>4, <3>1, <4>1 DEF Waiting, InQueue
      <4>2. CASE InQueue(u)'
        BY <1>4, <3>1, <4>2 DEF Waiting, InQueue
      <4> QED
        BY <2>1, <3>1, <4>1, <4>2 DEF Waiting
    <3>2. CASE QueueOf[u] # q
      BY <1>3, <2>1, <3>2, QueueAssumption DEF Waiting, InQueue
    <3> QED
      BY <3>1, <3>2
  <2> QED
    BY <1>2, <2>1 DEF IInv, NotYetSent
<1>8. LiveIsServed'
  BY <1>2, <1>3, QueueAssumption DEF IInv, LiveIsServed, Active
<1> QED
  BY <1>5, <1>6, <1>7, <1>8 DEF IInv

\* The check for expiry, the start of a handler, the end of the wait and the
\* end of the worker keep the invariant.
LEMMA PlacesWorker ==
  ASSUME IInv, TypeOK', NEW q \in Queues,
         WCheck(q) \/ WStart(q) \/ WNext(q) \/ WExit(q)
  PROVE  IInv'
<1>1. /\ UNCHANGED <<taskCh, cur, pc, ctxDone>>
      /\ \A r \in Queues \ {q} : wpc'[r] = wpc[r]
  BY DEF WCheck, WStart, WNext, WExit, WorkerGoto, IInv, TypeOK, callerVars, queueVars
<1>2. \A r \in Queues : \A i \in DOMAIN taskCh[r] : taskCh[r][i] \in Tasks
  BY DEF IInv, TypeOK
<1>3. CASE WStart(q)
  <2>1. /\ handler' = [handler EXCEPT ![cur[q]] = "running"]
        /\ wpc[q] = "start" /\ wpc'[q] = "wait"
    BY <1>3 DEF WStart, WorkerGoto, IInv, TypeOK
  <2>2. cur[q] \in Tasks /\ QueueOf[cur[q]] = q /\ handler[cur[q]] = "none"
    BY <2>1 DEF IInv, OwnQueue, HeldOnce
  <2>3. /\ handler'[cur[q]] = "running"
        /\ \A t \in Tasks \ {cur[q]} : handler'[t] = handler[t]
    BY <2>1, <2>2 DEF IInv, TypeOK
  <2>4. \A r \in Queues : \A i \in DOMAIN taskCh[r] : taskCh[r][i] # cur[q]
    BY <2>1, <2>2 DEF IInv, OwnQueue, HeldOnce
  <2>5. \A r \in Queues \ {q} : wpc[r] \in {"check", "start"} => cur[r] # cur[q] /\ cur[r] \in Tasks
    BY <2>2 DEF IInv, OwnQueue
  <2>6. OwnQueue'
    BY <1>1, <2>1, <2>2 DEF IInv, OwnQueue
  <2>7. HeldOnce'
    <3>1. \A r \in Queues : \A i \in DOMAIN taskCh[r] : handler'[taskCh[r][i]] = "none"
      BY <1>2, <2>3, <2>4 DEF IInv, HeldOnce
    <3>2. \A r \in Queues : wpc'[r] \in {"check", "start"} => r # q /\ handler'[cur[r]] = "none"
      BY <1>1, <2>1, <2>3, <2>5 DEF IInv, HeldOnce
    <3> QED
      BY <1>1, <3>1, <3>2 DEF IInv, HeldOnce
  <2>8. NotYetSent'
    <3>1. pc[cur[q]] \notin {"idle", "insert"}
      BY <2>1, <2>2 DEF IInv, NotYetSent, Waiting
    <3>2. \A t \in Tasks : Waiting(t)' => Waiting(t)
      BY <1>1, <2>1, QueueAssumption DEF Waiting, InQueue
    <3> QED
      BY <1>1, <2>3, <3>1, <3>2 DEF IInv, NotYetSent
  <2>9. LiveIsServed'
    <3>1. ASSUME NEW t \in Tasks \ {cur[q]}, Active(t)', t \notin ctxDone
          PROVE  cur'[QueueOf[t]] = t /\ wpc'[QueueOf[t]] = "wait"
      <4>1. cur[QueueOf[t]] = t /\ wpc[QueueOf[t]] = "wait"
        BY <2>3, <3>1 DEF IInv, LiveIsServed, Active
      <4> QED
        BY <1>1, <2>1, <4>1, QueueAssumption
    <3> QED
      BY <1>1, <2>1, <2>2, <3>1 DEF LiveIsServed
  <2> QED
    BY <2>6, <2>7, <2>8, <2>9 DEF IInv
<1>4. ASSUME WCheck(q) \/ WNext(q) \/ WExit(q) PROVE IInv'
  <2>1. /\ UNCHANGED handler
        /\ wpc'[q] \in {"recv", "exit"} \/ (wpc[q] = "check" /\ wpc'[q] = "start")
        /\ wpc[q] = "wait" => cur[q] \in ctxDone \/ handler[cur[q]] = "done"
    BY <1>4 DEF WCheck, WNext, WExit, Released, WorkerGoto, IInv, TypeOK, handlerVars
  <2>2. OwnQueue'
    BY <1>1, <2>1 DEF IInv, OwnQueue
  <2>3. HeldOnce'
    BY <1>1, <2>1 DEF IInv, HeldOnce
  <2>4. NotYetSent'
    <3>1. \A t \in Tasks : Waiting(t)' => Waiting(t)
      BY <1>1, <2>1, QueueAssumption DEF Waiting, InQueue
    <3> QED
      BY <1>1, <2>1, <3>1 DEF IInv, NotYetSent
  <2>5. LiveIsServed'
    BY <1>1, <2>1, QueueAssumption DEF IInv, LiveIsServed, Active
  <2> QED
    BY <2>2, <2>3, <2>4, <2>5 DEF IInv
<1> QED
  BY <1>3, <1>4

\* The steps that leave every task where it is: those of callers other than
\* accepting a task, and those of handlers.
LEMMA PlacesOthers ==
  ASSUME IInv, TypeOK', NEW t \in Tasks,
         Submit(t) \/ CtxFires(t) \/ (Caller(t) /\ ~Insert(t)) \/ Handler(t)
  PROVE  IInv'
<1> USE DEF IInv, TypeOK, callerVars, queueVars, workerVars, handlerVars, sharedVars
<1>1. UNCHANGED <<taskCh, wpc, cur>>
  BY DEF Submit, CtxFires, Caller, InsertTimeout, InsertPanic, StartTimeout, SeeStart, DoneTimeout,
         SeeComplete, Timeout, SetErr, Collect, Handler, HRun, HCount, HComplete, HStore
<1>2. ctxDone \subseteq ctxDone'
  BY DEF Submit, CtxFires, Caller, InsertTimeout, InsertPanic, StartTimeout, SeeStart, DoneTimeout,
         SeeComplete, Timeout, SetErr, Collect, Handler, HRun, HCount, HComplete, HStore
<1>3. \A u \in Tasks : pc'[u] \in {"idle", "insert"} => pc[u] \in {"idle", "insert"}
  BY DEF Submit, CtxFires, Caller, InsertTimeout, InsertPanic, StartTimeout, SeeStart, DoneTimeout,
         SeeComplete, Timeout, SetErr, Collect, Handler, HRun, HCount, HComplete, HStore, Goto
<1>4. \A u \in Tasks : (Active(u)' => Active(u)) /\ (handler[u] = "none" => handler'[u] = "none")
  BY DEF Submit, CtxFires, Caller, InsertTimeout, InsertPanic, StartTimeout, SeeStart, DoneTimeout,
         SeeComplete, Timeout, SetErr, Collect, Handler, HRun, HCount, HComplete, HStore,
         HandlerGoto, Active, CloseQueue, SafeClose
<1> QED
  BY <1>1, <1>2, <1>3, <1>4, SamePlaces

\* Closing the queues keeps the invariant.
LEMMA PlacesClose == IInv /\ TypeOK' /\ (SafeClose \/ \E q \in Queues : CloseQueue(q)) => IInv'
BY SamePlaces DEF SafeClose, CloseQueue, callerVars, workerVars, handlerVars, Active, IInv

\* The invariant holds in every initial state.
LEMMA InvInit == Init => IInv
<1> SUFFICES ASSUME Init PROVE IInv
  OBVIOUS
<1>1. TypeOK
  BY TypeInit
<1>2. \A q \in Queues : taskCh[q] = <<>> /\ DOMAIN taskCh[q] = {} /\ wpc[q] = "recv"
  BY DEF Init
<1>3. \A t \in Tasks : handler[t] = "none" /\ ~Active(t) /\ ~Waiting(t)
  BY <1>2, QueueAssumption DEF Init, Active, Waiting, InQueue
<1> QED
  BY <1>1, <1>2, <1>3 DEF IInv, OwnQueue, HeldOnce, NotYetSent, LiveIsServed

\* IInv is preserved by every step.
LEMMA InvStep == IInv /\ [Next]_vars => IInv'
<1> SUFFICES ASSUME IInv, [Next]_vars PROVE IInv'
  OBVIOUS
<1>1. CASE UNCHANGED vars
  BY <1>1, SamePlaces, TypeStutter DEF vars, callerVars, queueVars, workerVars, handlerVars,
     IInv, Active
<1>2. CASE Next
  <2>1. TypeOK'
    BY <1>2, TypeNext DEF IInv
  <2>2. ASSUME NEW t \in Tasks, Submit(t) \/ CtxFires(t) \/ Caller(t) \/ Handler(t) PROVE IInv'
    <3>1. QueueOf[t] \in Queues
      BY QueueAssumption
    <3> QED
      BY <2>1, <2>2, <3>1, PlacesInsert, PlacesOthers
  <2>3. ASSUME NEW q \in Queues, Worker(q) PROVE IInv'
    BY <2>1, <2>3, PlacesRecv, PlacesWorker DEF Worker
  <2>4. ASSUME NEW q \in Queues, CloseQueue(q) PROVE IInv'
    BY <2>1, <2>4, PlacesClose
  <2>5. CASE SafeClose
    BY <2>1, <2>5, PlacesClose
  <2> QED
    BY <1>2, <2>2, <2>3, <2>4, <2>5 DEF Next
<1> QED
  BY <1>1, <1>2

\* At every moment at most one running handler of a queue belongs to a task
\* whose context is not done, for any number of tasks, queues and places.
THEOREM OneLiveHandlerPerQueue == Spec => []LiveHandlersExclusive
<1>1. IInv => LiveHandlersExclusive
  BY DEF IInv, LiveIsServed, LiveHandlersExclusive
<1> QED
  BY <1>1, InvInit, InvStep, PTL DEF Spec

\* No task is ever in two places of the queues, and none is held that has been
\* started: the worker closes the startCh of a task at most once.
THEOREM TaskHeldOnce == Spec => []HeldOnce
<1>1. IInv => HeldOnce
  BY DEF IInv
<1> QED
  BY <1>1, InvInit, InvStep, PTL DEF Spec

------------------------------------------------------------------------------
(* Tasks that are given up in the channel.                                   *)

\* A task that its worker passes over, or has passed over.
Skipped(t) ==
  /\ t \in expire /\ handler[t] = "none"
  /\ ~(wpc[QueueOf[t]] = "start" /\ cur[QueueOf[t]] = t)

\* The worker's check sees that the caller has given up, however late it comes.
LEMMA SkippedStep ==
  ASSUME IInv, NEW t \in Tasks, Skipped(t), [Next]_vars
  PROVE  Skipped(t)'
<1> DEFINE r == QueueOf[t]
<1>1. r \in Queues /\ TypeOK
  BY QueueAssumption DEF IInv
<1>2. t \in expire'
  <2>1. expire \subseteq expire'
    BY DEF Next, Submit, CtxFires, Caller, InsertTimeout, Insert, InsertPanic, StartTimeout, SeeStart,
       DoneTimeout, SeeComplete, Timeout, SetErr, Collect, Handler, HRun, HStore, HCount, HComplete,
       Worker, WRecv, WCheck, WStart, WNext, WExit, CloseQueue, SafeClose, vars, callerVars
  <2> QED
    BY <2>1 DEF Skipped
<1>3. ASSUME NEW q \in Queues, WStart(q) PROVE Skipped(t)'
  <2>1. cur[q] \in Tasks /\ QueueOf[cur[q]] = q /\ wpc[q] = "start"
    BY <1>3 DEF IInv, OwnQueue, WStart, WorkerGoto
  <2>2. cur[q] # t
    BY <2>1 DEF Skipped
  <2>3. handler'[t] = handler[t]
    BY <1>1, <1>3, <2>2 DEF WStart, TypeOK
  <2>4. wpc'[r] = "start" => wpc[r] = "start"
    BY <1>1, <1>3 DEF WStart, WorkerGoto, TypeOK
  <2>5. cur' = cur
    BY <1>3 DEF WStart
  <2> QED
    BY <1>2, <2>3, <2>4, <2>5 DEF Skipped
<1>4. ASSUME NEW q \in Queues, WCheck(q) PROVE Skipped(t)'
  <2>1. cur' = cur /\ handler' = handler /\ wpc' = [wpc EXCEPT ![q] = IF cur[q] \in expire THEN "recv" ELSE "start"]
    BY <1>4 DEF WCheck, WorkerGoto, handlerVars
  <2>2. cur[r] = t => wpc'[r] # "start"
    BY <1>1, <2>1 DEF Skipped, TypeOK
  <2> QED
    BY <1>2, <2>1, <2>2 DEF Skipped
<1>5. ASSUME NEW q \in Queues, WRecv(q) \/ WNext(q) \/ WExit(q) PROVE Skipped(t)'
  <2>1. handler' = handler
    BY <1>5 DEF WRecv, WNext, WExit, handlerVars
  <2>2. \E p \in {"check", "recv", "exit"} : wpc' = [wpc EXCEPT ![q] = p]
    BY <1>5 DEF WRecv, WNext, WExit, WorkerGoto
  <2>3. wpc'[r] = "start" => r # q
    BY <1>1, <2>2 DEF TypeOK
  <2>4. r # q => wpc'[r] = wpc[r] /\ cur'[r] = cur[r]
    BY <1>1, <1>5, <2>2 DEF WRecv, WNext, WExit, TypeOK
  <2> QED
    BY <1>2, <2>1, <2>3, <2>4 DEF Skipped
<1>6. ASSUME NEW u \in Tasks, Handler(u) PROVE Skipped(t)'
  <2>1. /\ handler[u] # "none" /\ UNCHANGED <<wpc, cur>>
        /\ \E h \in HandlerPCs : handler' = [handler EXCEPT ![u] = h]
    BY <1>6 DEF Handler, HRun, HStore, HCount, HComplete, HandlerGoto, HandlerPCs, workerVars
  <2>2. u # t
    BY <2>1 DEF Skipped
  <2>3. handler'[t] = handler[t]
    BY <1>1, <2>1, <2>2 DEF TypeOK
  <2> QED
    BY <1>2, <2>1, <2>3 DEF Skipped
<1>7. CASE UNCHANGED <<handler, wpc, cur>>
  BY <1>2, <1>7 DEF Skipped
<1>8. ASSUME NEW u \in Tasks, Submit(u) \/ CtxFires(u) \/ Caller(u) PROVE UNCHANGED <<handler, wpc, cur>>
  BY <1>8 DEF Submit, CtxFires, Caller, InsertTimeout, Insert, InsertPanic, StartTimeout, SeeStart,
     DoneTimeout, SeeComplete, Timeout, SetErr, Collect, workerVars, handlerVars
<1>9. SafeClose \/ (\E q \in Queues : CloseQueue(q)) \/ UNCHANGED vars => UNCHANGED <<handler, wpc, cur>>
  BY DEF SafeClose, CloseQueue, vars, workerVars, handlerVars
<1> QED
  BY <1>3, <1>4, <1>5, <1>6, <1>7, <1>8, <1>9 DEF Next, Worker

\* A task that its caller gives up while it is in the channel is never run.
THEOREM GivenUpIsNeverRun == Spec => GivenUpIsSkipped
<1> SUFFICES ASSUME NEW t \in Tasks
             PROVE  Spec => [](InQueue(t) /\ t \in expire => [](handler[t] = "none"))
  BY DEF GivenUpIsSkipped
<1>1. IInv /\ InQueue(t) /\ t \in expire => Skipped(t)
  BY QueueAssumption DEF IInv, HeldOnce, InQueue, Skipped
<1>2. IInv /\ Skipped(t) /\ [Next]_vars => Skipped(t)'
  BY SkippedStep
<1>3. Skipped(t) => handler[t] = "none"
  BY DEF Skipped
<1> QED
  BY <1>1, <1>2, <1>3, InvInit, InvStep, PTL DEF Spec

------------------------------------------------------------------------------
(* The inductive invariant of the answers, task by task.                     *)

Stored == {"count", "finish", "done"}

Unanswered == {"idle", "insert", "waitStart", "waitDone", "timeout"}

\* What the handler of t has computed and assigned.  Only a caller whose context
\* is done writes to err besides it.
HandlerOK(t) ==
  /\ handler[t] \in Stored => unstored[t] = {}
  /\ handler[t] \in Stored \cup {"store"} =>
        /\ t \in ReadTasks => result[t].err # "nil"
        /\ \A f \in FieldsOf(t) \ unstored[t] : t \in ctxDone \/ mem[t][f] = result[t][f]
        /\ t \in ReadTasks /\ "err" \notin unstored[t] => mem[t].err # "nil"

\* When the caller of t may read, and what it has read.
CallerOK(t) ==
  /\ pc[t] \in Unanswered \cup {"setErr"} => \A f \in FieldsOf(t) : reply[t][f] = "unread"
  /\ pc[t] \in {"timeout", "setErr"} => t \in ctxDone
  /\ pc[t] \in {"collect", "returned"} => t \in ctxDone \/ handler[t] = "done"
  /\ t \in ReadTasks /\ pc[t] \in {"collect", "returned"} => mem[t].err # "nil"
  /\ t \in ReadTasks => reply[t].err # "nil"
  /\ \A f \in FieldsOf(t) : reply[t][f] = "unread" \/ t \in ctxDone \/ reply[t][f] = result[t][f]

\* How often t has been counted as timed out.
CountOK(t) ==
  LET byCaller == pc[t] \notin Unanswered
      byHandler == handler[t] \in {"finish", "done"}
  IN  /\ timeouts[t] <= (IF byCaller THEN 1 ELSE 0) + (IF byHandler THEN 1 ELSE 0)
      /\ pc[t] = "setErr" => timeouts[t] > 0
      /\ pc[t] \in {"collect", "returned"} /\ timeouts[t] = 0 => handler[t] = "done"
      /\ byHandler /\ timeouts[t] = 0 => mem[t].err # "504"
      /\ reply[t].err = "504" => timeouts[t] > 0

AnswerOK(t) == HandlerOK(t) /\ CallerOK(t) /\ CountOK(t)

AnswerInv == \A t \in Tasks : AnswerOK(t)

\* The fields of a task, and what a read can compute.
LEMMA FieldFacts ==
  /\ \A t \in Tasks : FieldsOf(t) \subseteq Fields /\ "err" \in FieldsOf(t)
  /\ \A t \in ReadTasks : t \in Tasks /\ FieldsOf(t) = Fields
  /\ \A t \in ReadTasks : \A r \in ReadResults(t) : r.err # "nil"
  /\ \A t \in WriteTasks : t \in Tasks /\ t \notin ReadTasks /\ FieldsOf(t) = {"err"}
BY QueueAssumption DEF FieldsOf, Fields, Tasks, ReadResults, FilePathList

\* A task whose variables a step leaves alone.
LEMMA SameAnswer ==
  ASSUME NEW t \in Tasks, AnswerOK(t),
         UNCHANGED <<pc[t], handler[t], result[t], unstored[t], mem[t], reply[t], timeouts[t]>>,
         t \in ctxDone => t \in ctxDone'
  PROVE  AnswerOK(t)'
BY DEF AnswerOK, HandlerOK, CallerOK, CountOK

\* Before it is sent a task has no answer.
LEMMA AnswerInit == Init => AnswerInv
<1> SUFFICES ASSUME Init, NEW t \in Tasks PROVE AnswerOK(t)
  BY DEF AnswerInv
<1>1. /\ pc[t] = "idle" /\ handler[t] = "none" /\ timeouts[t] = 0 
      /\ \A f \in FieldsOf(t) : reply[t][f] = "unread"
  BY DEF Init
<1>2. reply[t].err = "unread"
  BY <1>1, FieldFacts
<1> QED
  BY <1>1, <1>2 DEF AnswerOK, HandlerOK, CallerOK, CountOK, Stored, Unanswered

\* A step of the caller other than reading its answer.
LEMMA AnswerCaller ==
  ASSUME TypeOK, AnswerInv, NEW t \in Tasks,
         \/ Submit(t) \/ CtxFires(t) \/ InsertTimeout(t) \/ Insert(t) \/ InsertPanic(t) \/ StartTimeout(t)
         \/ SeeStart(t) \/ DoneTimeout(t) \/ SeeComplete(t) \/ Timeout(t) \/ SetErr(t)
  PROVE  AnswerInv'
<1> USE DEF callerVars, queueVars, workerVars, handlerVars, sharedVars
<1>0. AnswerOK(t) /\ FieldsOf(t) \subseteq Fields
  BY FieldFacts DEF AnswerInv
<1>1. ctxDone \subseteq ctxDone' /\ UNCHANGED <<reply, handler, result, unstored>>
  BY DEF Submit, CtxFires, InsertTimeout, Insert, InsertPanic, StartTimeout, SeeStart, DoneTimeout,
         SeeComplete, Timeout, SetErr
<1>2. ASSUME NEW u \in Tasks \ {t} PROVE AnswerOK(u)'
  <2>1. UNCHANGED <<pc[u], mem[u], timeouts[u]>>
    BY DEF TypeOK, Submit, CtxFires, InsertTimeout, Insert, InsertPanic, StartTimeout, SeeStart, DoneTimeout,
           SeeComplete, Timeout, SetErr, Goto
  <2> QED
    BY <1>1, <2>1, SameAnswer DEF AnswerInv
<1>3. AnswerOK(t)'
  <2>1. CASE CtxFires(t) \/ InsertPanic(t)
    BY <1>0, <2>1, <1>1, SameAnswer DEF CtxFires, InsertPanic
  <2>2. CASE Submit(t) \/ Insert(t) \/ SeeStart(t)
    <3>1. pc[t] \in Unanswered /\ pc'[t] \in Unanswered \ {"timeout"} /\ UNCHANGED <<mem, timeouts, ctxDone>>
      BY <2>2 DEF TypeOK, Submit, Insert, SeeStart, Goto, Unanswered
    <3> QED
      BY <1>0, <1>1, <3>1 DEF AnswerOK, HandlerOK, CallerOK, CountOK, Unanswered
  <2>3. CASE InsertTimeout(t) \/ StartTimeout(t) \/ DoneTimeout(t)
    <3>1. pc[t] \in Unanswered /\ pc'[t] = "timeout" /\ t \in ctxDone /\ UNCHANGED <<mem, timeouts, ctxDone>>
      BY <2>3 DEF TypeOK, InsertTimeout, StartTimeout, DoneTimeout, Goto, Unanswered
    <3> QED
      BY <1>0, <1>1, <3>1 DEF AnswerOK, HandlerOK, CallerOK, CountOK, Unanswered
  <2>4. CASE SeeComplete(t)
    <3>1. pc[t] = "waitDone" /\ pc'[t] = "collect" /\ handler[t] = "done" /\ UNCHANGED <<mem, timeouts, ctxDone>>
      BY <2>4 DEF TypeOK, SeeComplete, Goto
    <3>2. t \in ReadTasks => mem[t].err # "nil"
      BY <1>0, <3>1 DEF AnswerOK, HandlerOK, Stored
    <3> QED
      BY <1>0, <1>1, <3>1, <3>2 DEF AnswerOK, HandlerOK, CallerOK, CountOK, Unanswered, TypeOK
  <2>5. CASE Timeout(t)
    <3>1. /\ pc[t] = "timeout" /\ pc'[t] = (IF mem[t].err = "nil" THEN "setErr" ELSE "collect")
          /\ timeouts'[t] = timeouts[t] + 1 /\ timeouts[t] \in Nat /\ UNCHANGED <<mem, ctxDone>>
      BY <2>5 DEF TypeOK, Timeout, Goto
    <3> QED
      BY <1>0, <1>1, <3>1 DEF AnswerOK, HandlerOK, CallerOK, CountOK, Unanswered
  <2>6. CASE SetErr(t)
    <3>1. /\ pc[t] = "setErr" /\ pc'[t] = "collect" /\ mem'[t] = [mem[t] EXCEPT !.err = "504"]
          /\ UNCHANGED <<timeouts, ctxDone>>
      BY <2>6 DEF TypeOK, SetErr, Goto
    <3>2. mem'[t].err = "504" /\ mem[t] \in Answers /\ timeouts[t] \in Nat
      BY <3>1 DEF TypeOK, Answers
    <3> QED
      BY <1>0, <1>1, <3>1, <3>2 DEF AnswerOK, HandlerOK, CallerOK, CountOK, Unanswered
  <2> QED
    BY <2>1, <2>2, <2>3, <2>4, <2>5, <2>6
<1> QED
  BY <1>2, <1>3 DEF AnswerInv

\* Reading one field of the answer.
LEMMA AnswerCollect ==
  ASSUME TypeOK, AnswerInv, NEW t \in Tasks, NEW f \in Fields, Collect(t, f)
  PROVE  AnswerInv'
<1> USE DEF queueVars, workerVars, handlerVars, sharedVars
<1>0. AnswerOK(t) /\ f \in FieldsOf(t) /\ FieldsOf(t) \subseteq Fields /\ "err" \in FieldsOf(t)
  BY FieldFacts DEF AnswerInv, Collect
<1>1. ctxDone \subseteq ctxDone' /\ UNCHANGED <<handler, result, unstored, mem, timeouts>>
  BY DEF Collect
<1>2. /\ pc[t] = "collect" /\ pc' = [pc EXCEPT ![t] = pc'[t]] /\ pc'[t] \in {"collect", "returned"}
      /\ reply' = [reply EXCEPT ![t] = [reply[t] EXCEPT ![f] = mem[t][f]]]
  BY DEF Collect, Goto, TypeOK
<1>3. ASSUME NEW u \in Tasks \ {t} PROVE AnswerOK(u)'
  <2>1. UNCHANGED <<pc[u], reply[u]>>
    BY <1>2 DEF TypeOK
  <2> QED
    BY <1>1, <2>1, SameAnswer DEF AnswerInv
<1>4. AnswerOK(t)'
  <2>1. \A g \in FieldsOf(t) : reply'[t][g] = IF g = f THEN mem[t][f] ELSE reply[t][g]
    BY <1>0, <1>2 DEF TypeOK
  <2>2. timeouts[t] \in Nat
    BY DEF TypeOK
  <2>3. HandlerOK(t)'
    BY <1>0, <1>1 DEF AnswerOK, HandlerOK
  <2>4. CallerOK(t)'
    <3>1. t \in ReadTasks => reply'[t].err # "nil"
      BY <1>0, <1>2, <2>1 DEF AnswerOK, CallerOK
    <3>2. \A g \in FieldsOf(t) : reply'[t][g] = "unread" \/ t \in ctxDone' \/ reply'[t][g] = result[t][g]
      <4>1. handler[t] = "done" /\ t \notin ctxDone => mem[t][f] = result[t][f]
        BY <1>0 DEF AnswerOK, HandlerOK, Stored
      <4>2. t \in ctxDone \/ mem[t][f] = result[t][f]
        BY <1>0, <1>2, <4>1 DEF AnswerOK, CallerOK
      <4> QED
        BY <1>0, <1>1, <2>1, <4>2 DEF AnswerOK, CallerOK
    <3>3. t \in ReadTasks => mem'[t].err # "nil"
      BY <1>0, <1>1, <1>2 DEF AnswerOK, CallerOK
    <3>4. t \in ctxDone' \/ handler'[t] = "done"
      BY <1>0, <1>1, <1>2 DEF AnswerOK, CallerOK
    <3> QED
      BY <1>1, <1>2, <3>1, <3>2, <3>3, <3>4 DEF CallerOK, Unanswered
  <2>5. CountOK(t)'
    <3>1. mem[t].err = "504" => timeouts[t] > 0
      BY <1>0, <1>2, <2>2 DEF AnswerOK, CountOK
    <3>2. reply'[t].err = "504" => timeouts[t] > 0
      BY <1>0, <2>1, <3>1 DEF AnswerOK, CountOK
    <3> QED
      BY <1>0, <1>1, <1>2, <3>2 DEF AnswerOK, CountOK, Unanswered
  <2> QED
    BY <2>3, <2>4, <2>5 DEF AnswerOK
<1> QED
  BY <1>3, <1>4 DEF AnswerInv
\* A step of the handler.
LEMMA AnswerHandler ==
  ASSUME TypeOK, AnswerInv, NEW t \in Tasks, Handler(t)
  PROVE  AnswerInv'
<1> USE DEF callerVars, queueVars, workerVars, sharedVars
<1>0. AnswerOK(t) /\ FieldsOf(t) \subseteq Fields /\ timeouts[t] \in Nat /\ handler[t] \in HandlerPCs
  BY FieldFacts DEF AnswerInv, TypeOK
<1>1. UNCHANGED <<pc, ctxDone, reply>>
  BY DEF Handler, HRun, HStore, HCount, HComplete
<1>2. ASSUME NEW u \in Tasks \ {t} PROVE AnswerOK(u)'
  <2>1. UNCHANGED <<handler[u], result[u], unstored[u], mem[u], timeouts[u]>>
    BY DEF TypeOK, Handler, HRun, HStore, HCount, HComplete, HandlerGoto
  <2> QED
    BY <1>1, <2>1, SameAnswer DEF AnswerInv
<1>3. CASE HRun(t)
  <2>1. PICK r : /\ r \in (IF t \in ReadTasks THEN ReadResults(t) ELSE WriteResults)
                 /\ result' = [result EXCEPT ![t] = r]
    BY <1>3 DEF HRun
  <2>2. /\ handler[t] = "running" /\ handler'[t] = "store" /\ result'[t] = r
        /\ unstored'[t] = FieldsOf(t) /\ UNCHANGED <<mem, timeouts>>
    BY <1>3, <2>1 DEF HRun, HandlerGoto, TypeOK
  <2>3. t \in ReadTasks => r.err # "nil"
    BY <2>1, FieldFacts
  <2>4. "err" \in unstored'[t]
    BY <2>2, FieldFacts
  <2>5. HandlerOK(t)'
    BY <2>2, <2>3, <2>4 DEF HandlerOK, Stored
  <2>6. CallerOK(t)'
    <3>1. \A f \in FieldsOf(t) : reply[t][f] = "unread" \/ t \in ctxDone
      BY <1>0, <2>2 DEF AnswerOK, CallerOK, Unanswered, TypeOK, CallerPCs
    <3> QED
      BY <1>0, <1>1, <2>2, <3>1 DEF AnswerOK, CallerOK
  <2>7. CountOK(t)'
    BY <1>0, <1>1, <2>2 DEF AnswerOK, CountOK
  <2> QED
    BY <1>2, <2>5, <2>6, <2>7 DEF AnswerInv, AnswerOK
<1>4. ASSUME NEW f \in Fields, HStore(t, f) PROVE AnswerInv'
  <2>1. /\ f \in unstored[t] /\ handler[t] = "store"
        /\ handler'[t] = (IF unstored[t] = {f} THEN "count" ELSE "store")
        /\ unstored'[t] = unstored[t] \ {f} /\ mem'[t] = [mem[t] EXCEPT ![f] = result[t][f]]
        /\ UNCHANGED <<result, timeouts>>
    BY <1>4 DEF HStore, HandlerGoto, TypeOK
  <2>2. \A g \in Fields : mem'[t][g] = IF g = f THEN result[t][f] ELSE mem[t][g]
    BY <2>1 DEF TypeOK, Answers, Fields
  <2>3. mem'[t].err = IF f = "err" THEN result[t].err ELSE mem[t].err
    BY <2>2 DEF Fields
  <2>4. HandlerOK(t)'
    <3>1. \A g \in FieldsOf(t) \ unstored'[t] : t \in ctxDone \/ mem'[t][g] = result[t][g]
      BY <1>0, <2>1, <2>2 DEF AnswerOK, HandlerOK
    <3>2. t \in ReadTasks => result[t].err # "nil"
      BY <1>0, <2>1 DEF AnswerOK, HandlerOK
    <3>3. t \in ReadTasks /\ "err" \notin unstored'[t] => mem'[t].err # "nil"
      BY <1>0, <2>1, <2>3, <3>2 DEF AnswerOK, HandlerOK
    <3> QED
      BY <1>1, <2>1, <3>1, <3>2, <3>3 DEF HandlerOK, Stored
  <2>5. CallerOK(t)'
    <3>1. t \in ReadTasks => result[t].err # "nil"
      BY <1>0, <2>1 DEF AnswerOK, HandlerOK
    <3> QED
      BY <1>0, <1>1, <2>1, <2>3, <3>1 DEF AnswerOK, CallerOK
  <2>6. CountOK(t)'
    BY <1>0, <1>1, <2>1 DEF AnswerOK, CountOK
  <2> QED
    BY <1>2, <2>4, <2>5, <2>6 DEF AnswerInv, AnswerOK
<1>5. CASE HCount(t)
  <2>1. /\ handler[t] = "count" /\ handler'[t] = "finish"
        /\ timeouts'[t] = (IF mem[t].err = "504" THEN timeouts[t] + 1 ELSE timeouts[t])
        /\ UNCHANGED <<result, unstored, mem>>
    BY <1>5 DEF HCount, HandlerGoto, TypeOK
  <2>2. HandlerOK(t)' /\ CallerOK(t)'
    BY <1>0, <1>1, <2>1 DEF AnswerOK, HandlerOK, CallerOK, Stored
  <2>3. CountOK(t)'
    BY <1>0, <1>1, <2>1 DEF AnswerOK, CountOK
  <2> QED
    BY <1>2, <2>2, <2>3 DEF AnswerInv, AnswerOK
<1>6. CASE HComplete(t)
  <2>1. /\ handler[t] = "finish" /\ handler'[t] = "done" /\ UNCHANGED <<result, unstored, mem, timeouts>>
    BY <1>6 DEF HComplete, HandlerGoto, TypeOK
  <2>2. HandlerOK(t)' /\ CallerOK(t)'
    BY <1>0, <1>1, <2>1 DEF AnswerOK, HandlerOK, CallerOK, Stored
  <2>3. CountOK(t)'
    BY <1>0, <1>1, <2>1 DEF AnswerOK, CountOK
  <2> QED
    BY <1>2, <2>2, <2>3 DEF AnswerInv, AnswerOK
<1> QED
  BY <1>3, <1>4, <1>5, <1>6 DEF Handler

\* A step of the worker or of the closing of the queues; of the answers it sees
\* only a handler that starts.
LEMMA AnswerWorker ==
  ASSUME IInv, AnswerInv,
         (\E q \in Queues : Worker(q) \/ CloseQueue(q)) \/ SafeClose \/ UNCHANGED vars
  PROVE  AnswerInv'
<1> USE DEF callerVars, queueVars, workerVars, handlerVars, sharedVars
<1>1. UNCHANGED <<pc, ctxDone, reply, result, unstored, mem, timeouts>>
  BY DEF Worker, WRecv, WCheck, WStart, WNext, WExit, CloseQueue, SafeClose, vars
<1>2. SUFFICES ASSUME NEW t \in Tasks PROVE AnswerOK(t)'
  BY DEF AnswerInv
<1>3. handler'[t] = handler[t] \/ (handler[t] = "none" /\ handler'[t] = "running")
  <2>1. CASE UNCHANGED handler
    BY <2>1
  <2>2. ASSUME NEW q \in Queues, WStart(q) PROVE handler'[t] = handler[t] \/ (handler[t] = "none" /\ handler'[t] = "running")
    BY <2>2 DEF WStart, WorkerGoto, IInv, HeldOnce, OwnQueue, TypeOK
  <2> QED
    BY <2>1, <2>2 DEF Worker, WRecv, WCheck, WNext, WExit, CloseQueue, SafeClose, vars
<1>4. CASE handler'[t] = handler[t]
  BY <1>1, <1>4, SameAnswer DEF AnswerInv
<1>5. CASE handler[t] = "none" /\ handler'[t] = "running"
  BY <1>1, <1>5 DEF AnswerInv, AnswerOK, HandlerOK, CallerOK, CountOK, Stored
<1> QED
  BY <1>3, <1>4, <1>5

\* Every step keeps the invariant of the answers.
LEMMA AnswerStep == IInv /\ AnswerInv /\ [Next]_vars => AnswerInv'
<1> SUFFICES ASSUME IInv, AnswerInv, [Next]_vars PROVE AnswerInv'
  OBVIOUS
<1>0. TypeOK
  BY DEF IInv
<1>1. ASSUME NEW t \in Tasks, Submit(t) \/ CtxFires(t) \/ Caller(t) PROVE AnswerInv'
  <2>1. ASSUME NEW f \in Fields, Collect(t, f) PROVE AnswerInv'
    BY <1>0, <2>1, AnswerCollect
  <2> QED
    BY <1>0, <1>1, <2>1, AnswerCaller DEF Caller
<1>2. ASSUME NEW t \in Tasks, Handler(t) PROVE AnswerInv'
  BY <1>0, <1>2, AnswerHandler
<1>3. CASE (\E q \in Queues : Worker(q) \/ CloseQueue(q)) \/ SafeClose \/ UNCHANGED vars
  BY <1>3, AnswerWorker
<1> QED
  BY <1>1, <1>2, <1>3 DEF Next

\* Both invariants hold in every reachable state.
LEMMA AnswersHold == Spec => [](IInv /\ AnswerInv)
BY InvInit, InvStep, AnswerInit, AnswerStep, PTL DEF Spec

\* ReadDataByQueue never returns neither data nor an error, in whatever order
\* the late handler and the caller that timed out write and read the two fields.
THEOREM ReplyIsDefinite == Spec => []ReplyDefinite
<1>1. AnswerInv => ReplyDefinite
  BY FieldFacts DEF AnswerInv, AnswerOK, CallerOK, ReplyDefinite
<1> QED
  BY <1>1, AnswersHold, PTL

\* A timeout that a caller is told of is in the counter (queue_metrics.go), and
\* no task is counted more than twice.
THEOREM TimeoutsAreCounted == Spec => []TimeoutIsCounted
<1>1. IInv /\ AnswerInv => TimeoutIsCounted
  <2> SUFFICES ASSUME IInv, AnswerInv, NEW t \in Tasks
               PROVE  /\ pc[t] = "returned" /\ reply[t].err = "504" => timeouts[t] >= 1
                      /\ timeouts[t] <= 2
    BY DEF TimeoutIsCounted
  <2>1. CountOK(t) /\ timeouts[t] \in Nat
    BY DEF AnswerInv, AnswerOK, IInv, TypeOK
  <2> QED
    BY <2>1 DEF CountOK
<1> QED
  BY <1>1, AnswersHold, PTL

\* A caller that is in time, and so every WriteDataByQueue, gets what its own
\* handler computed, after the handler has completed.
THEOREM RepliesOnTime == Spec => OnTimeReply
<1> DEFINE A == \A t \in Tasks : pc[t] # "returned" /\ pc'[t] = "returned" /\ t \notin ctxDone
                   => handler[t] = "done" /\ \A f \in FieldsOf(t) : reply'[t][f] = result[t][f]
<1>1. IInv /\ AnswerInv /\ [Next]_vars => [A]_vars
  <2> SUFFICES ASSUME IInv, AnswerInv, Next, NEW t \in Tasks,
                      pc[t] # "returned", pc'[t] = "returned", t \notin ctxDone
               PROVE  handler[t] = "done" /\ \A f \in FieldsOf(t) : reply'[t][f] = result[t][f]
    OBVIOUS
  <2>0. TypeOK /\ AnswerOK(t)
    BY DEF IInv, AnswerInv
  <2>1. PICK f \in Fields : Collect(t, f)
    <3>1. ASSUME NEW u \in Tasks, ~(\E f \in Fields : Collect(u, f)),
                 Submit(u) \/ CtxFires(u) \/ Caller(u) \/ Handler(u)
          PROVE  FALSE
      BY <2>0, <3>1 DEF Submit, CtxFires, Caller, InsertTimeout, Insert, InsertPanic, StartTimeout, SeeStart,
         DoneTimeout, SeeComplete, Timeout, SetErr, Goto, Handler, HRun, HStore, HCount, HComplete, TypeOK,
         callerVars
    <3>2. ASSUME NEW u \in Tasks, NEW f \in Fields, Collect(u, f) PROVE u = t
      BY <2>0, <3>2 DEF Collect, Goto, TypeOK
    <3>3. ~(SafeClose \/ \E q \in Queues : Worker(q) \/ CloseQueue(q))
      BY DEF Worker, WRecv, WCheck, WStart, WNext, WExit, CloseQueue, SafeClose, callerVars
    <3> QED
      BY <3>1, <3>2, <3>3 DEF Next
  <2>2. /\ pc[t] = "collect" /\ f \in FieldsOf(t) /\ \A g \in FieldsOf(t) \ {f} : reply[t][g] # "unread"
        /\ reply' = [reply EXCEPT ![t] = [reply[t] EXCEPT ![f] = mem[t][f]]]
    BY <2>0, <2>1 DEF Collect, Goto, TypeOK
  <2>3. handler[t] = "done"
    BY <2>0, <2>2 DEF AnswerOK, CallerOK
  <2>4. mem[t][f] = result[t][f]
    BY <2>0, <2>2, <2>3 DEF AnswerOK, HandlerOK, Stored
  <2>5. \A g \in FieldsOf(t) : reply'[t][g] = IF g = f THEN mem[t][f] ELSE reply[t][g]
    BY <2>0, <2>2 DEF TypeOK
  <2> QED
    BY <2>0, <2>2, <2>3, <2>4, <2>5 DEF AnswerOK, CallerOK
<1> QED
  BY <1>1, AnswersHold, PTL DEF Spec, OnTimeReply

------------------------------------------------------------------------------
(* The queues implement SerialExecutor.                                      *)

\* A task whose caller waits for its start is still on its way to a handler, or
\* the worker has skipped it after the caller had given up.
OnItsWay ==
  \A t \in Tasks :
     /\ pc[t] \in {"idle", "insert"} => t \notin expire
     /\ pc[t] = "waitStart" /\ handler[t] = "none" => Waiting(t) \/ t \in expire

\* What Waiting means for the worker's step.
LEMMA WaitingIn ==
  ASSUME IInv, NEW t \in Tasks
  PROVE  /\ QueueOf[t] \in Queues
         /\ Waiting(t) => handler[t] = "none"
         /\ Waiting(t) <=> \/ \E i \in DOMAIN taskCh[QueueOf[t]] : taskCh[QueueOf[t]][i] = t
                           \/ cur[QueueOf[t]] = t /\ wpc[QueueOf[t]] \in {"check", "start"}
<1>1. QueueOf[t] \in Queues
  BY QueueAssumption
<1> QED
  BY <1>1 DEF IInv, HeldOnce, Waiting, InQueue

\* A step that leaves the channel and the worker of a task alone.
LEMMA WaitingSame ==
  ASSUME NEW t \in Tasks, taskCh'[QueueOf[t]] = taskCh[QueueOf[t]],
         cur'[QueueOf[t]] = cur[QueueOf[t]], wpc'[QueueOf[t]] = wpc[QueueOf[t]]
  PROVE  Waiting(t)' <=> Waiting(t)
BY DEF Waiting, InQueue

\* The abstract state of a task, before and after a step.
LEMMA StateOf ==
  ASSUME NEW t \in Tasks
  PROVE  /\ handler[t] = "done" => absState[t] = "finished"
         /\ Active(t) => absState[t] = "running"
         /\ handler[t] = "none" /\ Waiting(t) => absState[t] = "waiting"
         /\ handler[t] = "none" /\ ~Waiting(t) => absState[t] = IF t \in expire THEN "dropped" ELSE "new"
         /\ handler'[t] = "done" => absState'[t] = "finished"
         /\ Active(t)' => absState'[t] = "running"
         /\ handler'[t] = "none" /\ Waiting(t)' => absState'[t] = "waiting"
         /\ handler'[t] = "none" /\ ~Waiting(t)' => absState'[t] = IF t \in expire' THEN "dropped" ELSE "new"
<1>1. absState[t] = IF handler[t] = "done" THEN "finished"
                    ELSE IF Active(t) THEN "running"
                    ELSE IF Waiting(t) THEN "waiting"
                    ELSE IF t \in expire THEN "dropped" ELSE "new"
  BY DEF absState
<1>2. absState'[t] = IF handler'[t] = "done" THEN "finished"
                     ELSE IF Active(t)' THEN "running"
                     ELSE IF Waiting(t)' THEN "waiting"
                     ELSE IF t \in expire' THEN "dropped" ELSE "new"
  BY DEF absState
<1>3. (Active(t) <=> handler[t] \notin {"none", "done"}) /\ (Active(t)' <=> handler'[t] \notin {"none", "done"})
  BY DEF Active
<1> QED
  BY <1>1, <1>2, <1>3

\* A task whose abstract state a step leaves alone.
LEMMA StateSame ==
  ASSUME IInv, NEW t \in Tasks, handler[t] \in HandlerPCs, handler'[t] \in HandlerPCs,
         Waiting(t)' <=> Waiting(t), Active(t)' <=> Active(t), handler'[t] = "done" <=> handler[t] = "done",
         handler[t] = "none" /\ ~Waiting(t) => (t \in expire' <=> t \in expire)
  PROVE  absState'[t] = absState[t]
<1>1. handler[t] = "done" \/ Active(t) \/ handler[t] = "none"
  BY DEF Active
<1>2. CASE handler[t] = "done"
  BY <1>2, StateOf
<1>3. CASE Active(t)
  BY <1>3, StateOf
<1>4. CASE handler[t] = "none" /\ Waiting(t)
  <2>1. handler'[t] = "none"
    BY <1>4 DEF Active
  <2> QED
    BY <1>4, <2>1, StateOf
<1>5. CASE handler[t] = "none" /\ ~Waiting(t)
  <2>1. handler'[t] = "none"
    BY <1>5 DEF Active
  <2> QED
    BY <1>5, <2>1, StateOf
<1> QED
  BY <1>1, <1>2, <1>3, <1>4, <1>5

\* The two abstract maps are functions.
LEMMA AbstractFunctions ==
  /\ absState = [t \in Tasks |-> absState[t]] /\ absState' = [t \in Tasks |-> absState'[t]]
  /\ absLine = [q \in Queues |-> absLine[q]] /\ absLine' = [q \in Queues |-> absLine'[q]]
  /\ absServing = [q \in Queues |-> absServing[q]] /\ absServing' = [q \in Queues |-> absServing'[q]]
<1>1. absState = [t \in Tasks |-> absState[t]] /\ absState' = [t \in Tasks |-> absState'[t]]
  BY DEF absState
<1>2. absLine = [q \in Queues |-> absLine[q]] /\ absLine' = [q \in Queues |-> absLine'[q]]
  BY DEF absLine
<1>3. absServing = [q \in Queues |-> absServing[q]] /\ absServing' = [q \in Queues |-> absServing'[q]]
  BY DEF absServing
<1> QED
  BY <1>1, <1>2, <1>3

\* A step that the abstract queues do not see, but for the deadlines.
LEMMA UnseenStep ==
  ASSUME IInv, IInv', UNCHANGED <<taskCh, cur, wpc>>,
         \A t \in Tasks : /\ Active(t)' <=> Active(t)
                          /\ handler'[t] = "done" <=> handler[t] = "done"
                          /\ handler[t] = "none" /\ ~Waiting(t) => (t \in expire' <=> t \in expire)
  PROVE  UNCHANGED <<absLine, absServing, absState>>
<1>1. UNCHANGED <<absLine, absServing>>
  BY DEF absLine, absServing
<1>2. ASSUME NEW t \in Tasks PROVE absState'[t] = absState[t]
  <2>1. handler[t] \in HandlerPCs /\ handler'[t] \in HandlerPCs
    BY DEF IInv, TypeOK
  <2>2. Waiting(t)' <=> Waiting(t)
    BY WaitingSame
  <2> QED
    BY <2>1, <2>2, StateSame
<1> QED
  BY <1>1, <1>2, AbstractFunctions

\* At the start the queues are empty.
LEMMA OnItsWayInit == Init => OnItsWay
BY DEF Init, OnItsWay

\* A task that is sent is in the channel until the worker takes it, and leaves the
\* worker's hands for a handler or because its caller has given up.
LEMMA OnItsWayStep == IInv /\ OnItsWay /\ [Next]_vars => OnItsWay'
<1> SUFFICES ASSUME IInv, OnItsWay, [Next]_vars, NEW t \in Tasks
             PROVE  /\ pc'[t] \in {"idle", "insert"} => t \notin expire'
                    /\ pc'[t] = "waitStart" /\ handler'[t] = "none" => Waiting(t)' \/ t \in expire'
  BY DEF OnItsWay
<1> USE DEF callerVars, queueVars, workerVars, handlerVars, sharedVars
<1> DEFINE q == QueueOf[t]
<1>0. TypeOK /\ IInv' /\ q \in Queues /\ taskCh[q] \in Seq(Tasks)
  BY InvStep, QueueAssumption DEF IInv, TypeOK
<1>1. CASE UNCHANGED vars
  BY <1>1, WaitingSame DEF vars, OnItsWay
<1>2. ASSUME NEW u \in Tasks, Insert(u)
      PROVE  /\ pc'[t] \in {"idle", "insert"} => t \notin expire'
             /\ pc'[t] = "waitStart" /\ handler'[t] = "none" => Waiting(t)' \/ t \in expire'
  <2>1. /\ pc' = [pc EXCEPT ![u] = "waitStart"]
        /\ taskCh' = [taskCh EXCEPT ![QueueOf[u]] = Append(taskCh[QueueOf[u]], u)]
        /\ UNCHANGED <<expire, cur, wpc, handler>>
    BY <1>2 DEF Insert, Goto
  <2>2. CASE u = t
    <3>1. taskCh'[q] = Append(taskCh[q], t)
      BY <1>0, <2>1, <2>2 DEF TypeOK
    <3>2. Len(taskCh[q]) + 1 \in DOMAIN taskCh'[q] /\ taskCh'[q][Len(taskCh[q]) + 1] = t
      BY <1>0, <3>1
    <3>3. Waiting(t)'
      BY <3>2 DEF Waiting, InQueue
    <3> QED
      BY <1>0, <2>1, <2>2, <3>3 DEF TypeOK
  <2>3. CASE u # t
    <3>1. pc'[t] = pc[t]
      BY <1>0, <2>1, <2>3 DEF TypeOK
    <3>2. Waiting(t) => Waiting(t)'
      <4>1. CASE QueueOf[u] # q
        BY <1>0, <2>1, <4>1, WaitingSame DEF TypeOK
      <4>2. CASE QueueOf[u] = q
        <5>1. taskCh'[q] = Append(taskCh[q], u)
          BY <1>0, <2>1, <4>2 DEF TypeOK
        <5>2. \A i \in DOMAIN taskCh[q] : i \in DOMAIN taskCh'[q] /\ taskCh'[q][i] = taskCh[q][i]
          BY <1>0, <5>1
        <5> QED
          BY <2>1, <5>2 DEF Waiting, InQueue
      <4> QED
        BY <4>1, <4>2
    <3> QED
      BY <2>1, <3>1, <3>2 DEF OnItsWay
  <2> QED
    BY <2>2, <2>3
<1>3. ASSUME NEW u \in Tasks, Submit(u) \/ CtxFires(u) \/ Caller(u) \/ Handler(u), ~Insert(u)
      PROVE  /\ pc'[t] \in {"idle", "insert"} => t \notin expire'
             /\ pc'[t] = "waitStart" /\ handler'[t] = "none" => Waiting(t)' \/ t \in expire'
  <2>1. UNCHANGED <<taskCh, cur, wpc>>
    BY <1>3 DEF Submit, CtxFires, Caller, InsertTimeout, InsertPanic, StartTimeout, SeeStart, DoneTimeout,
         SeeComplete, Timeout, SetErr, Collect, Handler, HRun, HCount, HComplete, HStore
  <2>2. Waiting(t)' <=> Waiting(t)
    BY <2>1, WaitingSame
  <2>3. /\ pc'[t] \in {"idle", "insert"} => pc[t] \in {"idle", "insert"} /\ (t \in expire' => t \in expire)
        /\ pc'[t] = "waitStart" => pc[t] = "waitStart"
        /\ expire \subseteq expire'
        /\ handler'[t] = "none" => handler[t] = "none"
    BY <1>0, <1>3 DEF TypeOK, Submit, CtxFires, Caller, InsertTimeout, InsertPanic, StartTimeout, SeeStart, DoneTimeout,
         SeeComplete, Timeout, SetErr, Collect, Handler, HRun, HCount, HComplete, HStore, Goto, HandlerGoto
  <2> QED
    BY <2>2, <2>3 DEF OnItsWay
<1>4. ASSUME NEW r \in Queues, Worker(r)
      PROVE  /\ pc'[t] \in {"idle", "insert"} => t \notin expire'
             /\ pc'[t] = "waitStart" /\ handler'[t] = "none" => Waiting(t)' \/ t \in expire'
  <2>1. UNCHANGED <<pc, expire>>
    BY <1>4 DEF Worker, WRecv, WCheck, WStart, WNext, WExit
  <2>2. handler'[t] = "none" => handler[t] = "none"
    BY <1>0, <1>4 DEF Worker, WRecv, WCheck, WStart, WNext, WExit, WorkerGoto, TypeOK
  <2>3. ASSUME Waiting(t), handler'[t] = "none" PROVE Waiting(t)' \/ t \in expire
    <3>1. CASE r # q
      BY <1>0, <1>4, <2>3, <3>1, WaitingSame DEF Worker, WRecv, WCheck, WStart, WNext, WExit, WorkerGoto, TypeOK
    <3>2. CASE r = q /\ WRecv(q)
      <4>1. /\ taskCh[q] # <<>> /\ wpc[q] = "recv" /\ wpc'[q] = "check" /\ cur'[q] = Head(taskCh[q])
            /\ taskCh'[q] = Tail(taskCh[q])
        BY <1>0, <3>2 DEF WRecv, WorkerGoto, TypeOK
      <4>2. PICK i \in DOMAIN taskCh[q] : taskCh[q][i] = t
        BY <2>3, <4>1 DEF Waiting, InQueue
      <4>3. CASE i = 1
        <5>1. cur'[q] = t
          BY <1>0, <4>1, <4>2, <4>3
        <5> QED
          BY <4>1, <5>1 DEF Waiting
      <4>4. CASE i # 1
        <5>1. i - 1 \in DOMAIN taskCh'[q] /\ taskCh'[q][i - 1] = t
          BY <1>0, <4>1, <4>2, <4>4
        <5> QED
          BY <5>1 DEF Waiting, InQueue
      <4> QED
        BY <4>3, <4>4
    <3>3. CASE r = q /\ WCheck(q)
      BY <1>0, <2>3, <3>3 DEF WCheck, WorkerGoto, TypeOK, Waiting, InQueue
    <3>4. CASE r = q /\ WStart(q)
      <4>1. wpc[q] = "start" /\ handler' = [handler EXCEPT ![cur[q]] = "running"] /\ UNCHANGED <<taskCh, cur>>
        BY <3>4 DEF WStart, WorkerGoto
      <4>2. cur[q] # t
        BY <1>0, <2>3, <4>1 DEF TypeOK
      <4> QED
        BY <2>3, <4>1, <4>2 DEF Waiting, InQueue
    <3>5. CASE r = q /\ (WNext(q) \/ WExit(q))
      BY <1>0, <2>3, <3>5 DEF WNext, WExit, WorkerGoto, TypeOK, Waiting, InQueue
    <3> QED
      BY <1>4, <3>1, <3>2, <3>3, <3>4, <3>5 DEF Worker
  <2> QED
    BY <2>1, <2>2, <2>3 DEF OnItsWay
<1>5. CASE SafeClose \/ \E r \in Queues : CloseQueue(r)
  <2>1. UNCHANGED <<pc, expire, handler, taskCh, cur, wpc>>
    BY <1>5 DEF SafeClose, CloseQueue
  <2> QED
    BY <2>1, WaitingSame DEF OnItsWay
<1> QED
  BY <1>1, <1>2, <1>3, <1>4, <1>5 DEF Next
\* One abstract step changes the state of one task.
LEMMA StateChanged ==
  ASSUME IInv, IInv', NEW t \in Tasks, NEW x, absState'[t] = x,
         \A u \in Tasks \ {t} : /\ handler'[u] = handler[u] /\ (Waiting(u)' <=> Waiting(u))
                                /\ u \in expire' <=> u \in expire
  PROVE  absState' = [absState EXCEPT ![t] = x]
<1>1. ASSUME NEW u \in Tasks \ {t} PROVE absState'[u] = absState[u]
  <2>1. handler[u] \in HandlerPCs /\ handler'[u] \in HandlerPCs
    BY DEF IInv, TypeOK
  <2> QED
    BY <2>1, StateSame DEF Active
<1> QED
  BY <1>1, AbstractFunctions

\* The line of one queue changes.
LEMMA LineChanged ==
  ASSUME NEW q \in Queues, NEW x, absLine'[q] = x, \A r \in Queues \ {q} : absLine'[r] = absLine[r]
  PROVE  absLine' = [absLine EXCEPT ![q] = x]
BY AbstractFunctions

\* The line of a queue, before and after a step.
LEMMA LineOf ==
  ASSUME IInv, IInv', NEW q \in Queues
  PROVE  /\ absLine[q] = (IF wpc[q] \in {"check", "start"} THEN <<cur[q]>> ELSE <<>>) \o taskCh[q]
         /\ absLine'[q] = (IF wpc'[q] \in {"check", "start"} THEN <<cur'[q]>> ELSE <<>>) \o taskCh'[q]
         /\ wpc[q] \notin {"check", "start"} => absLine[q] = taskCh[q]
         /\ wpc'[q] \notin {"check", "start"} => absLine'[q] = taskCh'[q]
         /\ wpc[q] \in {"check", "start"} =>
               absLine[q] # <<>> /\ Head(absLine[q]) = cur[q] /\ Tail(absLine[q]) = taskCh[q]
<1>1. /\ absLine[q] = (IF wpc[q] \in {"check", "start"} THEN <<cur[q]>> ELSE <<>>) \o taskCh[q]
      /\ absLine'[q] = (IF wpc'[q] \in {"check", "start"} THEN <<cur'[q]>> ELSE <<>>) \o taskCh'[q]
  BY DEF absLine
<1>2. taskCh[q] \in Seq(Tasks) /\ taskCh'[q] \in Seq(Tasks)
  BY DEF IInv, TypeOK
<1>3. <<>> \o taskCh[q] = taskCh[q] /\ <<>> \o taskCh'[q] = taskCh'[q]
  BY <1>2
<1>4. ASSUME NEW c \in Tasks, NEW s \in Seq(Tasks)
      PROVE  <<c>> \o s # <<>> /\ Head(<<c>> \o s) = c /\ Tail(<<c>> \o s) = s
  <2>1. <<c>> \o s \in Seq(Tasks) /\ Len(<<c>> \o s) = Len(s) + 1 /\ Len(s) \in Nat
    OBVIOUS
  <2>2. (<<c>> \o s)[1] = c /\ \A i \in 1 .. Len(s) : (<<c>> \o s)[i + 1] = s[i]
    OBVIOUS
  <2>3. Tail(<<c>> \o s) \in Seq(Tasks) /\ Len(Tail(<<c>> \o s)) = Len(s)
        /\ \A i \in 1 .. Len(s) : Tail(<<c>> \o s)[i] = s[i]
    BY <2>1, <2>2
  <2> QED
    BY <2>1, <2>2, <2>3
<1>5. wpc[q] \in {"check", "start"} => cur[q] \in Tasks
  BY DEF IInv, OwnQueue
<1> QED
  BY <1>1, <1>2, <1>3, <1>4, <1>5

\* A task that is accepted joins the end of the line of its queue.
LEMMA AcceptStep ==
  ASSUME IInv, IInv', OnItsWay, NEW t \in Tasks, Insert(t)
  PROVE  Abstract!Accept(t)
<1> DEFINE q == QueueOf[t]
<1>0. TypeOK /\ q \in Queues /\ taskCh[q] \in Seq(Tasks)
  BY QueueAssumption DEF IInv, TypeOK
<1>1. /\ pc[t] = "insert" /\ taskCh' = [taskCh EXCEPT ![q] = Append(taskCh[q], t)]
      /\ UNCHANGED <<expire, cur, wpc, handler, ctxDone>>
  BY DEF Insert, Goto, workerVars, handlerVars
<1>2. taskCh'[q] = Append(taskCh[q], t) /\ \A r \in Queues \ {q} : taskCh'[r] = taskCh[r]
  BY <1>0, <1>1 DEF TypeOK
<1>3. /\ DOMAIN taskCh'[q] = DOMAIN taskCh[q] \cup {Len(taskCh[q]) + 1}
      /\ \A i \in DOMAIN taskCh[q] : taskCh'[q][i] = taskCh[q][i]
      /\ taskCh'[q][Len(taskCh[q]) + 1] = t
  BY <1>0, <1>2
<1>4. handler[t] = "none" /\ ~Waiting(t) /\ t \notin expire
  BY <1>1 DEF IInv, NotYetSent, OnItsWay
<1>5. Waiting(t)'
  BY <1>3 DEF Waiting, InQueue
<1>6. absState[t] = "new" /\ absState'[t] = "waiting"
  BY <1>1, <1>4, <1>5, StateOf
<1>7. \A u \in Tasks \ {t} : Waiting(u)' <=> Waiting(u)
  BY <1>1, <1>2, <1>3, QueueAssumption DEF Waiting, InQueue
<1>8. absState' = [absState EXCEPT ![t] = "waiting"]
  BY <1>1, <1>6, <1>7, StateChanged
<1>9. absLine' = [absLine EXCEPT ![q] = Append(absLine[q], t)]
  <2>1. absLine'[q] = Append(absLine[q], t)
    <3>1. ASSUME NEW c \in Tasks PROVE <<c>> \o Append(taskCh[q], t) = Append(<<c>> \o taskCh[q], t)
      BY <1>0
    <3>2. CASE wpc[q] \in {"check", "start"}
      <4>1. cur[q] \in Tasks
        BY <1>0, <3>2 DEF IInv, OwnQueue
      <4>2. absLine[q] = <<cur[q]>> \o taskCh[q] /\ absLine'[q] = <<cur[q]>> \o Append(taskCh[q], t)
        BY <1>0, <1>1, <1>2, <3>2, LineOf
      <4> QED
        BY <3>1, <4>1, <4>2
    <3>3. CASE wpc[q] \notin {"check", "start"}
      BY <1>0, <1>1, <1>2, <3>3, LineOf
    <3> QED
      BY <3>2, <3>3
  <2>2. ASSUME NEW r \in Queues \ {q} PROVE absLine'[r] = absLine[r]
    <3>1. taskCh'[r] = taskCh[r] /\ cur'[r] = cur[r] /\ wpc'[r] = wpc[r]
      BY <1>1, <1>2
    <3> QED
      BY <3>1 DEF absLine
  <2> QED
    BY <1>0, <2>1, <2>2, LineChanged
<1>10. UNCHANGED absServing
  BY <1>1 DEF absServing
<1> QED
  BY <1>1, <1>6, <1>8, <1>9, <1>10 DEF Abstract!Accept

\* Receiving a task leaves it at the head of the line.
LEMMA RecvStep ==
  ASSUME IInv, IInv', NEW q \in Queues, WRecv(q)
  PROVE  UNCHANGED <<absLine, absServing, ctxDone, absState>>
<1>0. TypeOK /\ taskCh[q] \in Seq(Tasks)
  BY DEF IInv, TypeOK
<1>1. /\ taskCh[q] # <<>> /\ wpc[q] = "recv" /\ wpc' = [wpc EXCEPT ![q] = "check"]
      /\ cur' = [cur EXCEPT ![q] = Head(taskCh[q])] /\ taskCh' = [taskCh EXCEPT ![q] = Tail(taskCh[q])]
      /\ UNCHANGED <<expire, handler, ctxDone>>
  BY DEF WRecv, WorkerGoto, callerVars, handlerVars
<1>2. /\ \A r \in Queues \ {q} : taskCh'[r] = taskCh[r] /\ cur'[r] = cur[r] /\ wpc'[r] = wpc[r]
      /\ taskCh'[q] = Tail(taskCh[q]) /\ cur'[q] = Head(taskCh[q]) /\ wpc'[q] = "check"
  BY <1>0, <1>1 DEF TypeOK
<1>3. UNCHANGED absServing
  <2>1. \A r \in Queues : absServing'[r] = absServing[r]
    BY <1>1, <1>2 DEF absServing
  <2> QED
    BY <2>1, AbstractFunctions
<1>4. UNCHANGED absLine
  <2>1. <<Head(taskCh[q])>> \o Tail(taskCh[q]) = taskCh[q]
    BY <1>0, <1>1
  <2>2. absLine'[q] = absLine[q]
    BY <1>1, <1>2, <2>1, LineOf
  <2>3. \A r \in Queues \ {q} : absLine'[r] = absLine[r]
    BY <1>2 DEF absLine
  <2> QED
    BY <2>2, <2>3, AbstractFunctions
<1>5. UNCHANGED absState
  <2>1. ASSUME NEW t \in Tasks PROVE Waiting(t)' <=> Waiting(t)
    <3>1. CASE QueueOf[t] # q
      BY <1>2, <3>1, WaitingSame, QueueAssumption
    <3>2. CASE QueueOf[t] = q
      <4>1. Waiting(t) <=> \E i \in DOMAIN taskCh[q] : taskCh[q][i] = t
        BY <1>1, <3>2 DEF Waiting, InQueue
      <4>2. Waiting(t)' <=> Head(taskCh[q]) = t \/ \E i \in DOMAIN Tail(taskCh[q]) : Tail(taskCh[q])[i] = t
        BY <1>2, <3>2 DEF Waiting, InQueue
      <4>3. \A i \in DOMAIN taskCh[q] : (i = 1 /\ taskCh[q][i] = Head(taskCh[q]))
                                        \/ (i - 1 \in DOMAIN Tail(taskCh[q]) /\ Tail(taskCh[q])[i - 1] = taskCh[q][i])
        BY <1>0, <1>1
      <4>4. /\ 1 \in DOMAIN taskCh[q] /\ taskCh[q][1] = Head(taskCh[q])
            /\ \A i \in DOMAIN Tail(taskCh[q]) : i + 1 \in DOMAIN taskCh[q] /\ Tail(taskCh[q])[i] = taskCh[q][i + 1]
        BY <1>0, <1>1
      <4> QED
        BY <4>1, <4>2, <4>3, <4>4
    <3> QED
      BY <3>1, <3>2
  <2>2. \A t \in Tasks : absState'[t] = absState[t]
    <3> TAKE t \in Tasks
    <3>1. handler[t] \in HandlerPCs
      BY <1>0 DEF TypeOK
    <3> QED
      BY <1>1, <2>1, <3>1, StateSame DEF Active
  <2> QED
    BY <2>2, AbstractFunctions
<1> QED
  BY <1>1, <1>3, <1>4, <1>5

\* The task at the head of the line is dropped or begun.
LEMMA TakeStep ==
  ASSUME IInv, IInv', NEW q \in Queues,
         wpc[q] \in {"check", "start"}, wpc'[q] \notin {"check", "start"},
         UNCHANGED <<taskCh, cur, expire, ctxDone>>,
         \A r \in Queues \ {q} : wpc'[r] = wpc[r],
         \A u \in Tasks \ {cur[q]} : handler'[u] = handler[u],
         NEW x, absState'[cur[q]] = x
  PROVE  Abstract!Take(q, x)
<1>0. TypeOK /\ cur[q] \in Tasks /\ QueueOf[cur[q]] = q
  BY DEF IInv, OwnQueue
<1>1. absLine[q] # <<>> /\ Head(absLine[q]) = cur[q] /\ absLine'[q] = Tail(absLine[q])
  BY LineOf
<1>2. absLine' = [absLine EXCEPT ![q] = Tail(absLine[q])]
  <2>1. \A r \in Queues \ {q} : absLine'[r] = absLine[r]
    BY LineOf
  <2> QED
    BY <1>1, <2>1, LineChanged
<1>3. absState' = [absState EXCEPT ![cur[q]] = x]
  <2>1. ASSUME NEW u \in Tasks \ {cur[q]} PROVE Waiting(u)' <=> Waiting(u)
    BY QueueAssumption DEF Waiting, InQueue
  <2> QED
    BY <1>0, <2>1, StateChanged
<1> QED
  BY <1>1, <1>2, <1>3 DEF Abstract!Take

\* The worker passes over a task that has been given up, or keeps it.
LEMMA CheckStep ==
  ASSUME IInv, IInv', NEW q \in Queues, WCheck(q)
  PROVE  Abstract!Drop(q) \/ UNCHANGED <<absLine, absServing, ctxDone, absState>>
<1>0. TypeOK
  BY DEF IInv
<1>1. /\ wpc[q] = "check" /\ wpc' = [wpc EXCEPT ![q] = IF cur[q] \in expire THEN "recv" ELSE "start"]
      /\ UNCHANGED <<taskCh, cur, expire, handler, ctxDone>>
  BY DEF WCheck, WorkerGoto, callerVars, queueVars, handlerVars
<1>2. \A r \in Queues \ {q} : wpc'[r] = wpc[r]
  BY <1>0, <1>1 DEF TypeOK
<1>3. cur[q] \in Tasks /\ QueueOf[cur[q]] = q /\ handler[cur[q]] = "none"
  BY <1>1 DEF IInv, OwnQueue, HeldOnce
<1>4. UNCHANGED absServing /\ absServing[q] = NoTask
  <2>1. \A r \in Queues : absServing'[r] = absServing[r]
    BY <1>0, <1>1, <1>2 DEF absServing, TypeOK
  <2> QED
    BY <1>1, <2>1, AbstractFunctions DEF absServing
<1>5. CASE cur[q] \in expire
  <2>1. wpc'[q] = "recv"
    BY <1>0, <1>1, <1>5 DEF TypeOK
  <2>2. ~Waiting(cur[q])'
    BY <1>1, <1>3, <2>1 DEF IInv, HeldOnce, Waiting, InQueue
  <2>3. absState'[cur[q]] = "dropped"
    BY <1>1, <1>3, <1>5, <2>2, StateOf
  <2>4. Abstract!Take(q, "dropped")
    BY <1>1, <1>2, <2>1, <2>3, TakeStep
  <2>5. absLine[q] # <<>> /\ Head(absLine[q]) = cur[q] /\ cur[q] \in ctxDone
    BY <1>0, <1>1, <1>5, LineOf DEF TypeOK
  <2> QED
    BY <1>4, <2>4, <2>5 DEF Abstract!Drop
<1>6. CASE cur[q] \notin expire
  <2>1. wpc'[q] = "start"
    BY <1>0, <1>1, <1>6 DEF TypeOK
  <2>2. \A r \in Queues : absLine'[r] = absLine[r]
    BY <1>1, <1>2, <2>1, LineOf
  <2>3. ASSUME NEW t \in Tasks PROVE absState'[t] = absState[t]
    <3>1. Waiting(t)' <=> Waiting(t)
      BY <1>1, <1>2, <2>1, QueueAssumption DEF Waiting, InQueue
    <3>2. handler[t] \in HandlerPCs
      BY <1>0 DEF TypeOK
    <3> QED
      BY <1>1, <3>1, <3>2, StateSame DEF Active
  <2> QED
    BY <1>1, <1>4, <2>2, <2>3, AbstractFunctions
<1> QED
  BY <1>5, <1>6

\* The worker begins with the task at the head of the line.
LEMMA BeginStep ==
  ASSUME IInv, IInv', NEW q \in Queues, WStart(q)
  PROVE  Abstract!Begin(q)
<1>0. TypeOK
  BY DEF IInv
<1>1. /\ wpc[q] = "start" /\ wpc' = [wpc EXCEPT ![q] = "wait"] /\ handler' = [handler EXCEPT ![cur[q]] = "running"]
      /\ UNCHANGED <<taskCh, cur, expire, ctxDone>>
  BY DEF WStart, WorkerGoto, callerVars, queueVars
<1>2. wpc'[q] = "wait" /\ \A r \in Queues \ {q} : wpc'[r] = wpc[r]
  BY <1>0, <1>1 DEF TypeOK
<1>3. cur[q] \in Tasks /\ QueueOf[cur[q]] = q
  BY <1>1 DEF IInv, OwnQueue
<1>4. handler'[cur[q]] = "running" /\ \A u \in Tasks \ {cur[q]} : handler'[u] = handler[u]
  BY <1>0, <1>1, <1>3 DEF TypeOK
<1>5. absState'[cur[q]] = "running"
  BY <1>3, <1>4, StateOf DEF Active
<1>6. Abstract!Take(q, "running")
  BY <1>1, <1>2, <1>4, <1>5, TakeStep
<1>7. absServing[q] = NoTask /\ absServing' = [absServing EXCEPT ![q] = Head(absLine[q])]
  <2>1. absServing'[q] = cur[q] /\ Head(absLine[q]) = cur[q] /\ absServing[q] = NoTask
    BY <1>1, <1>2, LineOf DEF absServing
  <2>2. \A r \in Queues \ {q} : absServing'[r] = absServing[r]
    BY <1>1, <1>2 DEF absServing
  <2> QED
    BY <2>1, <2>2, AbstractFunctions
<1> QED
  BY <1>6, <1>7 DEF Abstract!Begin

\* The worker is free again once the task is finished or late.
LEMMA FreeStep ==
  ASSUME IInv, IInv', NEW q \in Queues, WNext(q)
  PROVE  Abstract!Free(q)
<1>0. TypeOK
  BY DEF IInv
<1>1. /\ wpc[q] = "wait" /\ wpc' = [wpc EXCEPT ![q] = "recv"] /\ (cur[q] \in ctxDone \/ handler[cur[q]] = "done")
      /\ UNCHANGED <<taskCh, cur, expire, handler, ctxDone>>
  BY DEF WNext, Released, WorkerGoto, callerVars, queueVars, handlerVars
<1>2. wpc'[q] = "recv" /\ \A r \in Queues \ {q} : wpc'[r] = wpc[r]
  BY <1>0, <1>1 DEF TypeOK
<1>3. cur[q] \in Tasks /\ QueueOf[cur[q]] = q /\ cur[q] # NoTask
  BY <1>1, QueueAssumption DEF IInv, OwnQueue
<1>4. absServing[q] = cur[q] /\ absServing' = [absServing EXCEPT ![q] = NoTask]
  <2>1. absServing'[q] = NoTask /\ absServing[q] = cur[q]
    BY <1>1, <1>2 DEF absServing
  <2>2. \A r \in Queues \ {q} : absServing'[r] = absServing[r]
    BY <1>1, <1>2 DEF absServing
  <2> QED
    BY <2>1, <2>2, AbstractFunctions
<1>5. \A r \in Queues : absLine'[r] = absLine[r]
  BY <1>1, <1>2, LineOf
<1>6. ASSUME NEW t \in Tasks PROVE absState'[t] = absState[t]
  <2>1. Waiting(t)' <=> Waiting(t)
    BY <1>1, <1>2, QueueAssumption DEF Waiting, InQueue
  <2>2. handler[t] \in HandlerPCs
    BY <1>0 DEF TypeOK
  <2> QED
    BY <1>1, <2>1, <2>2, StateSame DEF Active
<1>7. cur[q] \in ctxDone \/ absState[cur[q]] = "finished"
  BY <1>1, <1>3, StateOf
<1> QED
  BY <1>1, <1>3, <1>4, <1>5, <1>6, <1>7, AbstractFunctions DEF Abstract!Free

\* The worker that leaves is at rest.
LEMMA ExitStep ==
  ASSUME IInv, IInv', NEW q \in Queues, WExit(q)
  PROVE  UNCHANGED <<absLine, absServing, ctxDone, absState>>
<1>0. TypeOK
  BY DEF IInv
<1>1. /\ wpc[q] = "recv" /\ wpc' = [wpc EXCEPT ![q] = "exit"]
      /\ UNCHANGED <<taskCh, cur, expire, handler, ctxDone>>
  BY DEF WExit, WorkerGoto, callerVars, queueVars, handlerVars
<1>2. wpc'[q] = "exit" /\ \A r \in Queues \ {q} : wpc'[r] = wpc[r]
  BY <1>0, <1>1 DEF TypeOK
<1>3. \A r \in Queues : absLine'[r] = absLine[r] /\ absServing'[r] = absServing[r]
  BY <1>1, <1>2, LineOf DEF absServing
<1>4. ASSUME NEW t \in Tasks PROVE absState'[t] = absState[t]
  <2>1. Waiting(t)' <=> Waiting(t)
    BY <1>1, <1>2, QueueAssumption DEF Waiting, InQueue
  <2>2. handler[t] \in HandlerPCs
    BY <1>0 DEF TypeOK
  <2> QED
    BY <1>1, <2>1, <2>2, StateSame DEF Active
<1> QED
  BY <1>1, <1>3, <1>4, AbstractFunctions
\* The steps of callers and handlers, but for sending a task and for the end of
\* a handler, are unseen or the passing of a deadline.
LEMMA QuietStep ==
  ASSUME IInv, IInv', OnItsWay, NEW t \in Tasks,
         Submit(t) \/ CtxFires(t) \/ (Caller(t) /\ ~Insert(t)) \/ (Handler(t) /\ ~HComplete(t))
  PROVE  Abstract!Deadline(t) \/ UNCHANGED <<absLine, absServing, ctxDone, absState>>
<1> USE DEF callerVars, queueVars, workerVars, handlerVars, sharedVars
<1>0. TypeOK
  BY DEF IInv
<1>1. UNCHANGED <<taskCh, wpc, cur>>
  BY DEF Submit, CtxFires, Caller, InsertTimeout, InsertPanic, StartTimeout, SeeStart, DoneTimeout,
         SeeComplete, Timeout, SetErr, Collect, Handler, HRun, HCount, HStore
<1>2. ctxDone' = ctxDone \/ (t \notin ctxDone /\ ctxDone' = ctxDone \cup {t})
  BY DEF Submit, CtxFires, Caller, InsertTimeout, InsertPanic, StartTimeout, SeeStart, DoneTimeout,
         SeeComplete, Timeout, SetErr, Collect, Handler, HRun, HCount, HStore
<1>3. \A u \in Tasks : (Active(u)' <=> Active(u)) /\ (handler'[u] = "done" <=> handler[u] = "done")
  BY <1>0 DEF Submit, CtxFires, Caller, InsertTimeout, InsertPanic, StartTimeout, SeeStart, DoneTimeout,
         SeeComplete, Timeout, SetErr, Collect, Handler, HRun, HCount, HStore, HandlerGoto, Active, TypeOK
<1>4. \A u \in Tasks : handler[u] = "none" /\ ~Waiting(u) => (u \in expire' <=> u \in expire)
  <2>1. CASE StartTimeout(t)
    <3>1. pc[t] = "waitStart" /\ expire' = expire \cup {t}
      BY <2>1 DEF StartTimeout, Goto
    <3>2. handler[t] = "none" /\ ~Waiting(t) => t \in expire
      BY <3>1 DEF OnItsWay
    <3> QED
      BY <3>1, <3>2
  <2>2. CASE ~StartTimeout(t)
    <3>1. UNCHANGED expire
      BY <2>2 DEF Submit, CtxFires, Caller, InsertTimeout, InsertPanic, SeeStart, DoneTimeout,
         SeeComplete, Timeout, SetErr, Collect, Handler, HRun, HCount, HStore
    <3> QED
      BY <3>1
  <2> QED
    BY <2>1, <2>2
<1>5. UNCHANGED <<absLine, absServing, absState>>
  BY <1>1, <1>3, <1>4, UnseenStep
<1> QED
  BY <1>2, <1>5 DEF Abstract!Deadline

\* The end of a handler is that of its task.
LEMMA FinishStep ==
  ASSUME IInv, IInv', NEW t \in Tasks, HComplete(t)
  PROVE  Abstract!Finish(t)
<1>1. /\ handler[t] = "finish" /\ handler' = [handler EXCEPT ![t] = "done"]
      /\ UNCHANGED <<taskCh, wpc, cur, expire, ctxDone>>
  BY DEF HComplete, HandlerGoto, callerVars, queueVars, workerVars
<1>2. handler'[t] = "done" /\ \A u \in Tasks \ {t} : handler'[u] = handler[u]
  BY <1>1 DEF IInv, TypeOK
<1>3. absState[t] = "running" /\ absState'[t] = "finished"
  BY <1>1, <1>2, StateOf DEF Active
<1>4. \A u \in Tasks : Waiting(u)' <=> Waiting(u)
  BY <1>1, WaitingSame
<1>5. absState' = [absState EXCEPT ![t] = "finished"]
  BY <1>1, <1>2, <1>3, <1>4, StateChanged
<1>6. UNCHANGED <<absLine, absServing>>
  BY <1>1 DEF absLine, absServing
<1> QED
  BY <1>1, <1>3, <1>5, <1>6 DEF Abstract!Finish

\* At the start the abstract queues are empty too.
LEMMA AbstractInit == Init => Abstract!Init
<1> SUFFICES ASSUME Init PROVE Abstract!Init
  OBVIOUS
<1>1. \A t \in Tasks : ~Waiting(t) /\ handler[t] = "none" /\ t \notin expire
  BY QueueAssumption DEF Init, Waiting, InQueue
<1>2. \A t \in Tasks : absState[t] = "new"
  BY <1>1, StateOf
<1>3. \A q \in Queues : absLine[q] = <<>> /\ absServing[q] = NoTask
  BY DEF Init, absLine, absServing
<1>4. ctxDone = {}
  BY DEF Init
<1> QED
  BY <1>2, <1>3, <1>4, AbstractFunctions DEF Abstract!Init

\* The queues serve the accepted tasks in order and one at a time, but for those
\* whose deadline has passed (queue.go, Queue.DoTask and queue.start).
THEOREM ServesInOrder == Spec => ImplementsSerialExecutor
<1>1. IInv /\ OnItsWay /\ [Next]_vars => [Abstract!Next]_(Abstract!vars)
  <2> SUFFICES ASSUME IInv, OnItsWay, [Next]_vars
               PROVE  Abstract!Next \/ UNCHANGED <<absLine, absServing, ctxDone, absState>>
    BY DEF Abstract!vars
  <2>0. IInv'
    BY InvStep
  <2>1. ASSUME NEW t \in Tasks, Submit(t) \/ CtxFires(t) \/ Caller(t) \/ Handler(t)
        PROVE  Abstract!Next \/ UNCHANGED <<absLine, absServing, ctxDone, absState>>
    <3>1. CASE Insert(t)
      BY <2>0, <3>1, AcceptStep DEF Abstract!Next
    <3>2. CASE HComplete(t)
      BY <2>0, <3>2, FinishStep DEF Abstract!Next
    <3>3. CASE ~Insert(t) /\ ~HComplete(t)
      BY <2>0, <2>1, <3>3, QuietStep DEF Abstract!Next
    <3> QED
      BY <3>1, <3>2, <3>3
  <2>2. ASSUME NEW q \in Queues, Worker(q)
        PROVE  Abstract!Next \/ UNCHANGED <<absLine, absServing, ctxDone, absState>>
    BY <2>0, <2>2, RecvStep, CheckStep, BeginStep, FreeStep, ExitStep DEF Worker, Abstract!Next
  <2>3. CASE SafeClose \/ (\E q \in Queues : CloseQueue(q)) \/ UNCHANGED vars
    <3>1. UNCHANGED <<taskCh, cur, wpc, handler, expire, ctxDone>>
      BY <2>3 DEF SafeClose, CloseQueue, vars, callerVars, queueVars, workerVars, handlerVars
    <3> QED
      BY <2>0, <3>1, UnseenStep DEF Active
  <2> QED
    BY <2>1, <2>2, <2>3 DEF Next
<1> QED
  BY <1>1, AbstractInit, InvInit, InvStep, OnItsWayInit, OnItsWayStep, PTL
     DEF Spec, ImplementsSerialExecutor, Abstract!Spec
==============================================================================
