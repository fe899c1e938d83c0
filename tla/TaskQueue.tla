------------------------------ MODULE TaskQueue ------------------------------
(***************************************************************************)
(* pkg/arc_volume/queue.go and queue_task.go: the read and write tasks of  *)
(* the file cache, the callers that wait for them in Queue.DoTask, one     *)
(* worker goroutine per queue (queue.start) and one handler goroutine per  *)
(* started task.  A step of a goroutine is what it does between two points *)
(* at which another goroutine can be seen: a channel operation, an access  *)
(* to the expire flag, or an access to a result field of the task, which   *)
(* caller and handler share without a lock.                                *)
(***************************************************************************)
EXTENDS Naturals, Sequences, FiniteSets

CONSTANTS
  ReadTasks,    \* tasks of ReadDataByQueue: their context has a deadline
  WriteTasks,   \* tasks of WriteDataByQueue: context.Background()
  Queues,
  QueueOf,      \* Queue.getQueue: the queue that a task's sensor hashes to
  QueueLen,     \* capacity of taskCh
  MayClose,     \* whether SafeClose is called during the run
  NoTask

Tasks == ReadTasks \cup WriteTasks

ASSUME QueueAssumption ==
  /\ ReadTasks \cap WriteTasks = {}
  /\ QueueOf \in [Tasks -> Queues]
  /\ QueueLen \in Nat \ {0}
  /\ MayClose \in BOOLEAN
  /\ NoTask \notin Tasks

VARIABLES
  pc,        \* pc[t]: where the caller of DoTask(t) stands
  ctxDone,   \* the tasks whose context is done
  expire,    \* the tasks whose expire flag is set
  taskCh,    \* taskCh[q]: the buffered channel of queue q
  closing,   \* Queue.Close has been called
  closed,    \* the queues whose channel is closed
  wpc,       \* wpc[q]: where the worker of q stands
  cur,       \* cur[q]: the worker's loop variable
  handler,   \* handler[t]: the goroutine that runs handle(); startCh is closed
             \* unless it is "none", completeCh is closed when it is "done"
  result,    \* result[t]: what readDataLogic or writeDataLogic returned
  unstored,  \* unstored[t]: the fields that handle() has still to assign
  mem,       \* mem[t]: the data and err fields of the task
  reply,     \* reply[t]: what the caller has read of them
  timeouts,  \* timeouts[t]: increments of the timeout counter due to t
  crashed    \* a send on a closed channel has panicked the process

callerVars  == <<pc, ctxDone, expire, reply>>
queueVars   == <<taskCh, closing, closed>>
workerVars  == <<wpc, cur>>
handlerVars == <<handler, result, unstored>>
sharedVars  == <<mem, timeouts>>
vars == <<callerVars, queueVars, workerVars, handlerVars, sharedVars, crashed>>

Fields == {"data", "err"}
Datas  == {"nil", "bytes"}
Errs   == {"nil", "404", "300", "504", "io"}
Answers == [data : Datas, err : Errs]
Empty == [data |-> "nil", err |-> "nil"]

\* The fields in which a task of this kind leaves its answer.
FieldsOf(t) == IF t \in ReadTasks THEN Fields ELSE {"err"}

CallerPCs == {"idle", "insert", "waitStart", "waitDone", "timeout", "setErr", "collect", "returned"}
WorkerPCs == {"recv", "check", "start", "wait", "exit"}
HandlerPCs == {"none", "running", "store", "count", "finish", "done"}

InQueue(t) == \E i \in DOMAIN taskCh[QueueOf[t]] : taskCh[QueueOf[t]][i] = t

Init ==
  /\ pc = [t \in Tasks |-> "idle"]
  /\ ctxDone = {}
  /\ expire = {}
  /\ taskCh = [q \in Queues |-> <<>>]
  /\ closing = FALSE
  /\ closed = {}
  /\ wpc = [q \in Queues |-> "recv"]
  /\ cur = [q \in Queues |-> NoTask]
  /\ handler = [t \in Tasks |-> "none"]
  /\ result = [t \in Tasks |-> Empty]
  /\ unstored = [t \in Tasks |-> {}]
  /\ mem = [t \in Tasks |-> Empty]
  /\ reply = [t \in Tasks |-> [f \in FieldsOf(t) |-> "unread"]]
  /\ timeouts = [t \in Tasks |-> 0]
  /\ crashed = FALSE

------------------------------------------------------------------------------
(* The caller: ReadDataByQueue / WriteDataByQueue around Queue.DoTask.       *)

Goto(t, from, to) == ~crashed /\ pc[t] = from /\ pc' = [pc EXCEPT ![t] = to]

Submit(t) ==
  /\ Goto(t, "idle", "insert")
  /\ UNCHANGED <<ctxDone, expire, reply, queueVars, workerVars, handlerVars, sharedVars, crashed>>

\* The deadline of the ten-second context passes.  A write never has one.
CtxFires(t) ==
  /\ ~crashed /\ t \in ReadTasks \ ctxDone
  /\ pc[t] \notin {"idle", "returned"}
  /\ ctxDone' = ctxDone \cup {t}
  /\ UNCHANGED <<pc, expire, reply, queueVars, workerVars, handlerVars, sharedVars, crashed>>

InsertTimeout(t) ==
  /\ t \in ctxDone
  /\ Goto(t, "insert", "timeout")
  /\ UNCHANGED <<ctxDone, expire, reply, queueVars, workerVars, handlerVars, sharedVars, crashed>>

Insert(t) ==
  LET q == QueueOf[t] IN
  /\ q \notin closed /\ Len(taskCh[q]) < QueueLen
  /\ Goto(t, "insert", "waitStart")
  /\ taskCh' = [taskCh EXCEPT ![q] = Append(@, t)]
  /\ UNCHANGED <<ctxDone, expire, reply, closing, closed, workerVars, handlerVars, sharedVars, crashed>>

\* queue.taskCh <- task on a channel that close() has closed.
InsertPanic(t) ==
  /\ ~crashed /\ pc[t] = "insert" /\ QueueOf[t] \in closed
  /\ crashed' = TRUE
  /\ UNCHANGED <<callerVars, queueVars, workerVars, handlerVars, sharedVars>>

\* Mutant: the select has a default case, so the caller does not wait at all.
Mutant_StartTimeout(t) ==
  /\ Goto(t, "waitStart", "timeout")
  /\ expire' = expire \cup {t}
  /\ UNCHANGED <<ctxDone, reply, queueVars, workerVars, handlerVars, sharedVars, crashed>>

\* Mutant: the caller puts its task into the queue again.
Mutant_RetryOnTimeout(t) ==
  /\ t \in ctxDone
  /\ Goto(t, "waitStart", "insert")
  /\ UNCHANGED <<ctxDone, expire, reply, queueVars, workerVars, handlerVars, sharedVars, crashed>>

StartTimeout(t) ==
  /\ t \in ctxDone
  /\ Goto(t, "waitStart", "timeout")
  /\ expire' = expire \cup {t}
  /\ UNCHANGED <<ctxDone, reply, queueVars, workerVars, handlerVars, sharedVars, crashed>>

SeeStart(t) ==
  /\ handler[t] # "none"
  /\ Goto(t, "waitStart", "waitDone")
  /\ UNCHANGED <<ctxDone, expire, reply, queueVars, workerVars, handlerVars, sharedVars, crashed>>

DoneTimeout(t) ==
  /\ t \in ctxDone
  /\ Goto(t, "waitDone", "timeout")
  /\ UNCHANGED <<ctxDone, expire, reply, queueVars, workerVars, handlerVars, sharedVars, crashed>>

\* Mutant: the caller waits for the start a second time.
Mutant_SeeComplete(t) ==
  /\ handler[t] # "none"
  /\ Goto(t, "waitDone", "collect")
  /\ UNCHANGED <<ctxDone, expire, reply, queueVars, workerVars, handlerVars, sharedVars, crashed>>

SeeComplete(t) ==
  /\ handler[t] = "done"
  /\ Goto(t, "waitDone", "collect")
  /\ UNCHANGED <<ctxDone, expire, reply, queueVars, workerVars, handlerVars, sharedVars, crashed>>

\* Mutant: the counting is left to the handler.
Mutant_Timeout(t) ==
  /\ Goto(t, "timeout", IF mem[t].err = "nil" THEN "setErr" ELSE "collect")
  /\ UNCHANGED <<ctxDone, expire, reply, queueVars, workerVars, handlerVars, sharedVars, crashed>>

\* readTask.timeout tests err, and DoTask counts the timeout.
Timeout(t) ==
  /\ Goto(t, "timeout", IF mem[t].err = "nil" THEN "setErr" ELSE "collect")
  /\ timeouts' = [timeouts EXCEPT ![t] = @ + 1]
  /\ UNCHANGED <<ctxDone, expire, reply, queueVars, workerVars, handlerVars, mem, crashed>>

\* The assignment in readTask.timeout, on the strength of the earlier test.
SetErr(t) ==
  /\ Goto(t, "setErr", "collect")
  /\ mem' = [mem EXCEPT ![t].err = "504"]
  /\ UNCHANGED <<ctxDone, expire, reply, queueVars, workerVars, handlerVars, timeouts, crashed>>

\* return readTask.data, readTask.err: two loads in an order the compiler
\* chooses.  ReadDataByQueue's deferred cancel() then ends the context.
Collect(t, f) ==
  LET last == \A g \in FieldsOf(t) \ {f} : reply[t][g] # "unread" IN
  /\ Goto(t, "collect", IF last THEN "returned" ELSE "collect")
  /\ f \in FieldsOf(t) /\ reply[t][f] = "unread"
  /\ reply' = [reply EXCEPT ![t][f] = mem[t][f]]
  /\ ctxDone' = IF last /\ t \in ReadTasks THEN ctxDone \cup {t} ELSE ctxDone
  /\ UNCHANGED <<expire, queueVars, workerVars, handlerVars, sharedVars, crashed>>

Caller(t) ==
  \/ InsertTimeout(t) \/ Insert(t) \/ InsertPanic(t)
  \/ StartTimeout(t) \/ SeeStart(t)
  \/ DoneTimeout(t) \/ SeeComplete(t)
  \/ Timeout(t) \/ SetErr(t)
  \/ \E f \in Fields : Collect(t, f)

------------------------------------------------------------------------------
(* The worker: for task := range q.taskCh.                                   *)

WorkerGoto(q, from, to) == ~crashed /\ wpc[q] = from /\ wpc' = [wpc EXCEPT ![q] = to]

\* Mutant: the worker serves the newest task first.
Mutant_WRecv(q) ==
  LET n == Len(taskCh[q]) IN
  /\ n > 0
  /\ WorkerGoto(q, "recv", "check")
  /\ cur' = [cur EXCEPT ![q] = taskCh[q][n]]
  /\ taskCh' = [taskCh EXCEPT ![q] = SubSeq(@, 1, n - 1)]
  /\ UNCHANGED <<callerVars, closing, closed, handlerVars, sharedVars, crashed>>

WRecv(q) ==
  /\ taskCh[q] # <<>>
  /\ WorkerGoto(q, "recv", "check")
  /\ cur' = [cur EXCEPT ![q] = Head(taskCh[q])]
  /\ taskCh' = [taskCh EXCEPT ![q] = Tail(@)]
  /\ UNCHANGED <<callerVars, closing, closed, handlerVars, sharedVars, crashed>>

\* Mutant: the expire flag is not looked at.
Mutant_WCheck(q) ==
  /\ WorkerGoto(q, "check", "start")
  /\ UNCHANGED <<cur, callerVars, queueVars, handlerVars, sharedVars, crashed>>

\* if task.isExpire() { continue }
WCheck(q) ==
  /\ WorkerGoto(q, "check", IF cur[q] \in expire THEN "recv" ELSE "start")
  /\ UNCHANGED <<cur, callerVars, queueVars, handlerVars, sharedVars, crashed>>

\* task.start() closes startCh and the handler's goroutine is started.
WStart(q) ==
  /\ WorkerGoto(q, "start", "wait")
  /\ handler' = [handler EXCEPT ![cur[q]] = "running"]
  /\ UNCHANGED <<cur, callerVars, queueVars, result, unstored, sharedVars, crashed>>

\* Mutants: the worker does not wait, or waits for the handler alone.
Mutant_NoWait(q) == TRUE
Mutant_NoDeadline(q) == handler[cur[q]] = "done"

\* The worker gives up on a task whose context is done, running or not.
Released(q) == cur[q] \in ctxDone \/ handler[cur[q]] = "done"

WNext(q) ==
  /\ WorkerGoto(q, "wait", "recv")
  /\ Released(q)
  /\ UNCHANGED <<cur, callerVars, queueVars, handlerVars, sharedVars, crashed>>

\* Mutant: the worker leaves as soon as the channel is closed.
Mutant_WExit(q) ==
  /\ q \in closed
  /\ WorkerGoto(q, "recv", "exit")
  /\ UNCHANGED <<cur, callerVars, queueVars, handlerVars, sharedVars, crashed>>

WExit(q) ==
  /\ taskCh[q] = <<>> /\ q \in closed
  /\ WorkerGoto(q, "recv", "exit")
  /\ UNCHANGED <<cur, callerVars, queueVars, handlerVars, sharedVars, crashed>>

Worker(q) == WRecv(q) \/ WCheck(q) \/ WStart(q) \/ WNext(q) \/ WExit(q)

------------------------------------------------------------------------------
(* The handler: handle() and then complete().                                *)

HandlerGoto(t, from, to) ==
  ~crashed /\ handler[t] = from /\ handler' = [handler EXCEPT ![t] = to]

\* Mutant: the list is filled, as the loop over it expects.
Mutant_FilePathList == {"file"}

\* The files that readDataLogic looks into: the list is declared and never filled.
FilePathList == {}

\* readDataLogic: 504 if the context is done when it last looks; otherwise 300
\* for a range of more than ten minutes, the bytes of a file, or 404.
ReadResults(t) ==
  IF t \in ctxDone THEN {[data |-> "nil", err |-> "504"]}
  ELSE {[data |-> "nil", err |-> "300"],
        IF FilePathList # {} THEN [data |-> "bytes", err |-> "nil"]
                             ELSE [data |-> "nil", err |-> "404"]}

\* writeDataLogic: isFirst is the constant false, so createnewFile, which
\* could fail, is never called.
IsFirst == FALSE

WriteResults == {Empty} \cup (IF IsFirst THEN {[data |-> "nil", err |-> "io"]} ELSE {})

HRun(t) ==
  /\ HandlerGoto(t, "running", "store")
  /\ \E r \in IF t \in ReadTasks THEN ReadResults(t) ELSE WriteResults :
        result' = [result EXCEPT ![t] = r]
  /\ unstored' = [unstored EXCEPT ![t] = FieldsOf(t)]
  /\ UNCHANGED <<callerVars, queueVars, workerVars, sharedVars, crashed>>

\* t.data, t.err = ...: two stores in an order the compiler chooses.
HStore(t, f) ==
  /\ f \in unstored[t]
  /\ HandlerGoto(t, "store", IF unstored[t] = {f} THEN "count" ELSE "store")
  /\ unstored' = [unstored EXCEPT ![t] = @ \ {f}]
  /\ mem' = [mem EXCEPT ![t][f] = result[t][f]]
  /\ UNCHANGED <<callerVars, queueVars, workerVars, result, timeouts, crashed>>

\* handle() reads err back to decide whether the task counts as timed out.
HCount(t) ==
  /\ HandlerGoto(t, "count", "finish")
  /\ timeouts' = [timeouts EXCEPT ![t] = IF mem[t].err = "504" THEN @ + 1 ELSE @]
  /\ UNCHANGED <<callerVars, queueVars, workerVars, result, unstored, mem, crashed>>

HComplete(t) ==
  /\ HandlerGoto(t, "finish", "done")
  /\ UNCHANGED <<callerVars, queueVars, workerVars, result, unstored, sharedVars, crashed>>

Handler(t) ==
  \/ HRun(t) \/ HCount(t) \/ HComplete(t)
  \/ \E f \in Fields : HStore(t, f)

------------------------------------------------------------------------------
(* ArcVolumeCache.SafeClose -> Queue.Close: one goroutine closes each queue. *)

SafeClose ==
  /\ MayClose /\ ~closing /\ ~crashed
  /\ closing' = TRUE
  /\ UNCHANGED <<callerVars, taskCh, closed, workerVars, handlerVars, sharedVars, crashed>>

CloseQueue(q) ==
  /\ closing /\ q \notin closed /\ ~crashed
  /\ closed' = closed \cup {q}
  /\ UNCHANGED <<callerVars, taskCh, closing, workerVars, handlerVars, sharedVars, crashed>>

Next ==
  \/ \E t \in Tasks : Submit(t) \/ CtxFires(t) \/ Caller(t) \/ Handler(t)
  \/ \E q \in Queues : Worker(q) \/ CloseQueue(q)
  \/ SafeClose

Spec == Init /\ [][Next]_vars

\* Every goroutine runs on and every deadline passes.  Nothing is assumed of
\* the handler of a read: a slow disk may keep it for ever.
Fairness ==
  /\ \A t \in Tasks : WF_vars(Caller(t))
  /\ \A t \in ReadTasks : WF_vars(CtxFires(t))
  /\ \A t \in WriteTasks : WF_vars(Handler(t))
  /\ \A q \in Queues : WF_vars(Worker(q)) /\ WF_vars(CloseQueue(q))

FairSpec == Spec /\ Fairness

------------------------------------------------------------------------------
(* Properties.                                                               *)

TypeOK ==
  /\ pc \in [Tasks -> CallerPCs]
  /\ ctxDone \subseteq ReadTasks
  /\ expire \subseteq ctxDone
  /\ taskCh \in [Queues -> Seq(Tasks)]
  /\ closing \in BOOLEAN /\ closed \subseteq Queues
  /\ wpc \in [Queues -> WorkerPCs]
  /\ cur \in [Queues -> Tasks \cup {NoTask}]
  /\ handler \in [Tasks -> HandlerPCs]
  /\ result \in [Tasks -> Answers]
  /\ unstored \in [Tasks -> SUBSET Fields]
  /\ mem \in [Tasks -> Answers]
  /\ DOMAIN reply = Tasks /\ \A t \in Tasks : reply[t] \in [FieldsOf(t) -> {"unread"} \cup Datas \cup Errs]
  /\ timeouts \in [Tasks -> Nat]
  /\ crashed \in BOOLEAN

Active(t) == handler[t] \notin {"none", "done"}

\* Of the handlers that run at once for one queue, at most one belongs to a
\* task whose context is not done; so writes of one sensor never overlap.
\* The worker starts a goroutine per task and only waits for it in a select
\* (queue.go:117-132).
LiveHandlersExclusive ==
  \A t, u \in Tasks :
     t # u /\ QueueOf[t] = QueueOf[u] /\ Active(t) /\ Active(u) => t \in ctxDone \/ u \in ctxDone

\* A task is in its channel or in the worker's hands at most once and only
\* before its handler starts: closing startCh a second time would panic.
HeldOnce ==
  \A q \in Queues :
     /\ \A i \in DOMAIN taskCh[q] :
           /\ handler[taskCh[q][i]] = "none"
           /\ \A j \in DOMAIN taskCh[q] : taskCh[q][i] = taskCh[q][j] => i = j
           /\ wpc[q] \in {"check", "start"} => taskCh[q][i] # cur[q]
     /\ wpc[q] \in {"check", "start"} => handler[cur[q]] = "none"

\* A caller that gives up while its task is still in the channel may rely on
\* the task never being run: the expire flag is seen by the worker's check.
GivenUpIsSkipped == \A t \in Tasks : [](InQueue(t) /\ t \in expire => [](handler[t] = "none"))

\* ReadDataByQueue returns data or an error, never neither, although a late
\* handler may still overwrite both fields while the caller reads them.
ReplyDefinite ==
  \A t \in ReadTasks :
     pc[t] = "returned" => reply[t].data # "nil" \/ reply[t].err # "nil"

\* A caller whose context is not done when it returns, and so every writer,
\* returns exactly what its own, completed, handler computed.
OnTimeReply ==
  [][\A t \in Tasks : pc[t] # "returned" /\ pc'[t] = "returned" /\ t \notin ctxDone
        => handler[t] = "done" /\ \A f \in FieldsOf(t) : reply'[t][f] = result[t][f]]_vars

\* A caller that is told of a timeout has been counted (queue_metrics.go:58),
\* by itself or by its handler, although both read and write err unlocked; and
\* a task is counted by each of them at most once.
TimeoutIsCounted ==
  \A t \in Tasks :
     /\ pc[t] = "returned" /\ reply[t].err = "504" => timeouts[t] >= 1
     /\ timeouts[t] <= 2

\* DoTask returns to every caller, even when the handlers of reads hang,
\* unless the process dies of a send on a closed channel.
EveryCallReturns == \A t \in Tasks : pc[t] = "insert" ~> pc[t] = "returned" \/ crashed

\* A task that was accepted is started or has been given up, also when the
\* queue is closed behind it: close lets the worker drain the channel.
AcceptedIsServed ==
  \A t \in Tasks : InQueue(t) ~> handler[t] # "none" \/ t \in expire \/ crashed

------------------------------------------------------------------------------
(* The queues implement SerialExecutor.                                      *)

absLine == [q \in Queues |->
              (IF wpc[q] \in {"check", "start"} THEN <<cur[q]>> ELSE <<>>) \o taskCh[q]]

absServing == [q \in Queues |-> IF wpc[q] = "wait" THEN cur[q] ELSE NoTask]

Waiting(t) == InQueue(t) \/ (cur[QueueOf[t]] = t /\ wpc[QueueOf[t]] \in {"check", "start"})

absState == [t \in Tasks |->
  IF handler[t] = "done" THEN "finished"
  ELSE IF Active(t) THEN "running"
  ELSE IF Waiting(t) THEN "waiting"
  ELSE IF t \in expire THEN "dropped" ELSE "new"]

Abstract == INSTANCE SerialExecutor
              WITH line <- absLine, serving <- absServing, late <- ctxDone, state <- absState

\* Tasks of a queue are served in the order of acceptance and one at a time,
\* but for those whose deadline has passed.
ImplementsSerialExecutor == Abstract!Spec
==============================================================================
