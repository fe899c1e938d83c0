--------------------------- MODULE SerialExecutor ---------------------------
(***************************************************************************)
(* What the read/write queues of arc_volume promise to the rest of the     *)
(* service, without channels, select statements or worker steps: the tasks *)
(* that hash to one queue are served in the order in which they were       *)
(* accepted and one at a time, except that a task whose deadline has       *)
(* passed no longer keeps the queue busy and may be dropped unserved.      *)
(* TaskQueue implements this specification.                                *)
(***************************************************************************)
EXTENDS Sequences, FiniteSets

CONSTANTS Tasks, Queues, QueueOf, NoTask

VARIABLES line,     \* line[q]: the tasks accepted by q and not yet begun
          serving,  \* serving[q]: the task that keeps q busy, or NoTask
          late,     \* the tasks whose deadline has passed
          state     \* how far each task has come

vars == <<line, serving, late, state>>

States == {"new", "waiting", "running", "finished", "dropped"}

Init ==
  /\ line = [q \in Queues |-> <<>>]
  /\ serving = [q \in Queues |-> NoTask]
  /\ late = {}
  /\ state = [t \in Tasks |-> "new"]

Accept(t) ==
  /\ state[t] = "new"
  /\ line' = [line EXCEPT ![QueueOf[t]] = Append(@, t)]
  /\ state' = [state EXCEPT ![t] = "waiting"]
  /\ UNCHANGED <<serving, late>>

Deadline(t) ==
  /\ t \notin late
  /\ late' = late \cup {t}
  /\ UNCHANGED <<line, serving, state>>

Take(q, outcome) ==
  /\ line[q] # <<>>
  /\ line' = [line EXCEPT ![q] = Tail(@)]
  /\ state' = [state EXCEPT ![Head(line[q])] = outcome]
  /\ UNCHANGED late

Begin(q) ==
  /\ serving[q] = NoTask
  /\ Take(q, "running")
  /\ serving' = [serving EXCEPT ![q] = Head(line[q])]

Drop(q) ==
  /\ serving[q] = NoTask
  /\ line[q] # <<>> /\ Head(line[q]) \in late
  /\ Take(q, "dropped")
  /\ UNCHANGED serving

Finish(t) ==
  /\ state[t] = "running"
  /\ state' = [state EXCEPT ![t] = "finished"]
  /\ UNCHANGED <<line, serving, late>>

Free(q) ==
  /\ serving[q] # NoTask
  /\ state[serving[q]] = "finished" \/ serving[q] \in late
  /\ serving' = [serving EXCEPT ![q] = NoTask]
  /\ UNCHANGED <<line, late, state>>

Next ==
  \/ \E t \in Tasks : Accept(t) \/ Deadline(t) \/ Finish(t)
  \/ \E q \in Queues : Begin(q) \/ Drop(q) \/ Free(q)

Spec == Init /\ [][Next]_vars
=============================================================================
