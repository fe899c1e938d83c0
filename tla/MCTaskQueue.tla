----------------------------- MODULE MCTaskQueue -----------------------------
(* An instance of TaskQueue for TLC: a read and two writes of sensors that    *)
(* hash to one queue compete for the places in its channel.                   *)
EXTENDS TaskQueue

CONSTANTS q1, r1, w1, w2

MCReads == {r1}
MCWrites == {w1, w2}
MCOneWrite == {w1}
MCQueues == {q1}
MCQueueOf == [t \in Tasks |-> q1]
==============================================================================
