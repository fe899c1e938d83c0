------------------------------- MODULE MCIngest -------------------------------
(* An instance of Ingest for TLC: two sensors share a worker whose channels   *)
(* hold one entry each.                                                       *)
EXTENDS Ingest

CONSTANTS s1, s2, w1

MCSensors == {s1, s2}
MCOneSensor == {s1}
MCWorkers == {w1}
MCWorkerOf == [s \in Sensors |-> w1]
===============================================================================
