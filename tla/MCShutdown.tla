----------------------------- MODULE MCShutdown ------------------------------
(* An instance of Shutdown for TLC: one sensor, or two, on one worker or two.    *)
EXTENDS Shutdown

CONSTANTS s1, s2, w1, w2

MCSensors == {s1, s2}
MCOneSensor == {s1}
MCWorkers == {w1, w2}
MCOneWorker == {w1}
MCWorkerOf == [s \in Sensors |-> IF s = s1 THEN w1 ELSE w2]
MCSameWorker == [s \in Sensors |-> w1]
==============================================================================
