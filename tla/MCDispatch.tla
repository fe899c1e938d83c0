----------------------------- MODULE MCDispatch ------------------------------
(* An instance of Dispatch for TLC: a stream with two sensors and, sometimes,  *)
(* no key, and a second connection of the first sensor; channels of one entry. *)
EXTENDS Dispatch

CONSTANTS s1, s2, k1, k2, w1, w2

MCStreams == {s1, s2}
MCKeys == {k1, k2}
MCWorkers == {w1, w2}
MCKeysOf == [st \in MCStreams |-> IF st = s1 THEN {k1, k2} ELSE {k1, NoKey}]
MCWorkerOf == [k \in MCKeys |-> IF k = k1 THEN w1 ELSE w2]

Good(n) == [data |-> n, ok |-> TRUE]
Bad == [data |-> 1, ok |-> FALSE]
MCMaxMessages == [st \in MCStreams |-> IF st = s1 THEN 2 ELSE 1]

MCContents == {<<Good(1)>>, <<Good(2), Good(0), Bad, Good(1)>>}
==============================================================================
