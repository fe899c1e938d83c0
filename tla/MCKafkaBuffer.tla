---------------------------- MODULE MCKafkaBuffer ----------------------------
(* An instance of KafkaBuffer for TLC: one sensor, as sensors share nothing   *)
(* but the order in which a flusher visits them.  Two frames in a row have    *)
(* the same millisecond, and a later one an earlier.  MCKeys has two sensors. *)
EXTENDS KafkaBuffer

CONSTANTS k1, k2

MCKeys == {k1, k2}
MCOneKey == {k1}
MCTsOf == [n \in 1 .. MaxFrames |-> CASE n = 1 -> 2 [] n = 3 -> 1 [] OTHER -> n]
==============================================================================
