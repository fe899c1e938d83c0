------------------------------ MODULE FramePipe ------------------------------
(***************************************************************************)
(* What the way of a frame from its gRPC stream to its worker promises:    *)
(* a line per stream and sensor, which frames leave in the order in which  *)
(* they have joined it.                                                    *)
(***************************************************************************)
EXTENDS Naturals, Sequences

CONSTANTS
  Lines,    \* one per stream and sensor
  Batches   \* the sequences of frames that may join a line together

VARIABLES
  line,   \* line[p]: the frames under way
  done    \* done[p]: the frames that a worker has been given

vars == <<line, done>>

Init == line = [p \in Lines |-> <<>>] /\ done = [p \in Lines |-> <<>>]

Join(p) ==
  \E batch \in Batches : line' = [line EXCEPT ![p] = @ \o batch] /\ UNCHANGED done

\* Frames that have joined together may leave together.
Leave(p) ==
  \E n \in 1 .. Len(line[p]) :
     /\ done' = [done EXCEPT ![p] = @ \o SubSeq(line[p], 1, n)]
     /\ line' = [line EXCEPT ![p] = SubSeq(@, n + 1, Len(@))]

Next == \E p \in Lines : Join(p) \/ Leave(p)

Spec == Init /\ [][Next]_vars
==============================================================================
