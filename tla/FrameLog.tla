------------------------------ MODULE FrameLog -------------------------------
(***************************************************************************)
(* What the worker promises of the frames of each sensor, without its      *)
(* buffers, channels and timeouts: the frames that arrived are written in  *)
(* batches of consecutive frames, in order and without a gap.  The last    *)
(* frame of a batch may be written once more, as the first of the next.    *)
(***************************************************************************)
EXTENDS Naturals, Sequences, SequencesExt

CONSTANT Sensors

VARIABLES
  received,  \* received[s]: how many frames of s have arrived
  written    \* written[s]: the batches of s written so far

Init == received = [s \in Sensors |-> 0] /\ written = [s \in Sensors |-> <<>>]

\* Whether a batch that begins with frame lo may follow those written.
Continues(batches, lo) ==
  \/ batches = <<>> /\ lo = 1
  \/ batches # <<>> /\ lo = Last(Last(batches)) + 1
  \/ batches # <<>> /\ lo = Last(Last(batches)) /\ Len(Last(batches)) > 1

Batch(lo, hi) == [i \in 1 .. (hi + 1 - lo) |-> lo + i - 1]

Arrive(s) ==
  /\ received' = [received EXCEPT ![s] = @ + 1]
  /\ UNCHANGED written

Write(s) ==
  /\ \E lo, hi \in 1 .. received[s] :
        /\ lo <= hi /\ Continues(written[s], lo)
        /\ written' = [written EXCEPT ![s] = Append(@, Batch(lo, hi))]
  /\ UNCHANGED received

Next == \E s \in Sensors : Arrive(s) \/ Write(s)

Spec == Init /\ [][Next]_<<received, written>>
==============================================================================
