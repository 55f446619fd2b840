----------------------------- MODULE Resampling ------------------------------
(***************************************************************************)
(* What resampling a stream means: the filter sees the whole stream, and   *)
(* is read off every InRate / OutRate samples, from the first sample on.   *)
(* How the stream was cut into chunks does not matter.                     *)
(*                                                                         *)
(* Sample k of the stream is the number k, and silence, which came before, *)
(* is 0: a filtered value is the window of samples it is computed from.    *)
(* Positions are in units of 1 / OutRate.                                  *)
(***************************************************************************)
EXTENDS Integers, Sequences

CONSTANTS InRate, OutRate, Taps

VARIABLES heard, said

resamplingVars == <<heard, said>>

\* The filtered value at sample k.
Filtered(k) == [j \in 1 .. Taps |-> IF k - Taps + j > 0 THEN k - Taps + j ELSE 0]

\* The value at a position: a filtered value, or one between two of them.
ValueAt(p) ==
    LET k == p \div OutRate
    IN  IF p % OutRate = 0
          THEN <<Filtered(k)>>
          ELSE <<Filtered(k), Filtered(k + 1), p % OutRate>>

Position(j) == OutRate + (j - 1) * InRate

\* How many positions are before the last sample.
Count(h) == IF h <= 1 THEN 0 ELSE ((h - 1) * OutRate - 1) \div InRate + 1

Init == heard = 0 /\ said = <<>>

\* More samples are heard, and all that can be said is said.
Hear ==
    /\ heard' \in Nat
    /\ heard' > heard
    /\ said' = [j \in 1 .. Count(heard') |-> ValueAt(Position(j))]

Next == Hear

Spec == Init /\ [][Next]_resamplingVars
==============================================================================
