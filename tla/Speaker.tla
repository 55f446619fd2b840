------------------------------- MODULE Speaker -------------------------------
(***************************************************************************)
(* What the robot's loudspeaker promises to the people around it: at any   *)
(* moment it says at most one sentence, a sentence that is being said is   *)
(* never started over, and a different decision replaces it at once        *)
(* (module documentation of announcement_player.py, lines 15-17).          *)
(***************************************************************************)
EXTENDS Naturals

CONSTANTS
    Codes,   \* the announcement codes that have a recording
    Silent   \* the value of speaking between two sentences

VARIABLES
    speaking,   \* the code being said, or Silent
    sentences   \* how many sentences have been started so far

speakerVars == <<speaking, sentences>>

Init ==
    /\ speaking = Silent
    /\ sentences = 0

\* A sentence starts, from silence or in the place of another decision.
Speak(k) ==
    /\ speaking # k
    /\ speaking' = k
    /\ sentences' = sentences + 1

\* The sentence ends, or is cut short.
FallSilent ==
    /\ speaking # Silent
    /\ speaking' = Silent
    /\ UNCHANGED sentences

Next == FallSilent \/ \E k \in Codes : Speak(k)

Spec == Init /\ [][Next]_speakerVars
==============================================================================
