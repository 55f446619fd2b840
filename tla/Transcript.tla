------------------------------ MODULE Transcript ------------------------------
(***************************************************************************)
(* What the voice node promises: within a session with the speech server   *)
(* every completed segment is transcribed once and in order, none skipped, *)
(* and every transcription is answered by one classification, in the same  *)
(* order.                                                                  *)
(***************************************************************************)
EXTENDS Naturals, Sequences

CONSTANTS
    Sessions,  \* the sessions with the speech server, in order
    Segments   \* the numbers a session gives its segments, from 1

VARIABLES
    heard,     \* the segments transcribed, as <<session, segment>>
    answered   \* the segments classified

transcriptVars == <<heard, answered>>

Init ==
    /\ heard = <<>>
    /\ answered = <<>>

\* Segment i is the next of session s.
Continues(s, i) ==
    IF \E k \in 1 .. Len(heard) : heard[k][1] = s
      THEN heard[Len(heard)] = <<s, i - 1>>
      ELSE i = 1

Hear(s, i) ==
    /\ Continues(s, i)
    /\ heard' = Append(heard, <<s, i>>)
    /\ UNCHANGED answered

Answer ==
    /\ Len(answered) < Len(heard)
    /\ answered' = Append(answered, heard[Len(answered) + 1])
    /\ UNCHANGED heard

Next == Answer \/ \E s \in Sessions, i \in Segments : Hear(s, i)

Spec == Init /\ [][Next]_transcriptVars
==============================================================================
