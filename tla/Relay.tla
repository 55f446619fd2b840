-------------------------------- MODULE Relay --------------------------------
(***************************************************************************)
(* What a stream that may lose promises: each stream of the gesture bridge *)
(* and the scans of the lidar driver.  Frames may be lost, but one that    *)
(* comes out was put in, comes out once, and never after a younger one.    *)
(***************************************************************************)
EXTENDS Naturals, Sequences

VARIABLES
    frame,   \* the frames put in so far are 1 .. frame
    relayed  \* the frames that came out

relayVars == <<frame, relayed>>

Init ==
    /\ frame = 0
    /\ relayed = <<>>

Put ==
    /\ frame' = frame + 1
    /\ UNCHANGED relayed

\* f is younger than everything that came out before.
Deliver(f) ==
    /\ relayed # <<>> => relayed[Len(relayed)] < f
    /\ relayed' = Append(relayed, f)
    /\ UNCHANGED frame

Next == Put \/ \E f \in 1 .. frame : Deliver(f)

Spec == Init /\ [][Next]_relayVars
==============================================================================
