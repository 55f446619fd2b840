--------------------------- MODULE MCGestureBridge ---------------------------
(* Instances of GestureBridge for TLC. *)
EXTENDS GestureBridge
=============================================================================
