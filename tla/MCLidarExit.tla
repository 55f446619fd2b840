---------------------------- MODULE MCLidarExit ----------------------------
(* Instances of LidarExit for TLC. *)
EXTENDS LidarExit
=============================================================================
