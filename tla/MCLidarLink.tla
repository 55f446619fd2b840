----------------------------- MODULE MCLidarLink -----------------------------
(* Instances of LidarLink for TLC. *)
EXTENDS LidarLink
=============================================================================
