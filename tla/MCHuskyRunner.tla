---------------------------- MODULE MCHuskyRunner ----------------------------
(* Instances of HuskyRunner for TLC. *)
EXTENDS HuskyRunner
=============================================================================
