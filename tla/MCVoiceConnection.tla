-------------------------- MODULE MCVoiceConnection --------------------------
(* Instances of VoiceConnection for TLC. *)
EXTENDS VoiceConnection
=============================================================================
