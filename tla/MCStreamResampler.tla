-------------------------- MODULE MCStreamResampler --------------------------
(* Instances of StreamResampler for TLC. *)
EXTENDS StreamResampler
=============================================================================
