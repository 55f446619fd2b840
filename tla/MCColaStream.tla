---------------------------- MODULE MCColaStream ----------------------------
(* Instances of ColaStream for TLC. *)
EXTENDS ColaStream

\* A short datagram, one whose payload looks like the beginning of a longer frame,
\* and one that looks like the beginning of a frame that cannot be.
Lookalikes == {<<1>>, <<STX, STX, 8>>, <<STX, STX, 12>>}
=============================================================================
