------------------------------- MODULE MCHciH4 -------------------------------
(* Streams of up to MaxPackets packets of each type and length. *)
EXTENDS HciH4
=============================================================================
