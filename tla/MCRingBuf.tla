----------------------------- MODULE MCRingBuf -----------------------------
(* A small ring buffer, for model checking. *)
EXTENDS RingBuf
=============================================================================
