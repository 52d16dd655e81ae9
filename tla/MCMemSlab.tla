----------------------------- MODULE MCMemSlab -----------------------------
(* Three clients, one of which waits forever, on a slab of two blocks: two *)
(* clients can be in the wait at once while the third frees.               *)
EXTENDS MemSlab
=============================================================================
