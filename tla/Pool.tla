-------------------------------- MODULE Pool --------------------------------
(***************************************************************************)
(* What the drivers expect of a memory slab: a pool that lends a block to  *)
(* one client at a time and knows how many it has lent.                    *)
(***************************************************************************)
EXTENDS Naturals

CONSTANT Blocks

VARIABLES up,    \* the pool is set up
          lent,  \* the blocks in use
          used,  \* how many they are
          most   \* and how many there were at most

vars == <<up, lent, used, most>>

Init == up = FALSE /\ lent = {} /\ used = 0 /\ most = 0

SetUp ==
  /\ ~up
  /\ up' = TRUE
  /\ used' = 0
  /\ most' = 0
  /\ UNCHANGED lent

(* The memory of the blocks is given back, so none of them is in use. *)
TearDown ==
  /\ up
  /\ lent = {}
  /\ up' = FALSE
  /\ UNCHANGED <<lent, used, most>>

Alloc(b) ==
  /\ up
  /\ b \notin lent
  /\ lent' = lent \cup {b}
  /\ used' = used + 1
  /\ most' = IF used + 1 > most THEN used + 1 ELSE most
  /\ UNCHANGED up

Free(b) ==
  /\ up
  /\ b \in lent
  /\ lent' = lent \ {b}
  /\ used' = used - 1
  /\ UNCHANGED <<up, most>>

Next == SetUp \/ TearDown \/ \E b \in Blocks : Alloc(b) \/ Free(b)

Spec == Init /\ [][Next]_vars
=============================================================================
