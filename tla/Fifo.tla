-------------------------------- MODULE Fifo --------------------------------
(***************************************************************************)
(* What the streams of the I2S driver expect of their ring buffer: a       *)
(* bounded first-in first-out queue of memory blocks.                      *)
(***************************************************************************)
EXTENDS Naturals, Sequences

CONSTANTS Items,    \* what is queued
          Capacity  \* how many of them

VARIABLES queue,    \* oldest item first
          got       \* what queue_get last returned

vars == <<queue, got>>

NoItem == "-ENOMEM"

Init == queue = <<>> /\ got = NoItem

Put(x) ==
  /\ Len(queue) < Capacity
  /\ queue' = Append(queue, x)
  /\ UNCHANGED got

Get ==
  /\ queue # <<>>
  /\ got' = Head(queue)
  /\ queue' = Tail(queue)

GetNone ==
  /\ queue = <<>>
  /\ got' = NoItem
  /\ UNCHANGED queue

Next == (\E x \in Items : Put(x)) \/ Get \/ GetNone

Spec == Init /\ [][Next]_vars
=============================================================================
