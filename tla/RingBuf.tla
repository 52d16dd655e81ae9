------------------------------ MODULE RingBuf ------------------------------
(***************************************************************************)
(* The ring buffer of hal/drivers/i2s/i2s-python.c, which implements Fifo: *)
(* an array of RingLen entries, of which one always stays unused, a head   *)
(* where queue_put writes and a tail where queue_get reads.  Interrupts are*)
(* off in each of the three functions, so each is one step.                *)
(***************************************************************************)
EXTENDS Naturals, Sequences

CONSTANTS Items,   \* the memory blocks
          RingLen  \* ARRAY_SIZE(rx_ring_buf), or of tx_ring_buf

ASSUME RingLenAssumption == RingLen \in Nat /\ RingLen > 1

VARIABLES buf, head, tail,  \* struct ring_buf
          got               \* what queue_get last returned

ring == <<buf, head, tail, got>>

NoItem == "-ENOMEM"
NULL == "NULL"
Slots == 0..(RingLen - 1)

RingInit ==
  /\ buf = [s \in Slots |-> NULL]
  /\ head = 0
  /\ tail = 0
  /\ got = NoItem

MODULO_INC(val, max) == IF val + 1 < max THEN val + 1 ELSE 0

queue_is_empty == tail = head

(* Mutant: every entry may be used. *)
queue_put_NoFullTest(x) ==
  /\ buf' = [buf EXCEPT ![head] = x]
  /\ head' = MODULO_INC(head, RingLen)
  /\ UNCHANGED <<tail, got>>

(* queue_put (which returns -ENOMEM and changes nothing when it is full). *)
queue_put(x) ==
  /\ MODULO_INC(head, RingLen) # tail
  /\ buf' = [buf EXCEPT ![head] = x]
  /\ head' = MODULO_INC(head, RingLen)
  /\ UNCHANGED <<tail, got>>

(* queue_get with an entry to return. *)
queue_get ==
  /\ ~queue_is_empty
  /\ got' = buf[tail]
  /\ tail' = MODULO_INC(tail, RingLen)
  /\ UNCHANGED <<buf, head>>

(* queue_get on an empty buffer. *)
queue_get_none ==
  /\ queue_is_empty
  /\ got' = NoItem
  /\ UNCHANGED <<buf, head, tail>>

RingNext == (\E x \in Items : queue_put(x)) \/ queue_get \/ queue_get_none

RingSpec == RingInit /\ [][RingNext]_ring

-----------------------------------------------------------------------------
(* Properties *)

(* The entries in use, and the one at distance i from the tail. *)
Used == IF head >= tail THEN head - tail ELSE head + RingLen - tail
Slot(i) == IF tail + i < RingLen THEN tail + i ELSE tail + i - RingLen

(* The queue the ring buffer stands for. *)
Contents == [i \in 1..Used |-> buf[Slot(i - 1)]]

(* Every variable keeps its type: a pointer that was never stored is not   *)
(* returned.                                                               *)
RingTypeOK ==
  /\ buf \in [Slots -> Items \cup {NULL}]
  /\ head \in Slots
  /\ tail \in Slots
  /\ got \in Items \cup {NoItem}

F == INSTANCE Fifo WITH Capacity <- RingLen - 1, queue <- Contents

(* queue_put and queue_get implement a first-in first-out queue of         *)
(* CONFIG_I2S_PYTHON_RX_BLOCK_COUNT (or TX) blocks, also where head and    *)
(* tail wrap around: nothing is lost, repeated or overtaken, and the queue *)
(* is full only when it holds that many.                                   *)
IsFifo == F!Spec
=============================================================================
