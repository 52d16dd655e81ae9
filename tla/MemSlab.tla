------------------------------ MODULE MemSlab ------------------------------
(***************************************************************************)
(* The fixed-size block allocator of kernel/mem_slab.c: one slab, its      *)
(* LIFO free list, its usage counters, and the one-slot message queue on   *)
(* which clients wait for a block.                                         *)
(*                                                                         *)
(* Everything between local_irq_save and local_irq_restore is one step: the*)
(* core is a single hart, so nothing runs in between.  mem_slab_alloc opens*)
(* the interrupts again before it calls osMessageQueueGet, so the decision *)
(* to wait and the wait itself are two steps, and any client may run in    *)
(* the gap.  The message queue is FreeRTOS code (external): a receiver that*)
(* finds the queue empty blocks; a send stores the message and makes one   *)
(* blocked receiver ready (which one depends on the priorities), but that  *)
(* receiver takes the message only when it runs.                           *)
(***************************************************************************)
EXTENDS Naturals, Sequences, FiniteSets

CONSTANTS Clients,    \* the tasks that allocate from the slab
          Forever,    \* those of them that wait with osWaitForever
          NumBlocks   \* slab->info.num_blocks

ASSUME ForeverAssumption == Forever \subseteq Clients
ASSUME NumBlocksAssumption == NumBlocks \in Nat \ {0}

Blocks == 1..NumBlocks   \* block b is the address buffer + (b-1) * block_size

VARIABLES
  ready,      \* between mem_slab_init and mem_slab_deinit
  free_list,  \* the linked list of free blocks, head first
  num_used,   \* slab->info.num_used
  max_used,   \* slab->info.max_used
  wait_q,     \* the messages in the wait queue
  pc,         \* where each client is in mem_slab_alloc
  held        \* the blocks given out and not yet freed

vars == <<ready, free_list, num_used, max_used, wait_q, pc, held>>

(***************************************************************************)
(* The program points of a client.                                         *)
(*   idle     outside the allocator                                        *)
(*   gap      saw an empty free list, interrupts on again, not yet in      *)
(*            osMessageQueueGet                                            *)
(*   blocked  on the event list of the queue                               *)
(*   woken    made ready by a send                                         *)
(*   expired  made ready by its timeout                                    *)
(***************************************************************************)
Points == {"idle", "gap", "blocked", "woken", "expired"}

(* The capacity of the wait queue: osMessageQueueNew(1, ...). *)
WaitQueueSize == 1

(* The tasks osMessageQueueGetNumberOfTasksWaitingToReceive counts. *)
Waiting == {c \in Clients : pc[c] = "blocked"}

-----------------------------------------------------------------------------

(* create_free_list: the blocks in address order. *)
create_free_list == [i \in 1..NumBlocks |-> i]

Init ==
  /\ ready = FALSE
  /\ free_list = <<>>
  /\ num_used = 0
  /\ max_used = 0
  /\ wait_q = <<>>
  /\ pc = [c \in Clients |-> "idle"]
  /\ held = {}

(* mem_slab_init, and memory_slab_init for a slab defined statically. *)
mem_slab_init ==
  /\ ~ready
  /\ ready' = TRUE
  /\ free_list' = create_free_list
  /\ num_used' = 0
  /\ max_used' = 0
  /\ wait_q' = <<>>
  /\ UNCHANGED <<pc, held>>

(* mem_slab_deinit and delete_wait_q, past their two assertions.  Deleting *)
(* a queue that tasks wait on is undefined, so the owner calls it when no  *)
(* client is inside osMessageQueueGet; a client in the gap is possible.    *)
mem_slab_deinit ==
  /\ ready
  /\ num_used = 0
  /\ wait_q = <<>>
  /\ \A c \in Clients : pc[c] \in {"idle", "gap"}
  /\ ready' = FALSE
  /\ UNCHANGED <<free_list, num_used, max_used, wait_q, pc, held>>

(* mem_slab_alloc with a block on the free list. *)
AllocTake(c) ==
  /\ ready
  /\ pc[c] = "idle"
  /\ free_list # <<>>
  /\ held' = held \cup {Head(free_list)}
  /\ free_list' = Tail(free_list)
  /\ num_used' = num_used + 1
  /\ max_used' = IF num_used + 1 > max_used THEN num_used + 1 ELSE max_used
  /\ UNCHANGED <<ready, wait_q, pc>>

(* mem_slab_alloc with a timeout and no free block: interrupts go back on. *)
(* (With timeout 0 it returns -ENOMEM and changes nothing.)                *)
AllocGap(c) ==
  /\ ready
  /\ pc[c] = "idle"
  /\ free_list = <<>>
  /\ pc' = [pc EXCEPT ![c] = "gap"]
  /\ UNCHANGED <<ready, free_list, num_used, max_used, wait_q, held>>

(* Mutant: a block received from the queue is counted a second time. *)
Receive_Recounts(c) ==
  /\ ready
  /\ pc[c] \in {"gap", "woken", "expired"}
  /\ wait_q # <<>>
  /\ held' = held \cup {Head(wait_q)}
  /\ wait_q' = Tail(wait_q)
  /\ pc' = [pc EXCEPT ![c] = "idle"]
  /\ num_used' = num_used + 1
  /\ UNCHANGED <<ready, free_list, max_used>>

(* osMessageQueueGet takes the block that was put in the queue. *)
Receive(c) ==
  /\ ready
  /\ pc[c] \in {"gap", "woken", "expired"}
  /\ wait_q # <<>>
  /\ held' = held \cup {Head(wait_q)}
  /\ wait_q' = Tail(wait_q)
  /\ pc' = [pc EXCEPT ![c] = "idle"]
  /\ UNCHANGED <<ready, free_list, num_used, max_used>>

(* osMessageQueueGet finds the queue empty and joins its event list. *)
Block(c) ==
  /\ ready
  /\ pc[c] \in {"gap", "woken"}
  /\ wait_q = <<>>
  /\ pc' = [pc EXCEPT ![c] = "blocked"]
  /\ UNCHANGED <<ready, free_list, num_used, max_used, wait_q, held>>

(* The tick ends a timed wait: the task leaves the event list. *)
Expire(c) ==
  /\ c \notin Forever
  /\ pc[c] = "blocked"
  /\ pc' = [pc EXCEPT ![c] = "expired"]
  /\ UNCHANGED <<ready, free_list, num_used, max_used, wait_q, held>>

(* -ETIME: the wait is over and the queue is still empty. *)
GiveUp(c) ==
  /\ pc[c] = "expired"
  /\ wait_q = <<>>
  /\ pc' = [pc EXCEPT ![c] = "idle"]
  /\ UNCHANGED <<ready, free_list, num_used, max_used, wait_q, held>>

(* -EINVAL: slab->wait_q is NULL when it is passed to osMessageQueueGet. *)
QueueGone(c) ==
  /\ ~ready
  /\ pc[c] = "gap"
  /\ pc' = [pc EXCEPT ![c] = "idle"]
  /\ UNCHANGED <<ready, free_list, num_used, max_used, wait_q, held>>

(* Mutant: the count of waiting tasks is not consulted. *)
HandOver_NoWaiterTest == free_list = <<>> /\ Len(wait_q) < WaitQueueSize

(* The test of mem_slab_free that decides for the direct hand-over. *)
HandOver == free_list = <<>> /\ Waiting # {} /\ Len(wait_q) < WaitQueueSize

(* osMessageQueuePut: the message is stored, and one waiting task woken. *)
osMessageQueuePut(b) ==
  /\ wait_q' = Append(wait_q, b)
  /\ IF Waiting = {} THEN UNCHANGED pc
     ELSE \E w \in Waiting : pc' = [pc EXCEPT ![w] = "woken"]

(* Mutant: the hand-over counts the block as returned. *)
FreeToWaiter_Uncounts(b) ==
  /\ b \in held
  /\ HandOver
  /\ held' = held \ {b}
  /\ osMessageQueuePut(b)
  /\ num_used' = num_used - 1
  /\ UNCHANGED <<ready, free_list, max_used>>

(* Mutant: the hand-over falls through to the free list. *)
FreeToWaiter_NoReturn(b) ==
  /\ b \in held
  /\ HandOver
  /\ held' = held \ {b}
  /\ osMessageQueuePut(b)
  /\ free_list' = <<b>> \o free_list
  /\ num_used' = num_used - 1
  /\ UNCHANGED <<ready, max_used>>

(* mem_slab_free hands the block to a waiting client and wakes it up. *)
FreeToWaiter(b) ==
  /\ b \in held
  /\ HandOver
  /\ held' = held \ {b}
  /\ osMessageQueuePut(b)
  /\ UNCHANGED <<ready, free_list, num_used, max_used>>

(* mem_slab_free puts the block on the free list. *)
FreeToList(b) ==
  /\ b \in held
  /\ ~HandOver
  /\ held' = held \ {b}
  /\ free_list' = <<b>> \o free_list
  /\ num_used' = num_used - 1
  /\ UNCHANGED <<ready, max_used, wait_q, pc>>

mem_slab_alloc(c) ==
  \/ AllocTake(c) \/ AllocGap(c) \/ Receive(c) \/ Block(c)
  \/ Expire(c) \/ GiveUp(c) \/ QueueGone(c)

mem_slab_free(b) == FreeToWaiter(b) \/ FreeToList(b)

Next ==
  \/ mem_slab_init
  \/ mem_slab_deinit
  \/ \E c \in Clients : mem_slab_alloc(c)
  \/ \E b \in Blocks : mem_slab_free(b)

Spec == Init /\ [][Next]_vars

(***************************************************************************)
(* The scheduler runs every ready task, so a client does not stop inside   *)
(* osMessageQueueGet; the tick ends every timed wait; and every block is   *)
(* freed in the end (the streams of the I2S driver play out).  Nothing     *)
(* obliges a client to allocate again, and the slab need not be torn down. *)
(***************************************************************************)
Fairness ==
  /\ \A c \in Clients :
       /\ WF_vars(Receive(c) \/ Block(c))
       /\ WF_vars(Expire(c))
       /\ WF_vars(GiveUp(c))
  /\ \A b \in Blocks : WF_vars(mem_slab_free(b))

FairSpec == Spec /\ Fairness

-----------------------------------------------------------------------------
(* Properties *)

Elems(s) == {s[i] : i \in DOMAIN s}
Distinct(s) == \A i, j \in DOMAIN s : s[i] = s[j] => i = j

ListBlocks == Elems(free_list)
QueueBlocks == Elems(wait_q)

(* Every variable keeps its type; in particular num_used, which only the   *)
(* two ways of mem_slab_free lower, never falls below zero.                *)
TypeOK ==
  /\ ready \in BOOLEAN
  /\ free_list \in Seq(Blocks)
  /\ num_used \in Nat
  /\ max_used \in Nat
  /\ wait_q \in Seq(Blocks)
  /\ pc \in [Clients -> Points]
  /\ held \in SUBSET Blocks

(* mem_slab_alloc and mem_slab_free move blocks between three places, the  *)
(* free list, the wait queue and the clients: no block is ever in two of   *)
(* them, twice in one of them, or lost.                                    *)
Conservation ==
  /\ Distinct(free_list)
  /\ Len(wait_q) <= WaitQueueSize
  /\ ListBlocks \cap QueueBlocks = {}
  /\ ListBlocks \cap held = {}
  /\ QueueBlocks \cap held = {}
  /\ ready => ListBlocks \cup QueueBlocks \cup held = Blocks

(* info.num_used, which the hand-over of mem_slab_free does not touch,     *)
(* counts the blocks that are not on the free list, and info.max_used      *)
(* bounds it.                                                              *)
UsageExact ==
  ready => /\ num_used + Len(free_list) = NumBlocks
           /\ num_used = Cardinality(held) + Len(wait_q)
           /\ num_used <= max_used

(* The runtime check of mem_slab_alloc never fires: after a block is taken *)
(* the free list is empty exactly when every block is in use.              *)
AllocSane ==
  (ready /\ free_list # <<>>) =>
    \/ Tail(free_list) = <<>> /\ num_used + 1 = NumBlocks
    \/ Tail(free_list) # <<>> /\ Head(Tail(free_list)) \in Blocks

(* The second assertion of mem_slab_deinit (the wait queue is empty) is    *)
(* implied by the first (no block is in use), and no client then still has *)
(* a block of a slab whose buffer the owner frees next.                    *)
DeinitSafe == (ready /\ num_used = 0) => wait_q = <<>> /\ held = {}

(* A block that mem_slab_free hands over is never stranded in the queue:   *)
(* some client that was woken for it is still about to run.                *)
NoStrandedBlock == wait_q # <<>> => \E c \in Clients : pc[c] = "woken"

(* A block in the wait queue is on its way to a client: it stays in use. *)
InUse == held \cup QueueBlocks

P == INSTANCE Pool WITH up <- ready, lent <- InUse, used <- num_used, most <- max_used

(* The slab is a pool of blocks to its clients: mem_slab_alloc gives out a *)
(* block that nobody has, the hand-over of mem_slab_free passes a block on *)
(* without a moment at which it is free, mem_slab_deinit finds every block *)
(* back, and the two usage counters follow each of these steps.            *)
IsPool == P!Spec

(* A block that was handed over reaches a client. *)
HandedBlockTaken == \A b \in Blocks : b \in QueueBlocks ~> b \in held
=============================================================================
