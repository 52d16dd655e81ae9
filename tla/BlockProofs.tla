---------------------------- MODULE BlockProofs ----------------------------
(***************************************************************************)
(* Safety of the memory the I2S driver moves its data in, proved for every *)
(* set of clients, every number of blocks and every length of the buffer:  *)
(* the slab allocator (MemSlab) and the queue of full blocks (RingBuf).    *)
(*                                                                         *)
(* The properties of MemSlab are not inductive one by one.  That a taken   *)
(* block is new to the clients (so that num_used counts it once) is what   *)
(* Conservation says; that deinit can be followed by a new init needs that *)
(* nothing is outside the free list while the slab is not ready.  IInv is  *)
(* their conjunction with that last fact.                                  *)
(*                                                                         *)
(* To its clients the slab is a pool (Pool): a step of the hand-over does  *)
(* not change which blocks are in use.                                     *)
(*                                                                         *)
(* The ring buffer implements a first-in first-out queue (Fifo): RingInv   *)
(* adds to its types that the entries in use hold blocks that were stored. *)
(***************************************************************************)
EXTENDS MemSlab, RingBuf, FiniteSetTheorems, SequenceTheorems, TLAPS

-----------------------------------------------------------------------------

Dormant == ~ready => wait_q = <<>> /\ held = {}

IInv ==
  /\ TypeOK
  /\ Conservation
  /\ UsageExact
  /\ NoStrandedBlock
  /\ Dormant

-----------------------------------------------------------------------------

(* Any set of blocks is finite, and its cardinality counts one block more  *)
(* or less when a block joins or leaves it.                                *)
LEMMA BlockCount ==
  ASSUME NEW S \in SUBSET Blocks
  PROVE  /\ IsFiniteSet(S)
         /\ Cardinality(S) \in Nat
         /\ Cardinality(S) = 0 <=> S = {}
         /\ \A b \in Blocks : b \notin S => Cardinality(S \cup {b}) = Cardinality(S) + 1
         /\ \A b \in S : Cardinality(S \ {b}) = Cardinality(S) - 1
<1>1. IsFiniteSet(Blocks)
  BY FS_Interval, NumBlocksAssumption DEF Blocks
<1>2. IsFiniteSet(S)
  BY <1>1, FS_Subset
<1>3. Cardinality(S) \in Nat /\ (Cardinality(S) = 0 <=> S = {})
  BY <1>2, FS_CardinalityType, FS_EmptySet
<1>4. \A b \in Blocks : b \notin S => Cardinality(S \cup {b}) = Cardinality(S) + 1
  BY <1>2, FS_AddElement
<1>5. \A b \in S : Cardinality(S \ {b}) = Cardinality(S) - 1
  BY <1>2, FS_RemoveElement
<1> QED  BY <1>2, <1>3, <1>4, <1>5

(* The length of a sequence that is not empty, and of its tail. *)
LEMMA TailLength ==
  ASSUME NEW s \in Seq(Blocks), s # <<>>
  PROVE  /\ Len(s) \in Nat /\ Len(s) > 0
         /\ Head(s) \in Blocks /\ Head(s) = s[1]
         /\ Tail(s) \in Seq(Blocks)
         /\ Len(s) = 1 <=> Tail(s) = <<>>
<1>1. Len(s) \in Nat /\ Len(s) # 0
  BY EmptySeq, LenProperties
<1>2. Tail(s) \in Seq(Blocks) /\ Len(Tail(s)) = Len(s) - 1 /\ Head(s) \in Blocks /\ Head(s) = s[1]
  BY HeadTailProperties
<1>3. Len(Tail(s)) = 0 <=> Tail(s) = <<>>
  BY <1>2, EmptySeq
<1> QED  BY <1>1, <1>2, <1>3

(* mem_slab_alloc takes the head of the free list: the rest of the list    *)
(* has the other blocks, and stays free of repetitions.                    *)
LEMMA TakeHead ==
  ASSUME NEW s \in Seq(Blocks), s # <<>>, Distinct(s)
  PROVE  /\ Tail(s) \in Seq(Blocks)
         /\ Len(Tail(s)) = Len(s) - 1
         /\ Head(s) \in Blocks
         /\ Elems(Tail(s)) = Elems(s) \ {Head(s)}
         /\ Head(s) \in Elems(s)
         /\ Distinct(Tail(s))
<1>1. /\ Len(s) \in Nat /\ Len(s) > 0 /\ DOMAIN s = 1..Len(s)
      /\ Head(s) = s[1] /\ Head(s) \in Blocks
      /\ Tail(s) \in Seq(Blocks) /\ Len(Tail(s)) = Len(s) - 1
      /\ DOMAIN Tail(s) = 1..(Len(s) - 1)
      /\ \A i \in 1..(Len(s) - 1) : Tail(s)[i] = s[i + 1]
  OBVIOUS
<1>2. ASSUME NEW x \in Elems(Tail(s))
      PROVE  x \in Elems(s) \ {Head(s)}
  <2>1. PICK i \in 1..(Len(s) - 1) : x = s[i + 1]
    BY <1>1, <1>2 DEF Elems
  <2>2. i + 1 \in DOMAIN s /\ 1 \in DOMAIN s /\ i + 1 # 1
    BY <1>1
  <2> QED  BY <1>1, <2>1, <2>2 DEF Elems, Distinct
<1>3. ASSUME NEW x \in Elems(s) \ {Head(s)}
      PROVE  x \in Elems(Tail(s))
  <2>1. PICK i \in DOMAIN s : x = s[i] /\ i # 1
    BY <1>1, <1>3 DEF Elems
  <2>2. i - 1 \in DOMAIN Tail(s) /\ Tail(s)[i - 1] = x
    BY <1>1, <2>1
  <2> QED  BY <2>2 DEF Elems
<1>4. Distinct(Tail(s))
  BY <1>1 DEF Distinct
<1>5. Head(s) \in Elems(s)
  BY <1>1 DEF Elems
<1> QED  BY <1>1, <1>2, <1>3, <1>4, <1>5

(* mem_slab_free pushes a block in front of the list. *)
LEMMA PushHead ==
  ASSUME NEW s \in Seq(Blocks), NEW b \in Blocks,
         Distinct(s), b \notin Elems(s)
  PROVE  /\ <<b>> \o s \in Seq(Blocks)
         /\ Len(<<b>> \o s) = Len(s) + 1
         /\ Elems(<<b>> \o s) = Elems(s) \cup {b}
         /\ Distinct(<<b>> \o s)
<1> DEFINE t == <<b>> \o s
<1>1. /\ t \in Seq(Blocks) /\ Len(t) = Len(s) + 1 /\ Len(s) \in Nat
      /\ DOMAIN t = 1..(Len(s) + 1) /\ DOMAIN s = 1..Len(s)
      /\ t[1] = b
      /\ \A i \in 2..(Len(s) + 1) : t[i] = s[i - 1]
  OBVIOUS
<1> HIDE DEF t
<1>2. ASSUME NEW x \in Elems(t)
      PROVE  x \in Elems(s) \cup {b}
  <2>1. PICK i \in 1..(Len(s) + 1) : x = t[i]
    BY <1>1, <1>2 DEF Elems
  <2>2. CASE i = 1  BY <1>1, <2>1, <2>2
  <2>3. CASE i # 1
    <3>1. i - 1 \in DOMAIN s /\ s[i - 1] = x
      BY <1>1, <2>1, <2>3
    <3> QED  BY <3>1 DEF Elems
  <2> QED  BY <2>2, <2>3
<1>3. ASSUME NEW x \in Elems(s) \cup {b}
      PROVE  x \in Elems(t)
  <2>1. CASE x = b
    BY <1>1, <2>1 DEF Elems
  <2>2. CASE x \in Elems(s)
    <3>1. PICK i \in DOMAIN s : x = s[i]
      BY <2>2 DEF Elems
    <3>2. i + 1 \in DOMAIN t /\ t[i + 1] = x
      BY <1>1, <3>1
    <3> QED  BY <3>2 DEF Elems
  <2> QED  BY <1>3, <2>1, <2>2
<1>4. ASSUME NEW i \in DOMAIN t, NEW j \in DOMAIN t, t[i] = t[j]
      PROVE  i = j
  <2>1. \A k \in DOMAIN t : k = 1 \/ (k - 1 \in DOMAIN s /\ t[k] = s[k - 1] /\ t[k] # b)
    BY <1>1 DEF Elems
  <2> QED  BY <1>1, <1>4, <2>1 DEF Distinct
<1> QED  BY <1>1, <1>2, <1>3, <1>4 DEF t, Distinct

-----------------------------------------------------------------------------

(* A slab that has just been set up satisfies the invariant. *)
LEMMA InitIInv == Init => IInv
<1> SUFFICES ASSUME Init PROVE IInv
  OBVIOUS
<1> USE DEF Init
<1>1. TypeOK
  <2>1. ready \in BOOLEAN /\ pc \in [Clients -> Points]
    BY DEF Points
  <2>2. free_list \in Seq(Blocks) /\ wait_q \in Seq(Blocks)
    OBVIOUS
  <2> QED  BY <2>1, <2>2 DEF TypeOK
<1>2. Conservation
  BY DEF Conservation, Distinct, ListBlocks, QueueBlocks, Elems, WaitQueueSize
<1>3. UsageExact /\ NoStrandedBlock /\ Dormant
  BY DEF UsageExact, NoStrandedBlock, Dormant
<1> QED  BY <1>1, <1>2, <1>3 DEF IInv

(* Each operation of the allocator preserves the invariant. *)
LEMMA NextIInv == IInv /\ [Next]_vars => IInv'
<1> SUFFICES ASSUME IInv, [Next]_vars PROVE IInv'
  OBVIOUS
<1> USE DEF IInv
<1>t. /\ ready \in BOOLEAN
      /\ free_list \in Seq(Blocks) /\ wait_q \in Seq(Blocks)
      /\ num_used \in Nat /\ max_used \in Nat
      /\ pc \in [Clients -> Points] /\ held \in SUBSET Blocks
  BY DEF TypeOK
<1>d. Distinct(<<>>) /\ Elems(<<>>) = {} /\ Len(<<>>) = 0
  BY DEF Distinct, Elems
<1>1. CASE mem_slab_init
  <2> USE <1>1 DEF mem_slab_init
  <2>1. /\ create_free_list \in Seq(Blocks) /\ Len(create_free_list) = NumBlocks
        /\ Elems(create_free_list) = Blocks /\ Distinct(create_free_list)
    <3>1. DOMAIN create_free_list = 1..NumBlocks
      BY DEF create_free_list
    <3>2. create_free_list \in Seq(Blocks) /\ Len(create_free_list) = NumBlocks
      BY NumBlocksAssumption DEF create_free_list, Blocks
    <3>3. \A i \in 1..NumBlocks : create_free_list[i] = i
      BY DEF create_free_list
    <3> QED  BY <3>1, <3>2, <3>3 DEF Elems, Distinct, Blocks
  <2>2. wait_q = <<>> /\ held = {}
    BY DEF Dormant
  <2>3. TypeOK'
    BY <1>t, <2>1, <2>2 DEF TypeOK
  <2>4. Conservation'
    BY <1>d, <2>1, <2>2 DEF Conservation, ListBlocks, QueueBlocks, WaitQueueSize
  <2>5. UsageExact'
    BY <1>d, <2>1, <2>2, FS_EmptySet, NumBlocksAssumption DEF UsageExact
  <2>6. NoStrandedBlock' /\ Dormant'
    BY <2>2 DEF NoStrandedBlock, Dormant
  <2> QED  BY <2>3, <2>4, <2>5, <2>6
<1>2. CASE mem_slab_deinit
  <2> USE <1>2 DEF mem_slab_deinit
  <2>1. held = {}
    BY <1>t, <1>d, BlockCount DEF UsageExact
  <2>2. TypeOK'
    BY <1>t DEF TypeOK
  <2>3. Conservation' /\ NoStrandedBlock'
    BY DEF Conservation, ListBlocks, QueueBlocks, NoStrandedBlock
  <2>4. UsageExact' /\ Dormant'
    BY <2>1 DEF UsageExact, Dormant
  <2> QED  BY <2>2, <2>3, <2>4
<1>3. ASSUME NEW c \in Clients, AllocTake(c) PROVE IInv'
  <2> USE <1>3 DEF AllocTake
  <2> DEFINE h == Head(free_list)
  <2>1. /\ Tail(free_list) \in Seq(Blocks)
        /\ Len(Tail(free_list)) = Len(free_list) - 1
        /\ h \in Blocks /\ h \in Elems(free_list)
        /\ Elems(Tail(free_list)) = Elems(free_list) \ {h}
        /\ Distinct(Tail(free_list))
    BY <1>t, TakeHead DEF Conservation
  <2>2. h \notin held
    BY <2>1 DEF Conservation, ListBlocks
  <2>3. Cardinality(held \cup {h}) = Cardinality(held) + 1 /\ Cardinality(held) \in Nat
    BY <1>t, <2>1, <2>2, BlockCount
  <2>4. TypeOK'
    <3>1. free_list' \in Seq(Blocks) /\ held' \in SUBSET Blocks
      BY <1>t, <2>1
    <3>2. num_used' \in Nat /\ max_used' \in Nat
      BY <1>t
    <3> QED  BY <1>t, <3>1, <3>2 DEF TypeOK
  <2>5. Conservation'
    <3> HIDE DEF h
    <3>1. ready' = ready /\ wait_q' = wait_q /\ held' = held \cup {h} /\ free_list' = Tail(free_list)
      BY DEF h
    <3> QED  BY <2>1, <3>1 DEF Conservation, ListBlocks, QueueBlocks
  <2>6. UsageExact'
    <3>1. Len(free_list) \in Nat /\ Len(wait_q) \in Nat
      BY <1>t
    <3>2. num_used' <= max_used'
      BY <1>t
    <3>e. free_list' = Tail(free_list) /\ num_used' = num_used + 1 /\ ready
      OBVIOUS
    <3>f. num_used + Len(free_list) = NumBlocks /\ Len(free_list') = Len(free_list) - 1
      BY <2>1, <3>e DEF UsageExact
    <3>g. (num_used + 1) + (Len(free_list) - 1) = num_used + Len(free_list)
      BY <1>t, <3>1
    <3>3. num_used' + Len(free_list') = NumBlocks
      BY <3>e, <3>f, <3>g
    <3>4. num_used' = Cardinality(held') + Len(wait_q')
      BY <1>t, <2>3, <3>1 DEF UsageExact
    <3> QED  BY <3>2, <3>3, <3>4 DEF UsageExact
  <2>7. NoStrandedBlock' /\ Dormant'
    BY DEF NoStrandedBlock, Dormant
  <2> QED  BY <2>4, <2>5, <2>6, <2>7
<1>4. ASSUME NEW c \in Clients, Receive(c) PROVE IInv'
  <2> USE <1>4 DEF Receive
  <2>1. /\ Len(wait_q) = 1 /\ wait_q' = <<>>
        /\ Head(wait_q) \in Blocks /\ Elems(wait_q) = {Head(wait_q)}
    <3>1. Len(wait_q) <= 1 /\ wait_q # <<>>
      BY DEF Conservation, WaitQueueSize
    <3>2. Len(wait_q) = 1
      BY <1>t, <3>1, TailLength
    <3>3. Tail(wait_q) = <<>> /\ Head(wait_q) = wait_q[1] /\ wait_q[1] \in Blocks
      BY <1>t, <3>1, <3>2, TailLength
    <3>4. DOMAIN wait_q = {1}
      BY ONLY <1>t, <3>2
    <3>5. Elems(wait_q) = {wait_q[1]}
      BY ONLY <3>4 DEF Elems
    <3> QED  BY <3>2, <3>3, <3>5
  <2>2. Head(wait_q) \notin held
    BY <2>1 DEF Conservation, QueueBlocks
  <2>3. Cardinality(held \cup {Head(wait_q)}) = Cardinality(held) + 1 /\ Cardinality(held) \in Nat
    BY <1>t, <2>1, <2>2, BlockCount
  <2>4. TypeOK'
    <3>1. wait_q' \in Seq(Blocks) /\ held' \in SUBSET Blocks
      BY <1>t, <2>1
    <3>2. pc' \in [Clients -> Points]
      BY <1>t DEF Points
    <3> QED  BY <1>t, <3>1, <3>2 DEF TypeOK
  <2>e. /\ ready' = ready /\ ready /\ free_list' = free_list /\ num_used' = num_used
        /\ max_used' = max_used /\ held' = held \cup {Head(wait_q)}
    OBVIOUS
  <2>f. ListBlocks' = ListBlocks /\ QueueBlocks' = {} /\ QueueBlocks = {Head(wait_q)}
    BY ONLY <1>d, <2>1, <2>e DEF ListBlocks, QueueBlocks
  <2>5. Conservation'
    <3>1. Len(wait_q') <= WaitQueueSize
      BY ONLY <1>d, <2>1 DEF WaitQueueSize
    <3> QED  BY ONLY IInv, <2>e, <2>f, <3>1 DEF IInv, Conservation
  <2>6. UsageExact'
    <3>1. num_used = Cardinality(held) + 1 /\ Len(wait_q') = 0
      BY <1>d, <2>1 DEF UsageExact
    <3>2. num_used' = Cardinality(held') + Len(wait_q')
      BY ONLY <2>e, <2>3, <3>1
    <3> QED  BY <2>e, <3>2 DEF UsageExact
  <2>7. NoStrandedBlock' /\ Dormant'
    BY <2>1 DEF NoStrandedBlock, Dormant
  <2> QED  BY <2>4, <2>5, <2>6, <2>7
<1>5. ASSUME NEW b \in Blocks, FreeToWaiter(b) PROVE IInv'
  <2> USE <1>5 DEF FreeToWaiter, osMessageQueuePut
  <2>1. wait_q = <<>> /\ Waiting # {} /\ free_list = <<>>
    BY <1>t DEF HandOver, WaitQueueSize
  <2>2. wait_q' = <<b>> /\ Len(wait_q') = 1 /\ Elems(wait_q') = {b}
    BY <2>1 DEF Elems
  <2>3. Cardinality(held \ {b}) = Cardinality(held) - 1 /\ Cardinality(held) \in Nat
    BY <1>t, BlockCount
  <2>4. PICK w \in Waiting : pc' = [pc EXCEPT ![w] = "woken"]
    BY <2>1
  <2>5. TypeOK'
    <3>1. wait_q' \in Seq(Blocks) /\ held' \in SUBSET Blocks
      BY <1>t, <2>2
    <3>2. pc' \in [Clients -> Points]
      BY <1>t, <2>4 DEF Points
    <3> QED  BY <1>t, <3>1, <3>2 DEF TypeOK
  <2>6. Conservation'
    BY <1>d, <2>1, <2>2 DEF Conservation, ListBlocks, QueueBlocks, WaitQueueSize
  <2>7. UsageExact'
    BY <1>t, <1>d, <2>1, <2>2, <2>3 DEF UsageExact
  <2>8. NoStrandedBlock'
    <3>1. w \in Clients /\ pc'[w] = "woken"
      BY <1>t, <2>4 DEF Waiting
    <3> QED  BY <3>1 DEF NoStrandedBlock
  <2>9. Dormant'
    BY DEF Dormant
  <2> QED  BY <2>5, <2>6, <2>7, <2>8, <2>9
<1>6. ASSUME NEW b \in Blocks, FreeToList(b) PROVE IInv'
  <2> USE <1>6 DEF FreeToList
  <2>1. b \notin Elems(free_list)
    BY DEF Conservation, ListBlocks
  <2>2. /\ <<b>> \o free_list \in Seq(Blocks)
        /\ Len(<<b>> \o free_list) = Len(free_list) + 1
        /\ Elems(<<b>> \o free_list) = Elems(free_list) \cup {b}
        /\ Distinct(<<b>> \o free_list)
    BY <1>t, <2>1, PushHead DEF Conservation
  <2>3. /\ Cardinality(held \ {b}) = Cardinality(held) - 1 /\ Cardinality(held) \in Nat
        /\ Cardinality(held) # 0
    BY <1>t, BlockCount
  <2>4. ready
    BY <1>t DEF Dormant
  <2>l. Len(free_list) \in Nat /\ Len(wait_q) \in Nat
    BY <1>t
  <2>5. num_used' \in Nat
    BY <1>t, <2>3, <2>4, <2>l DEF UsageExact
  <2>6. TypeOK'
    BY <1>t, <2>2, <2>5 DEF TypeOK
  <2>7. Conservation'
    <3>1. QueueBlocks' = QueueBlocks /\ ListBlocks' = ListBlocks \cup {b} /\ held' = held \ {b}
      BY <2>2 DEF ListBlocks, QueueBlocks
    <3> QED  BY <2>2, <2>4, <3>1 DEF Conservation
  <2>8. UsageExact'
    <3>1. num_used' + Len(free_list') = NumBlocks
      BY <1>t, <2>2, <2>4, <2>l, NumBlocksAssumption DEF UsageExact
    <3>2. num_used' = Cardinality(held') + Len(wait_q') /\ num_used' <= max_used'
      BY <1>t, <2>3, <2>4, <2>l DEF UsageExact
    <3> QED  BY <3>1, <3>2 DEF UsageExact
  <2>9. NoStrandedBlock' /\ Dormant'
    BY <2>4 DEF NoStrandedBlock, Dormant
  <2> QED  BY <2>6, <2>7, <2>8, <2>9
<1>7. ASSUME NEW c \in Clients,
             AllocGap(c) \/ Block(c) \/ Expire(c) \/ GiveUp(c) \/ QueueGone(c)
      PROVE  IInv'
  <2>1. /\ UNCHANGED <<ready, free_list, num_used, max_used, wait_q, held>>
        /\ pc[c] # "woken" \/ wait_q = <<>>
        /\ \E p \in Points : pc' = [pc EXCEPT ![c] = p]
    BY <1>7 DEF AllocGap, Block, Expire, GiveUp, QueueGone, Points
  <2>2. pc' \in [Clients -> Points] /\ \A w \in Clients : w # c => pc'[w] = pc[w]
    BY <1>t, <2>1
  <2>3. TypeOK'
    BY <1>t, <2>1, <2>2 DEF TypeOK
  <2>4. Conservation' /\ UsageExact' /\ Dormant'
    BY <2>1 DEF Conservation, ListBlocks, QueueBlocks, UsageExact, Dormant
  <2>5. NoStrandedBlock'
    BY <2>1, <2>2 DEF NoStrandedBlock
  <2> QED  BY <2>3, <2>4, <2>5
<1>8. CASE UNCHANGED vars
  BY <1>8 DEF vars, TypeOK, Conservation, ListBlocks, QueueBlocks, UsageExact,
              NoStrandedBlock, Dormant
<1> QED
  BY <1>1, <1>2, <1>3, <1>4, <1>5, <1>6, <1>7, <1>8
     DEF Next, mem_slab_alloc, mem_slab_free

(* The slab is always well formed: IInv, the conjunction of the type       *)
(* invariant, conservation of blocks, exact usage counters, and no block   *)
(* stranded in the wait queue, holds in every reachable state.             *)
THEOREM SlabInvariant == Spec => []IInv
  BY InitIInv, NextIInv, PTL DEF Spec

(* The variables of the slab keep their types; num_used, which mem_slab_free *)
(* decrements, is never negative.                                          *)
THEOREM SlabTyped == Spec => []TypeOK
  BY SlabInvariant, PTL DEF IInv

(* Every block is in exactly one place: mem_slab_alloc never gives out a   *)
(* block that is in use, and mem_slab_free never loses one.                *)
THEOREM BlocksConserved == Spec => []Conservation
  BY SlabInvariant, PTL DEF IInv

(* num_used counts the blocks that are off the free list, hand-overs       *)
(* included.                                                               *)
THEOREM UsageCounted == Spec => []UsageExact
  BY SlabInvariant, PTL DEF IInv

(* The runtime check inside mem_slab_alloc cannot fail. *)
THEOREM AllocCheckHolds == Spec => []AllocSane
<1>1. IInv => AllocSane
  <2> SUFFICES ASSUME IInv, ready, free_list # <<>> PROVE AllocSane
    BY DEF AllocSane
  <2>1. /\ free_list \in Seq(Blocks) /\ num_used \in Nat
        /\ num_used + Len(free_list) = NumBlocks
    BY DEF IInv, TypeOK, UsageExact
  <2>2. CASE Tail(free_list) = <<>>
    <3>1. Len(free_list) = 1
      BY <2>1, <2>2, TailLength
    <3> QED  BY <2>1, <2>2, <3>1, NumBlocksAssumption DEF AllocSane
  <2>3. CASE Tail(free_list) # <<>>
    <3>1. Tail(free_list) \in Seq(Blocks)
      BY <2>1, TailLength
    <3>2. Head(Tail(free_list)) \in Blocks
      BY <2>3, <3>1, TailLength
    <3> QED  BY <2>3, <3>2 DEF AllocSane
  <2> QED  BY <2>2, <2>3
<1> QED  BY <1>1, SlabInvariant, PTL

(* The assertions of mem_slab_deinit are consistent: once no block is in   *)
(* use, the wait queue is empty and no client holds a block.               *)
THEOREM DeinitAssertions == Spec => []DeinitSafe
<1>1. IInv => DeinitSafe
  <2> SUFFICES ASSUME IInv, ready, num_used = 0 PROVE wait_q = <<>> /\ held = {}
    BY DEF DeinitSafe
  <2>1. /\ wait_q \in Seq(Blocks) /\ held \in SUBSET Blocks
        /\ 0 = Cardinality(held) + Len(wait_q)
    BY DEF IInv, TypeOK, UsageExact
  <2>2. Cardinality(held) \in Nat /\ (Cardinality(held) = 0 => held = {})
    BY <2>1, BlockCount
  <2> QED  BY <2>1, <2>2
<1> QED  BY <1>1, SlabInvariant, PTL

(* A block in the wait queue always has a woken client on its way. *)
THEOREM NothingStranded == Spec => []NoStrandedBlock
  BY SlabInvariant, PTL DEF IInv

(* A step of the slab is a step of the pool or leaves the pool alone: the  *)
(* hand-over and the waiting are its own business.                         *)
LEMMA SlabStepRefines == IInv /\ [Next]_vars => [P!Next]_P!vars
<1> SUFFICES ASSUME IInv, [Next]_vars PROVE [P!Next]_P!vars
  OBVIOUS
<1>t. /\ free_list \in Seq(Blocks) /\ wait_q \in Seq(Blocks)
      /\ held \in SUBSET Blocks /\ ready \in BOOLEAN
  BY DEF IInv, TypeOK
<1>e. Elems(<<>>) = {}
  BY DEF Elems
<1>u. ASSUME wait_q' = wait_q PROVE QueueBlocks' = QueueBlocks
  BY <1>u DEF QueueBlocks
<1>1. CASE mem_slab_init
  <2>1. wait_q = <<>> /\ wait_q' = <<>> /\ held' = held
    BY <1>1 DEF IInv, Dormant, mem_slab_init
  <2>2. InUse' = InUse
    BY <2>1 DEF InUse, QueueBlocks
  <2> QED  BY <1>1, <2>2 DEF mem_slab_init, P!Next, P!SetUp
<1>2. CASE mem_slab_deinit
  <2>1. wait_q = <<>> /\ held = {}
    <3>1. 0 = Cardinality(held) + Len(wait_q) /\ wait_q = <<>>
      BY <1>2 DEF mem_slab_deinit, IInv, UsageExact
    <3>2. Cardinality(held) \in Nat /\ (Cardinality(held) = 0 => held = {})
      BY <1>t, BlockCount
    <3> QED  BY <1>t, <3>1, <3>2
  <2>2. InUse = {} /\ InUse' = InUse
    BY <1>2, <2>1, <1>e, <1>u DEF InUse, QueueBlocks, mem_slab_deinit
  <2> QED  BY <1>2, <2>2 DEF mem_slab_deinit, P!Next, P!TearDown
<1>3. ASSUME NEW c \in Clients, AllocTake(c) PROVE P!Next
  <2> DEFINE b == Head(free_list)
  <2>1. b \in Blocks /\ b \in ListBlocks
    BY <1>t, <1>3, TakeHead DEF AllocTake, IInv, Conservation, ListBlocks
  <2>2. b \notin InUse
    BY <2>1 DEF InUse, IInv, Conservation
  <2>3. InUse' = InUse \cup {b}
    BY <1>3, <1>u DEF AllocTake, InUse
  <2>4. P!Alloc(b)
    BY <1>3, <2>2, <2>3 DEF AllocTake, P!Alloc
  <2> QED  BY <2>1, <2>4 DEF P!Next
<1>4. ASSUME NEW c \in Clients, Receive(c) PROVE UNCHANGED P!vars
  <2>1. QueueBlocks = {Head(wait_q)} /\ wait_q' = <<>>
    <3>1. Len(wait_q) <= 1 /\ wait_q # <<>> /\ wait_q' = Tail(wait_q)
      BY <1>4 DEF Receive, IInv, Conservation, WaitQueueSize
    <3>2. Len(wait_q) = 1 /\ Head(wait_q) = wait_q[1] /\ Tail(wait_q) = <<>>
      BY <1>t, <3>1, TailLength
    <3>3. DOMAIN wait_q = {1}
      BY ONLY <1>t, <3>2
    <3> QED  BY ONLY <3>1, <3>2, <3>3 DEF QueueBlocks, Elems
  <2>2. InUse' = InUse
    BY <1>4, <1>e, <2>1 DEF Receive, InUse, QueueBlocks
  <2> QED  BY <1>4, <2>2 DEF Receive, P!vars
<1>5. ASSUME NEW b \in Blocks, FreeToWaiter(b) PROVE UNCHANGED P!vars
  <2>1. wait_q = <<>>
    BY <1>t, <1>5 DEF FreeToWaiter, HandOver, WaitQueueSize
  <2>2. QueueBlocks = {} /\ QueueBlocks' = {b}
    BY <1>5, <1>e, <2>1 DEF FreeToWaiter, osMessageQueuePut, QueueBlocks, Elems
  <2>3. InUse' = InUse
    BY <1>5, <2>2 DEF FreeToWaiter, InUse
  <2> QED  BY <1>5, <2>3 DEF FreeToWaiter, P!vars
<1>6. ASSUME NEW b \in Blocks, FreeToList(b) PROVE P!Next
  <2>1. ready /\ b \in held /\ b \notin QueueBlocks
    BY <1>6 DEF FreeToList, IInv, Dormant, Conservation
  <2>2. InUse' = InUse \ {b} /\ b \in InUse
    BY <1>6, <1>u, <2>1 DEF FreeToList, InUse
  <2>3. P!Free(b)
    BY <1>6, <2>1, <2>2 DEF FreeToList, P!Free
  <2> QED  BY <2>3 DEF P!Next
<1>7. ASSUME NEW c \in Clients,
             AllocGap(c) \/ Block(c) \/ Expire(c) \/ GiveUp(c) \/ QueueGone(c)
      PROVE  UNCHANGED P!vars
  BY <1>7, <1>u DEF AllocGap, Block, Expire, GiveUp, QueueGone, InUse, P!vars
<1>8. CASE UNCHANGED vars
  BY <1>8, <1>u DEF vars, InUse, P!vars
<1> QED
  BY <1>1, <1>2, <1>3, <1>4, <1>5, <1>6, <1>7, <1>8
     DEF Next, mem_slab_alloc, mem_slab_free

(* The slab implements the pool that the I2S streams take their blocks     *)
(* from, for any number of blocks and of waiting clients: no block is lent *)
(* twice, a hand-over leaves no moment at which a third client could take  *)
(* the block, and num_used and max_used are right at every step.           *)
THEOREM SlabImplementsPool == Spec => IsPool
<1>1. Init => P!Init
  BY DEF Init, P!Init, InUse, QueueBlocks, Elems
<1> QED
  BY <1>1, InitIInv, NextIInv, SlabStepRefines, PTL DEF Spec, IsPool, P!Spec

(* mem_slab_alloc finds the free list empty only when every block is in    *)
(* use: a block that is handed over is not free and counts.                *)
THEOREM RefusedWhenFull == Spec => [][\A c \in Clients : AllocGap(c) => InUse = Blocks]_vars
<1>1. ASSUME IInv, NEW c \in Clients, AllocGap(c) PROVE InUse = Blocks
  <2>1. ready /\ ListBlocks = {}
    BY <1>1 DEF AllocGap, ListBlocks, Elems
  <2> QED  BY <1>1, <2>1 DEF IInv, Conservation, InUse
<1>2. IInv /\ [Next]_vars => [\A c \in Clients : AllocGap(c) => InUse = Blocks]_vars
  BY <1>1
<1> QED  BY <1>2, SlabInvariant, PTL DEF Spec

-----------------------------------------------------------------------------

(* The entries in use hold blocks that were stored. *)
Stored == \A i \in 0..(Used - 1) : buf[Slot(i)] \in Items

RingInv == RingTypeOK /\ Stored

(* The number of entries in use, and where they are. *)
LEMMA UsedRange ==
  ASSUME RingTypeOK
  PROVE  /\ Used \in Nat /\ Used < RingLen
         /\ \A i \in 0..(RingLen - 1) : Slot(i) \in Slots
         /\ Slot(Used) = head
         /\ \A i \in 0..(Used - 1) : Slot(i) # head
         /\ queue_is_empty <=> Used = 0
         /\ Slot(0) = tail
  BY RingLenAssumption DEF RingTypeOK, Used, Slot, Slots, queue_is_empty

(* One more entry is in use after a put, one less after a get. *)
LEMMA PutMoves ==
  ASSUME RingTypeOK, NEW x \in Items, queue_put(x)
  PROVE  /\ Used' = Used + 1
         /\ \A i \in 0..Used : Slot(i)' = Slot(i)
         /\ Used + 1 < RingLen
         /\ head' \in Slots /\ tail' = tail
  BY RingLenAssumption DEF RingTypeOK, Used, Slot, Slots, queue_put, MODULO_INC

(* queue_get gives up the entry of the oldest item. *)
LEMMA GetMoves ==
  ASSUME RingTypeOK, queue_get
  PROVE  /\ Used' = Used - 1
         /\ Used > 0
         /\ \A i \in 0..(Used - 2) : Slot(i)' = Slot(i + 1)
         /\ tail' \in Slots /\ head' = head
  BY RingLenAssumption
     DEF RingTypeOK, Used, Slot, Slots, queue_get, queue_is_empty, MODULO_INC

(* The invariant is kept by every step. *)
LEMMA RingInvStep == RingInv /\ [RingNext]_ring => RingInv'
<1> SUFFICES ASSUME RingInv, [RingNext]_ring PROVE RingInv'
  OBVIOUS
<1> USE DEF RingInv
<1>0. RingTypeOK
  OBVIOUS
<1>1. ASSUME NEW x \in Items, queue_put(x) PROVE RingInv'
  <2>1. RingTypeOK'
    BY <1>0, <1>1, PutMoves DEF RingTypeOK, queue_put
  <2>2. Stored'
    <3> SUFFICES ASSUME NEW i \in 0..Used PROVE buf'[Slot(i)] \in Items
      BY <1>0, <1>1, PutMoves, UsedRange DEF Stored
    <3>1. CASE i = Used
      BY <1>0, <1>1, <3>1, UsedRange DEF RingTypeOK, queue_put
    <3>2. CASE i # Used
      <4>1. i \in 0..(Used - 1)
        BY <1>0, <3>2, UsedRange
      <4>2. Slot(i) # head /\ Slot(i) \in Slots /\ buf[Slot(i)] \in Items
        BY <1>0, <4>1, UsedRange, RingLenAssumption DEF Stored
      <4> QED
        BY <1>1, <4>2 DEF RingTypeOK, queue_put
    <3> QED
      BY <3>1, <3>2
  <2> QED
    BY <2>1, <2>2
<1>2. ASSUME queue_get PROVE RingInv'
  <2>1. buf[tail] \in Items
    BY <1>0, <1>2, UsedRange, GetMoves DEF Stored
  <2>2. RingTypeOK'
    BY <1>0, <1>2, <2>1, GetMoves DEF RingTypeOK, queue_get
  <2>3. Stored'
    BY <1>0, <1>2, UsedRange, GetMoves DEF Stored, queue_get
  <2> QED
    BY <2>2, <2>3
<1>3. ASSUME queue_get_none PROVE RingInv'
  BY <1>3 DEF RingTypeOK, Stored, Used, Slot, queue_get_none
<1>4. CASE UNCHANGED ring
  BY <1>4 DEF RingTypeOK, Stored, Used, Slot, ring
<1> QED
  BY <1>1, <1>2, <1>3, <1>4 DEF RingNext

(* An empty ring buffer satisfies the invariant. *)
LEMMA RingInvInit == RingInit => RingInv
  BY RingLenAssumption DEF RingInit, RingInv, RingTypeOK, Stored, Slots, Used, Slot

(* queue_put and queue_get keep head and tail inside the array and return  *)
(* only pointers that were stored.                                         *)
THEOREM RingTyped == RingSpec => []RingTypeOK
<1>1. RingInv => RingTypeOK
  BY DEF RingInv
<1> QED
  BY RingInvInit, RingInvStep, <1>1, PTL DEF RingSpec

-----------------------------------------------------------------------------

(* The queue the buffer stands for is a sequence of blocks. *)
LEMMA ContentsSeq ==
  ASSUME RingInv
  PROVE  /\ Contents \in Seq(Items)
         /\ Len(Contents) = Used
         /\ \A i \in 1..Used : Contents[i] = buf[Slot(i - 1)]
<1>1. Used \in Nat
  BY UsedRange DEF RingInv
<1>2. \A i \in 1..Used : buf[Slot(i - 1)] \in Items
  BY <1>1 DEF RingInv, Stored
<1> QED
  BY <1>1, <1>2 DEF Contents

(* A put appends. *)
LEMMA PutAppends ==
  ASSUME RingInv, NEW x \in Items, queue_put(x)
  PROVE  Contents' = Append(Contents, x)
<1>0. RingTypeOK /\ Used \in Nat /\ Used + 1 < RingLen
  BY UsedRange, PutMoves DEF RingInv
<1>1. Contents' = [i \in 1..(Used + 1) |-> buf'[Slot(i - 1)]]
  <2>1. \A i \in 1..(Used + 1) : Slot(i - 1)' = Slot(i - 1)
    BY <1>0, PutMoves
  <2> QED
    BY <1>0, <2>1, PutMoves DEF Contents
<1>2. buf'[Slot(Used)] = x
  BY <1>0, UsedRange DEF queue_put, RingTypeOK
<1>3. \A i \in 1..Used : buf'[Slot(i - 1)] = Contents[i]
  BY <1>0, UsedRange, ContentsSeq DEF queue_put, RingTypeOK
<1>4. /\ Append(Contents, x) \in Seq(Items)
      /\ Len(Append(Contents, x)) = Used + 1
      /\ Append(Contents, x)[Used + 1] = x
      /\ \A i \in 1..Used : Append(Contents, x)[i] = Contents[i]
  BY <1>0, ContentsSeq, AppendProperties
<1>5. /\ Contents' \in Seq(Items)
      /\ Len(Contents') = Used + 1
  <2>1. \A i \in 1..(Used + 1) : buf'[Slot(i - 1)] \in Items
    <3> SUFFICES ASSUME NEW i \in 1..(Used + 1) PROVE buf'[Slot(i - 1)] \in Items
      OBVIOUS
    <3>1. CASE i = Used + 1
      BY <1>0, <1>2, <3>1
    <3>2. CASE i # Used + 1
      <4>1. i \in 1..Used
        BY <1>0, <3>2
      <4>2. Contents[i] \in Items
        BY <1>0, <4>1, ContentsSeq, ElementOfSeq
      <4> QED
        BY <1>3, <4>1, <4>2
    <3> QED
      BY <3>1, <3>2
  <2>2. Contents' \in [1..(Used + 1) -> Items]
    BY <1>1, <2>1
  <2> QED
    BY <1>0, <2>2
<1>6. \A i \in 1..(Used + 1) : Contents'[i] = Append(Contents, x)[i]
  BY <1>0, <1>1, <1>2, <1>3, <1>4
<1> QED
  BY <1>0, <1>4, <1>5, <1>6, SeqEqual

(* A get removes the head. *)
LEMMA GetRemoves ==
  ASSUME RingInv, queue_get
  PROVE  /\ Contents # <<>>
         /\ got' = Head(Contents)
         /\ Contents' = Tail(Contents)
<1>0. RingTypeOK /\ Used \in Nat /\ Used > 0
  BY UsedRange, GetMoves DEF RingInv
<1>1. Contents # <<>> /\ Head(Contents) = Contents[1]
  BY <1>0, ContentsSeq
<1>2. got' = Head(Contents)
  BY <1>0, <1>1, ContentsSeq, UsedRange DEF queue_get
<1>3. Contents' = [i \in 1..(Used - 1) |-> buf[Slot(i)]]
  <2>1. \A i \in 1..(Used - 1) : Slot(i - 1)' = Slot(i)
    <3> SUFFICES ASSUME NEW i \in 1..(Used - 1) PROVE Slot(i - 1)' = Slot(i)
      OBVIOUS
    <3>1. i - 1 \in 0..(Used - 2) /\ (i - 1) + 1 = i
      BY <1>0
    <3> QED
      BY <1>0, <3>1, GetMoves
  <2> QED
    BY <1>0, <2>1, GetMoves DEF Contents, queue_get
<1>4. \A i \in 1..(Used - 1) : Contents[i + 1] = buf[Slot(i)]
  BY <1>0, ContentsSeq
<1>5. /\ Tail(Contents) \in Seq(Items)
      /\ Len(Tail(Contents)) = Used - 1
      /\ \A i \in 1..(Used - 1) : Tail(Contents)[i] = Contents[i + 1]
  BY <1>0, <1>1, ContentsSeq, HeadTailProperties
<1>6. /\ Contents' \in Seq(Items)
      /\ Len(Contents') = Used - 1
  <2>1. \A i \in 1..(Used - 1) : buf[Slot(i)] \in Items
    BY <1>0 DEF RingInv, Stored
  <2>2. Contents' \in [1..(Used - 1) -> Items]
    BY <1>3, <2>1
  <2> QED
    BY <1>0, <2>2
<1>7. \A i \in 1..(Used - 1) : Contents'[i] = Tail(Contents)[i]
  BY <1>3, <1>4, <1>5
<1> QED
  BY <1>1, <1>2, <1>5, <1>6, <1>7, SeqEqual

(* An initial ring buffer is an empty queue. *)
LEMMA InitEmpty == RingInit => F!Init
<1> SUFFICES ASSUME RingInit PROVE F!Init
  OBVIOUS
<1>1. RingInv /\ Used = 0
  BY RingInvInit, RingLenAssumption DEF RingInit, Used
<1>2. Contents = <<>>
  BY <1>1, ContentsSeq
<1> QED
  BY <1>2 DEF F!Init, RingInit, NoItem, F!NoItem

(* Every step of the ring buffer is a step of the queue. *)
LEMMA StepRefines == RingInv /\ [RingNext]_ring => [F!Next]_(F!vars)
<1> SUFFICES ASSUME RingInv, [RingNext]_ring PROVE [F!Next]_(F!vars)
  OBVIOUS
<1>1. ASSUME NEW x \in Items, queue_put(x) PROVE F!Next
  <2>1. Len(Contents) < RingLen - 1
    BY <1>1, ContentsSeq, PutMoves, UsedRange, RingLenAssumption DEF RingInv
  <2>2. F!Put(x)
    BY <1>1, <2>1, PutAppends DEF F!Put, queue_put
  <2> QED
    BY <2>2 DEF F!Next
<1>2. ASSUME queue_get PROVE F!Next
  BY <1>2, GetRemoves DEF F!Next, F!Get
<1>3. ASSUME queue_get_none PROVE F!Next
  <2>1. Contents = <<>>
    BY <1>3, ContentsSeq, UsedRange DEF RingInv, queue_get_none
  <2>2. Contents' = Contents
    BY <1>3 DEF queue_get_none, Contents, Used, Slot
  <2> QED
    BY <1>3, <2>1, <2>2 DEF F!Next, F!GetNone, queue_get_none, NoItem, F!NoItem
<1>4. CASE UNCHANGED ring
  BY <1>4 DEF ring, F!vars, Contents, Used, Slot
<1> QED
  BY <1>1, <1>2, <1>3, <1>4 DEF RingNext

(* The ring buffer of the I2S streams implements a first-in first-out      *)
(* queue of RingLen - 1 blocks.                                            *)
THEOREM RingImplementsFifo == RingSpec => IsFifo
  BY InitEmpty, RingInvInit, RingInvStep, StepRefines, PTL DEF RingSpec, IsFifo, F!Spec

=============================================================================
