---------------------------- MODULE I2sRxProofs ----------------------------
(***************************************************************************)
(* Safety of the receive stream, for every number of blocks, places and    *)
(* readers: every queued block can be read, a block is in one place, and a *)
(* stream at rest and a stream that runs have what their states promise.   *)
(***************************************************************************)
EXTENDS I2sRx, FiniteSetTheorems, SequenceTheorems, TLAPS

Typed ==
  /\ use \in Uses
  /\ state \in States
  /\ mem_block \in Blocks \cup {NoBlock}
  /\ queue \in Seq(Blocks)
  /\ sem \in 0..RxCount
  /\ lent \subseteq Blocks
  /\ dma \in {"none", "run", "done", "failed", "held"}
  /\ ctl \in {"idle", "started"}
  /\ pc \in [Readers -> {"idle", "wait", "get", "copy"}]
  /\ hold \in [Readers -> Blocks \cup {NoBlock}]
  /\ \A r \in Readers : hold[r] # NoBlock <=> pc[r] = "copy"

(* The block and the channel that each state of the stream goes with. *)
Channel ==
  /\ dma # "none" => mem_block # NoBlock
  /\ ctl = "started" => state = "READY" /\ dma # "none"
  /\ state \in {"RUNNING", "STOPPING"} => dma # "none"
  /\ (ctl = "idle" /\ state \in {"NOT_READY", "READY", "ERROR"}) => dma = "none"
  /\ state = "ERROR" => mem_block = NoBlock
  /\ (ctl = "idle" /\ state \in {"NOT_READY", "READY"} /\ "short" \notin use) =>
       mem_block = NoBlock
  /\ "slow" \notin use => dma # "held"
  /\ "stop" \notin use => state # "STOPPING"

RxInv == Typed /\ Channel /\ BlockHasPermit /\ BlocksOwned

-----------------------------------------------------------------------------
(* The blocks of a sequence, and that each is there once. *)
Elems(q) == {q[i] : i \in DOMAIN q}
Distinct(q) == \A i, j \in DOMAIN q : q[i] = q[j] => i = j

(* queue_put adds a block to those of the queue. *)
LEMMA PutElems ==
  ASSUME NEW q \in Seq(Blocks), NEW b \in Blocks
  PROVE  /\ Append(q, b) \in Seq(Blocks)
         /\ Len(Append(q, b)) = Len(q) + 1
         /\ Elems(Append(q, b)) = Elems(q) \cup {b}
         /\ Distinct(q) /\ b \notin Elems(q) => Distinct(Append(q, b))
<1>1. /\ Append(q, b) \in Seq(Blocks) /\ Len(Append(q, b)) = Len(q) + 1
      /\ \A i \in 1..Len(q) : Append(q, b)[i] = q[i]
      /\ Append(q, b)[Len(q) + 1] = b
  BY AppendProperties
<1>2. /\ Len(q) \in Nat /\ DOMAIN q = 1..Len(q)
      /\ DOMAIN Append(q, b) = 1..(Len(q) + 1)
  BY <1>1, LenProperties
<1> DEFINE p == Append(q, b)
<1> HIDE DEF p
<1>3. Elems(p) = Elems(q) \cup {b}
  BY <1>1, <1>2 DEF Elems, p
<1>4. Distinct(q) /\ b \notin Elems(q) => Distinct(p)
  BY <1>1, <1>2 DEF Elems, Distinct, p
<1> QED
  BY <1>1, <1>3, <1>4 DEF p

(* queue_get takes the first block from those of the queue. *)
LEMMA GetElems ==
  ASSUME NEW q \in Seq(Blocks), q # <<>>
  PROVE  /\ Head(q) \in Elems(q) /\ Head(q) \in Blocks
         /\ Tail(q) \in Seq(Blocks) /\ Len(Tail(q)) = Len(q) - 1
         /\ Distinct(q) =>
              /\ Elems(Tail(q)) = Elems(q) \ {Head(q)}
              /\ Distinct(Tail(q))
<1>1. /\ Head(q) \in Blocks /\ Tail(q) \in Seq(Blocks) /\ Len(Tail(q)) = Len(q) - 1
      /\ \A i \in 1..Len(Tail(q)) : Tail(q)[i] = q[i + 1]
  BY HeadTailProperties
<1>2. /\ Len(q) \in Nat \ {0} /\ DOMAIN q = 1..Len(q) /\ Head(q) = q[1]
      /\ DOMAIN Tail(q) = 1..(Len(q) - 1)
  BY <1>1, LenProperties, EmptySeq
<1> DEFINE p == Tail(q)
<1> HIDE DEF p
<1>3. ASSUME Distinct(q) PROVE Elems(p) = Elems(q) \ {q[1]}
  <2>1. ASSUME NEW x \in Elems(p) PROVE x \in Elems(q) /\ x # q[1]
    BY <1>1, <1>2, <1>3 DEF Elems, Distinct, p
  <2>2. ASSUME NEW i \in DOMAIN q, q[i] # q[1] PROVE q[i] \in Elems(p)
    <3>1. i - 1 \in 1..(Len(q) - 1) /\ (i - 1) + 1 = i
      BY <1>2, <2>2
    <3>2. p[i - 1] = q[i]
      BY <1>1, <1>2, <3>1 DEF p
    <3> QED
      BY <1>2, <3>1, <3>2 DEF Elems, p
  <2> QED
    BY <2>1, <2>2 DEF Elems
<1>4. Distinct(q) => Distinct(p)
  BY <1>1, <1>2 DEF Distinct, p
<1>5. q[1] \in Elems(q)
  BY <1>2 DEF Elems
<1> QED
  BY <1>1, <1>2, <1>3, <1>4, <1>5 DEF p

(* The readers that are past the semaphore. *)
Getters == {r \in Readers : pc[r] = "get"}

(* How their number changes when a reader goes on. *)
LEMMA GettersStep ==
  ASSUME Typed, NEW r \in Readers, NEW l, pc' = [pc EXCEPT ![r] = l]
  PROVE  /\ Cardinality(Getters) \in Nat
         /\ (pc[r] # "get" /\ l = "get") =>
              Cardinality(Getters') = Cardinality(Getters) + 1
         /\ (pc[r] = "get" /\ l # "get") =>
              Cardinality(Getters') = Cardinality(Getters) - 1
         /\ (pc[r] # "get" /\ l # "get") => Getters' = Getters
<1>1. IsFiniteSet(Getters)
  BY RxAssumption, FS_Subset DEF Getters
<1>2. (pc[r] # "get" /\ l = "get") => Getters' = Getters \cup {r} /\ r \notin Getters
  BY DEF Getters, Typed
<1>3. (pc[r] = "get" /\ l # "get") => Getters' = Getters \ {r} /\ r \in Getters
  BY DEF Getters, Typed
<1>4. (pc[r] # "get" /\ l # "get") => Getters' = Getters
  BY DEF Getters, Typed
<1> QED
  BY <1>1, <1>2, <1>3, <1>4, FS_CardinalityType, FS_AddElement, FS_RemoveElement

(* Every step keeps the types. *)
LEMMA TypedStep ==
  ASSUME Typed, Channel, [Next]_vars
  PROVE  Typed'
<1> USE RxAssumption
<1>u. use' = use
  BY DEF Next, vars
<1>1. ASSUME scm_i2s_configure PROVE Typed'
  BY <1>1, <1>u DEF scm_i2s_configure, Typed, Channel, States
<1>2. ASSUME python_i2s_configure_off PROVE Typed'
  BY <1>2, <1>u
  DEF python_i2s_configure_off, rx_queue_drop, QueuedBlocks, Typed, Channel, States
<1>3. ASSUME scm_i2s_deinit PROVE Typed'
  BY <1>3, <1>u DEF scm_i2s_deinit, Typed, Channel, States
<1>4. ASSUME rx_stream_start PROVE Typed'
  BY <1>4, <1>u DEF rx_stream_start, Typed, Channel, States
<1>5. ASSUME rx_stream_start_busy PROVE Typed'
  BY <1>5, <1>u DEF rx_stream_start_busy, Typed, Channel, States
<1>6. ASSUME start_end PROVE Typed'
  BY <1>6, <1>u DEF start_end, Typed, Channel, States
<1>7. ASSUME trigger_stop PROVE Typed'
  BY <1>7, <1>u DEF trigger_stop, stream_disable, Typed, Channel, States
<1>8. ASSUME trigger_drop PROVE Typed'
  BY <1>8, <1>u
  DEF trigger_drop, stream_disable, rx_queue_drop, QueuedBlocks, Typed, Channel,
      States
<1>9. ASSUME trigger_prepare PROVE Typed'
  BY <1>9, <1>u DEF trigger_prepare, rx_queue_drop, QueuedBlocks, Typed, Channel, States
<1>10. ASSUME transfer_done PROVE Typed'
  BY <1>10, <1>u DEF transfer_done, Typed, Channel, States
<1>11. ASSUME transfer_error PROVE Typed'
  BY <1>11, <1>u DEF transfer_error, Typed, Channel, States
<1>12. ASSUME callback_ignore PROVE Typed'
  BY <1>12, <1>u DEF callback_ignore, Interrupt, Typed, Channel, States
<1>13. ASSUME callback_error PROVE Typed'
  BY <1>13, <1>u DEF callback_error, Interrupt, stream_disable, Typed, Channel, States
<1>14. ASSUME callback_no_block PROVE Typed'
  BY <1>14, <1>u
  DEF callback_no_block, Interrupt, stream_disable, Typed, Channel, States
<1>15. ASSUME callback_queue_full PROVE Typed'
  BY <1>15, <1>u
  DEF callback_queue_full, Interrupt, stream_disable, Typed, Channel, States
<1>16. ASSUME callback_next PROVE Typed'
  BY <1>16, <1>u DEF callback_next, Interrupt, Typed, Channel, States
<1>17. ASSUME callback_stop PROVE Typed'
  BY <1>17, <1>u DEF callback_stop, Interrupt, stream_disable, Typed, Channel, States
<1>18. ASSUME NEW r \in Readers, read_state(r) PROVE Typed'
  BY <1>18, <1>u DEF read_state, stream, Typed, Channel, States
<1>19. ASSUME NEW r \in Readers, read_acquire(r) PROVE Typed'
  BY <1>19, <1>u DEF read_acquire, Typed, Channel, States
<1>20. ASSUME NEW r \in Readers, read_timeout(r) PROVE Typed'
  BY <1>20, <1>u DEF read_timeout, stream, Typed, Channel, States
<1>21. ASSUME NEW r \in Readers, read_get(r) PROVE Typed'
  <2>1. queue' \in Seq(Blocks)
    BY <1>21, GetElems DEF read_get, Typed
  <2>2. queue # <<>> => Head(queue) \in Blocks
    BY GetElems DEF Typed
  <2>3. CASE queue = <<>>
    BY <1>21, <1>u, <2>1, <2>3 DEF read_get, Typed
  <2>4. CASE queue # <<>>
    BY <1>21, <1>u, <2>1, <2>2, <2>4 DEF read_get, Typed
  <2> QED
    BY <2>3, <2>4
<1>22. ASSUME NEW r \in Readers, read_free(r) PROVE Typed'
  BY <1>22, <1>u DEF read_free, Typed, Channel, States
<1>23. CASE UNCHANGED vars
  BY <1>23 DEF vars, stream, Typed, Channel, States
<1> QED
  BY <1>1, <1>2, <1>3, <1>4, <1>5, <1>6, <1>7, <1>8, <1>9, <1>10, <1>11, <1>12, <1>13,
     <1>14, <1>15, <1>16, <1>17, <1>18, <1>19, <1>20, <1>21, <1>22, <1>23
  DEF Next, control, read, dma_rx_callback

(* Every step keeps the block and the channel that go with the state. *)
LEMMA ChannelStep ==
  ASSUME Typed, Channel, [Next]_vars
  PROVE  Channel'
<1> USE RxAssumption
<1>u. use' = use
  BY DEF Next, vars
<1>1. ASSUME scm_i2s_configure PROVE Channel'
  BY <1>1, <1>u DEF scm_i2s_configure, Typed, Channel, States
<1>2. ASSUME python_i2s_configure_off PROVE Channel'
  BY <1>2, <1>u
  DEF python_i2s_configure_off, rx_queue_drop, QueuedBlocks, Typed, Channel, States
<1>3. ASSUME scm_i2s_deinit PROVE Channel'
  BY <1>3, <1>u DEF scm_i2s_deinit, Typed, Channel, States
<1>4. ASSUME rx_stream_start PROVE Channel'
  BY <1>4, <1>u DEF rx_stream_start, Typed, Channel, States
<1>5. ASSUME rx_stream_start_busy PROVE Channel'
  BY <1>5, <1>u DEF rx_stream_start_busy, Typed, Channel, States
<1>6. ASSUME start_end PROVE Channel'
  BY <1>6, <1>u DEF start_end, Typed, Channel, States
<1>7. ASSUME trigger_stop PROVE Channel'
  BY <1>7, <1>u DEF trigger_stop, stream_disable, Typed, Channel, States
<1>8. ASSUME trigger_drop PROVE Channel'
  BY <1>8, <1>u
  DEF trigger_drop, stream_disable, rx_queue_drop, QueuedBlocks, Typed, Channel,
      States
<1>9. ASSUME trigger_prepare PROVE Channel'
  BY <1>9, <1>u DEF trigger_prepare, rx_queue_drop, QueuedBlocks, Typed, Channel, States
<1>10. ASSUME transfer_done PROVE Channel'
  BY <1>10, <1>u DEF transfer_done, Typed, Channel, States
<1>11. ASSUME transfer_error PROVE Channel'
  BY <1>11, <1>u DEF transfer_error, Typed, Channel, States
<1>12. ASSUME callback_ignore PROVE Channel'
  BY <1>12, <1>u DEF callback_ignore, Interrupt, Typed, Channel, States
<1>13. ASSUME callback_error PROVE Channel'
  BY <1>13, <1>u DEF callback_error, Interrupt, stream_disable, Typed, Channel, States
<1>14. ASSUME callback_no_block PROVE Channel'
  BY <1>14, <1>u
  DEF callback_no_block, Interrupt, stream_disable, Typed, Channel, States
<1>15. ASSUME callback_queue_full PROVE Channel'
  BY <1>15, <1>u
  DEF callback_queue_full, Interrupt, stream_disable, Typed, Channel, States
<1>16. ASSUME callback_next PROVE Channel'
  BY <1>16, <1>u DEF callback_next, Interrupt, Typed, Channel, States
<1>17. ASSUME callback_stop PROVE Channel'
  BY <1>17, <1>u DEF callback_stop, Interrupt, stream_disable, Typed, Channel, States
<1>18. ASSUME NEW r \in Readers, read_state(r) PROVE Channel'
  BY <1>18, <1>u DEF read_state, stream, Typed, Channel, States
<1>19. ASSUME NEW r \in Readers, read_acquire(r) PROVE Channel'
  BY <1>19, <1>u DEF read_acquire, Typed, Channel, States
<1>20. ASSUME NEW r \in Readers, read_timeout(r) PROVE Channel'
  BY <1>20, <1>u DEF read_timeout, stream, Typed, Channel, States
<1>21. ASSUME NEW r \in Readers, read_get(r) PROVE Channel'
  BY <1>21, <1>u DEF read_get, Typed, Channel, States
<1>22. ASSUME NEW r \in Readers, read_free(r) PROVE Channel'
  BY <1>22, <1>u DEF read_free, Typed, Channel, States
<1>23. CASE UNCHANGED vars
  BY <1>23 DEF vars, stream, Typed, Channel, States
<1> QED
  BY <1>1, <1>2, <1>3, <1>4, <1>5, <1>6, <1>7, <1>8, <1>9, <1>10, <1>11, <1>12, <1>13,
     <1>14, <1>15, <1>16, <1>17, <1>18, <1>19, <1>20, <1>21, <1>22, <1>23
  DEF Next, control, read, dma_rx_callback

(* BlockHasPermit in terms of Getters. *)
Permits == Len(queue) <= sem + Cardinality(Getters)

(* Every step keeps a permit, or a reader past the semaphore, per block. *)
LEMMA PermitsStep ==
  ASSUME Typed, Channel, Permits, [Next]_vars
  PROVE  Permits'
<1> USE RxAssumption
<1>c. Cardinality(Getters) \in Nat /\ Len(queue) \in Nat
  BY FS_Subset, FS_CardinalityType, LenProperties DEF Getters, Typed
<1>g. pc' = pc => Getters' = Getters
  BY DEF Getters
<1>1. ASSUME scm_i2s_configure PROVE Permits'
  BY <1>1, <1>c, <1>g DEF scm_i2s_configure, Permits
<1>2. ASSUME python_i2s_configure_off PROVE Permits'
  BY <1>2, <1>c, <1>g DEF python_i2s_configure_off, rx_queue_drop, QueuedBlocks, Permits
<1>3. ASSUME scm_i2s_deinit PROVE Permits'
  BY <1>3, <1>c, <1>g DEF scm_i2s_deinit, Permits
<1>4. ASSUME rx_stream_start PROVE Permits'
  BY <1>4, <1>c, <1>g DEF rx_stream_start, Permits
<1>5. ASSUME rx_stream_start_busy PROVE Permits'
  BY <1>5, <1>c, <1>g DEF rx_stream_start_busy, Permits
<1>6. ASSUME start_end PROVE Permits'
  BY <1>6, <1>c, <1>g DEF start_end, Permits
<1>7. ASSUME trigger_stop PROVE Permits'
  BY <1>7, <1>c, <1>g DEF trigger_stop, stream_disable, Permits
<1>8. ASSUME trigger_drop PROVE Permits'
  BY <1>8, <1>c, <1>g
  DEF trigger_drop, stream_disable, rx_queue_drop, QueuedBlocks, Permits
<1>9. ASSUME trigger_prepare PROVE Permits'
  BY <1>9, <1>c, <1>g DEF trigger_prepare, rx_queue_drop, QueuedBlocks, Permits
<1>10. ASSUME transfer_done PROVE Permits'
  BY <1>10, <1>c, <1>g DEF transfer_done, Permits
<1>11. ASSUME transfer_error PROVE Permits'
  BY <1>11, <1>c, <1>g DEF transfer_error, Permits
<1>12. ASSUME callback_ignore PROVE Permits'
  BY <1>12, <1>c, <1>g DEF callback_ignore, Interrupt, Permits
<1>13. ASSUME callback_error PROVE Permits'
  BY <1>13, <1>c, <1>g DEF callback_error, Interrupt, stream_disable, Permits
<1>14. ASSUME callback_no_block PROVE Permits'
  BY <1>14, <1>c, <1>g DEF callback_no_block, Interrupt, stream_disable, Permits
<1>15. ASSUME callback_queue_full PROVE Permits'
  BY <1>15, <1>c, <1>g DEF callback_queue_full, Interrupt, stream_disable, Permits
<1>16. ASSUME callback_next PROVE Permits'
  <2>1. Len(queue') = Len(queue) + 1
    BY <1>16, PutElems DEF callback_next, Interrupt, Channel, Typed
  <2> QED
    BY <1>16, <1>c, <1>g, <2>1 DEF callback_next, Permits, Typed
<1>17. ASSUME callback_stop PROVE Permits'
  <2>1. Len(queue') = Len(queue) + 1
    BY <1>17, PutElems DEF callback_stop, Interrupt, Channel, Typed
  <2> QED
    BY <1>17, <1>c, <1>g, <2>1 DEF callback_stop, Permits, Typed
<1>18. ASSUME NEW r \in Readers, read_state(r) PROVE Permits'
  <2>1. \/ Getters' = Getters
        \/ Cardinality(Getters') = Cardinality(Getters) + 1
    BY <1>18, GettersStep DEF read_state
  <2> QED
    BY <1>18, <1>c, <2>1 DEF read_state, stream, Permits, Typed
<1>19. ASSUME NEW r \in Readers, read_acquire(r) PROVE Permits'
  <2>1. Cardinality(Getters') = Cardinality(Getters) + 1
    BY <1>19, GettersStep DEF read_acquire
  <2> QED
    BY <1>19, <1>c, <2>1 DEF read_acquire, Permits, Typed
<1>20. ASSUME NEW r \in Readers, read_timeout(r) PROVE Permits'
  <2>1. pc' = [pc EXCEPT ![r] = "idle"] /\ pc[r] # "get"
    BY <1>20 DEF read_timeout
  <2>2. Getters' = Getters
    BY <2>1 DEF Getters, Typed
  <2> QED
    BY <1>20, <2>2 DEF read_timeout, stream, Permits
<1>21. ASSUME NEW r \in Readers, read_get(r) PROVE Permits'
  <2>1. Cardinality(Getters') = Cardinality(Getters) - 1
    BY <1>21, GettersStep DEF read_get
  <2>2. Cardinality(Getters') \in Nat
    BY RxAssumption, FS_Subset, FS_CardinalityType DEF Getters
  <2>3. CASE queue = <<>>
    BY <1>21, <2>2, <2>3 DEF read_get, Permits, Typed
  <2>4. CASE queue # <<>>
    BY <1>21, <1>c, <2>1, <2>4, GetElems DEF read_get, Permits, Typed
  <2> QED
    BY <2>3, <2>4
<1>22. ASSUME NEW r \in Readers, read_free(r) PROVE Permits'
  <2>1. pc' = [pc EXCEPT ![r] = "idle"] /\ pc[r] # "get"
    BY <1>22 DEF read_free
  <2>2. Getters' = Getters
    BY <2>1 DEF Getters, Typed
  <2> QED
    BY <1>22, <2>2 DEF read_free, Permits
<1>23. CASE UNCHANGED vars
  BY <1>23 DEF vars, stream, Permits, Getters
<1> QED
  BY <1>1, <1>2, <1>3, <1>4, <1>5, <1>6, <1>7, <1>8, <1>9, <1>10, <1>11, <1>12, <1>13,
     <1>14, <1>15, <1>16, <1>17, <1>18, <1>19, <1>20, <1>21, <1>22, <1>23
  DEF Next, control, read, dma_rx_callback

(* OneOwner, element by element. *)
Owned ==
  /\ Distinct(queue)
  /\ \A r \in Readers : hold[r] # NoBlock =>
       /\ hold[r] \notin Elems(queue)
       /\ \A q \in Readers : hold[q] = hold[r] => q = r
  /\ mem_block \notin Elems(queue)
  /\ mem_block # NoBlock => \A r \in Readers : hold[r] # mem_block
  /\ \A b \in Blocks :
       b \in lent <=> b = mem_block \/ b \in Elems(queue) \/ \E r \in Readers : hold[r] = b

(* The blocks of a queue are blocks, and an empty queue has none. *)
LEMMA ElemsBlocks ==
  /\ \A q \in Seq(Blocks) : Elems(q) \subseteq Blocks
  /\ Elems(<<>>) = {} /\ Distinct(<<>>)
<1>1. ASSUME NEW q \in Seq(Blocks) PROVE Elems(q) \subseteq Blocks
  BY LenProperties, ElementOfSeq DEF Elems
<1>2. DOMAIN <<>> = {}
  OBVIOUS
<1>3. Elems(<<>>) = {}
  BY <1>2 DEF Elems
<1>4. Distinct(<<>>)
  BY <1>2 DEF Distinct
<1> QED
  BY <1>1, <1>3, <1>4

(* The two forms of BlocksOwned are the same. *)
LEMMA OwnedForm == Typed => (OneOwner <=> Owned)
<1> SUFFICES ASSUME Typed PROVE OneOwner <=> Owned
  OBVIOUS
<1>1. QueuedBlocks = Elems(queue)
  BY DEF QueuedBlocks, Elems
<1>2. Elems(queue) \subseteq Blocks
  BY ElemsBlocks DEF Typed
<1>3. OneOwner => Owned
  BY <1>1, <1>2, RxAssumption DEF OneOwner, Owned, Distinct, Typed
<1>4. Owned => OneOwner
  BY <1>1, <1>2, RxAssumption DEF OneOwner, Owned, Distinct, Typed
<1> QED
  BY <1>3, <1>4

(* Without STOP, every step keeps a block in one place. *)
LEMMA OwnedStep ==
  ASSUME Typed, Channel, Owned, "stop" \notin use, [Next]_vars
  PROVE  Owned'
<1> USE RxAssumption
<1>q. Elems(queue) \subseteq Blocks
  BY ElemsBlocks DEF Typed
<1>1. ASSUME scm_i2s_configure PROVE Owned'
  BY <1>1, <1>q DEF scm_i2s_configure, Owned, Typed, Channel
<1>2. ASSUME python_i2s_configure_off PROVE Owned'
  <2>1. QueuedBlocks = Elems(queue)
    BY DEF QueuedBlocks, Elems
  <2> QED
    BY <1>2, <1>q, <2>1, ElemsBlocks
    DEF python_i2s_configure_off, stream_disable, rx_queue_drop, Owned, Typed, Channel
<1>3. ASSUME scm_i2s_deinit PROVE Owned'
  BY <1>3, <1>q DEF scm_i2s_deinit, Owned, Typed, Channel
<1>4. ASSUME rx_stream_start PROVE Owned'
  BY <1>4, <1>q DEF rx_stream_start, Owned, Typed, Channel
<1>5. ASSUME rx_stream_start_busy PROVE Owned'
  BY <1>5, <1>q DEF rx_stream_start_busy, Owned, Typed, Channel
<1>6. ASSUME start_end PROVE Owned'
  BY <1>6, <1>q DEF start_end, Owned, Typed, Channel
<1>7. ASSUME trigger_stop PROVE Owned'
  BY <1>7 DEF trigger_stop
<1>8. ASSUME trigger_drop PROVE Owned'
  <2>1. QueuedBlocks = Elems(queue)
    BY DEF QueuedBlocks, Elems
  <2> QED
    BY <1>8, <1>q, <2>1, ElemsBlocks
    DEF trigger_drop, stream_disable, rx_queue_drop, Owned, Typed, Channel
<1>9. ASSUME trigger_prepare PROVE Owned'
  <2>1. QueuedBlocks = Elems(queue)
    BY DEF QueuedBlocks, Elems
  <2> QED
    BY <1>9, <1>q, <2>1, ElemsBlocks
    DEF trigger_prepare, stream_disable, rx_queue_drop, Owned, Typed, Channel
<1>10. ASSUME transfer_done PROVE Owned'
  BY <1>10, <1>q DEF transfer_done, Owned, Typed, Channel
<1>11. ASSUME transfer_error PROVE Owned'
  BY <1>11, <1>q DEF transfer_error, Owned, Typed, Channel
<1>12. ASSUME callback_ignore PROVE Owned'
  BY <1>12, <1>q DEF callback_ignore, Interrupt, Owned, Typed, Channel
<1>13. ASSUME callback_error PROVE Owned'
  BY <1>13, <1>q DEF callback_error, Interrupt, stream_disable, Owned, Typed, Channel
<1>14. ASSUME callback_no_block PROVE Owned'
  BY <1>14, <1>q DEF callback_no_block, Interrupt, stream_disable, Owned, Typed, Channel
<1>15. ASSUME callback_queue_full PROVE Owned'
  BY <1>15, <1>q
  DEF callback_queue_full, Interrupt, stream_disable, Owned, Typed, Channel
<1>16. ASSUME callback_next PROVE Owned'
  <2>1. PICK b \in Blocks \ lent : mem_block' = b /\ lent' = lent \cup {b}
    BY <1>16 DEF callback_next
  <2>2. mem_block \in Blocks
    BY <1>16 DEF callback_next, Channel, Typed
  <2>3. Elems(queue') = Elems(queue) \cup {mem_block} /\ Distinct(queue')
    BY <1>16, <2>2, PutElems DEF callback_next, Owned, Typed
  <2>4. b # mem_block /\ b \notin Elems(queue) /\ \A r \in Readers : hold[r] # b
    BY <2>1 DEF Owned
  <2> QED
    BY <1>16, <1>q, <2>1, <2>2, <2>3, <2>4 DEF callback_next, Owned, Typed
<1>17. ASSUME callback_stop PROVE Owned'
  BY <1>17 DEF callback_stop, Channel, Typed
<1>18. ASSUME NEW r \in Readers, read_state(r) PROVE Owned'
  BY <1>18, <1>q DEF read_state, stream, Owned, Typed, Channel
<1>19. ASSUME NEW r \in Readers, read_acquire(r) PROVE Owned'
  BY <1>19, <1>q DEF read_acquire, Owned, Typed, Channel
<1>20. ASSUME NEW r \in Readers, read_timeout(r) PROVE Owned'
  BY <1>20, <1>q DEF read_timeout, stream, Owned, Typed, Channel
<1>21. ASSUME NEW r \in Readers, read_get(r) PROVE Owned'
  <2>1. CASE queue = <<>>
    BY <1>21, <2>1 DEF read_get, Owned
  <2>2. CASE queue # <<>>
    <3>1. /\ Head(queue) \in Elems(queue) /\ Head(queue) \in Blocks
          /\ Elems(queue') = Elems(queue) \ {Head(queue)} /\ Distinct(queue')
      <4>1. queue' = Tail(queue)
        BY <1>21, <2>2 DEF read_get
      <4>2. queue \in Seq(Blocks) /\ Distinct(queue)
        BY DEF Owned, Typed
      <4> QED
        BY <2>2, <4>1, <4>2, GetElems
    <3>2. hold' = [hold EXCEPT ![r] = Head(queue)] /\ hold[r] = NoBlock
      BY <1>21, <2>2 DEF read_get, Typed
    <3> QED
      BY <1>21, <1>q, <3>1, <3>2 DEF read_get, Owned, Typed
  <2> QED
    BY <2>1, <2>2
<1>22. ASSUME NEW r \in Readers, read_free(r) PROVE Owned'
  BY <1>22, <1>q DEF read_free, Owned, Typed, Channel
<1>23. CASE UNCHANGED vars
  BY <1>23 DEF vars, stream, Owned, Typed, Channel
<1> QED
  BY <1>1, <1>2, <1>3, <1>4, <1>5, <1>6, <1>7, <1>8, <1>9, <1>10, <1>11, <1>12, <1>13,
     <1>14, <1>15, <1>16, <1>17, <1>18, <1>19, <1>20, <1>21, <1>22, <1>23
  DEF Next, control, read, dma_rx_callback

-----------------------------------------------------------------------------
(* A stream that has not been configured satisfies the invariant. *)
LEMMA RxInvInit == Init => RxInv
<1> SUFFICES ASSUME Init PROVE RxInv
  OBVIOUS
<1> USE RxAssumption
<1>1. Typed
  BY ElemsBlocks DEF Init, Typed, States
<1>2. Channel
  BY DEF Init, Channel
<1>3. BlockHasPermit
  <2>1. Getters = {}
    BY DEF Init, Getters
  <2>2. Permits
    BY <2>1, FS_EmptySet DEF Init, Permits
  <2> QED
    BY <2>2 DEF BlockHasPermit, Permits, Getters
<1>4. Owned
  BY ElemsBlocks DEF Init, Owned
<1> QED
  BY <1>1, <1>2, <1>3, <1>4, OwnedForm DEF RxInv, BlocksOwned

(* Every step of the tasks and of the interrupt keeps it. *)
LEMMA RxInvStep == RxInv /\ [Next]_vars => RxInv'
<1> SUFFICES ASSUME RxInv, [Next]_vars PROVE RxInv'
  OBVIOUS
<1>1. Typed' /\ Channel'
  BY TypedStep, ChannelStep DEF RxInv
<1>2. BlockHasPermit'
  <2>1. BlockHasPermit <=> Permits
    BY DEF BlockHasPermit, Permits, Getters
  <2>2. BlockHasPermit' <=> Permits'
    BY DEF BlockHasPermit, Permits, Getters
  <2> QED
    BY <2>1, <2>2, PermitsStep DEF RxInv
<1>3. BlocksOwned'
  <2>1. use' = use
    BY DEF Next, vars
  <2>2. ASSUME "stop" \notin use PROVE OneOwner'
    <3>1. Owned
      BY <2>2, OwnedForm DEF RxInv, BlocksOwned
    <3>2. Owned'
      BY <2>2, <3>1, OwnedStep DEF RxInv
    <3>3. Typed' => (OneOwner' <=> Owned')
      BY OwnedForm, PTL
    <3> QED
      BY <1>1, <3>2, <3>3
  <2> QED
    BY <2>1, <2>2 DEF BlocksOwned
<1> QED
  BY <1>1, <1>2, <1>3 DEF RxInv

(* The inductive invariant of the receive stream. *)
THEOREM RxInvariant == Spec => []RxInv
  BY RxInvInit, RxInvStep, PTL DEF Spec

(* BlockHasPermit, for every number of readers and places: no block of     *)
(* dma_rx_callback waits in the queue without a permit to wake a reader,   *)
(* whatever i2s-python.c drops, saturates or reads in ERROR.               *)
THEOREM BlocksReadable == Spec => []BlockHasPermit
<1>1. RxInv => BlockHasPermit
  BY DEF RxInv
<1> QED
  BY <1>1, RxInvariant, PTL

(* BlocksOwned, for every number of blocks, places and readers: without    *)
(* STOP, a block of the slab is with the DMA, in the queue or with one     *)
(* reader of python_i2s_buf_read, and none is lost.                        *)
THEOREM RxBlocksOwned == Spec => []BlocksOwned
<1>1. RxInv => BlocksOwned
  BY DEF RxInv
<1> QED
  BY <1>1, RxInvariant, PTL

(* AtRest: stream_disable and the assertion on mem_block at START. *)
THEOREM RxAtRest == Spec => []AtRest
<1>1. RxInv => AtRest
  <2>1. ASSUME RxInv, state = "ERROR" PROVE ctl = "idle"
    BY <2>1 DEF RxInv, Typed, Channel
  <2> QED
    BY <2>1 DEF RxInv, Channel, AtRest
<1> QED
  BY <1>1, RxInvariant, PTL

(* RunningFed: a stream that is RUNNING or STOPPING has a block and a      *)
(* channel that works on it, in every use without a slow START.            *)
THEOREM RxRunningFed == Spec => []RunningFed
<1>1. RxInv => RunningFed
  BY DEF RxInv, Typed, Channel, RunningFed
<1> QED
  BY <1>1, RxInvariant, PTL
=============================================================================
