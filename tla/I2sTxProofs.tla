---------------------------- MODULE I2sTxProofs ----------------------------
(***************************************************************************)
(* Safety of the transmit stream, for every number of blocks and places,   *)
(* and in every use: racing tasks, a block that is sent before its start   *)
(* has returned, channels that run out and aborts that are reported late.  *)
(***************************************************************************)
EXTENDS I2sTx, SequenceTheorems, TLAPS

(* What each program point of the tasks and each state of the stream imply *)
(* about last_block, which would end a DRAIN early.                        *)
LastBlock ==
  /\ state = "STARTING" => ~last_block
  /\ (last_block /\ dma # "none") => ctl = "started"
  /\ ctl # "idle" => state # "STOPPING"

(* The type invariant without the bound on sem, which follows from         *)
(* PlacesExact, and with the block of a writer that is about to put it.    *)
Typed ==
  /\ state \in States
  /\ mem_block \in Blocks \cup {NoBlock}
  /\ queue \in Seq(Blocks)
  /\ sem \in Nat
  /\ lent \subseteq Blocks
  /\ dma \in {"none", "run", "done", "failed"}
  /\ drain \in BOOLEAN /\ last_block \in BOOLEAN
  /\ ctl \in {"idle", "started", "no_data"}
  /\ pc \in {"idle", "check", "acquire", "free", "put", "look", "started"}
  /\ hold \in Blocks \cup {NoBlock}
  /\ pc \in {"check", "acquire", "put"} => hold \in Blocks

TxInv == Typed /\ PlacesExact /\ LastBlock

(* A stream that has not been configured satisfies the invariant. *)
LEMMA TxInit == Init => TxInv
<1> SUFFICES ASSUME Init PROVE TxInv
  OBVIOUS
<1>1. Typed
  <2>1. <<>> \in Seq(Blocks)
    OBVIOUS
  <2> QED
    BY <2>1, TxAssumption DEF Init, Typed, States
<1>2. PlacesExact
  BY TxAssumption DEF Init, PlacesExact
<1>3. LastBlock
  BY DEF Init, LastBlock
<1> QED
  BY <1>1, <1>2, <1>3 DEF TxInv

(* The first block of a queue, and what is left without it. *)
LEMMA HeadTail ==
  ASSUME Typed, queue # <<>>
  PROVE  /\ Head(queue) \in Blocks
         /\ Tail(queue) \in Seq(Blocks)
         /\ Len(Tail(queue)) = Len(queue) - 1
         /\ Len(queue) \in Nat
  BY HeadTailProperties, LenProperties DEF Typed

(* Every step of the controlling task keeps the invariant. *)
LEMMA ControlStep == TxInv /\ control => TxInv'
<1> SUFFICES ASSUME TxInv, control PROVE TxInv'
  OBVIOUS
<1> USE TxAssumption
<1>0. Typed /\ PlacesExact /\ LastBlock /\ Len(queue) \in Nat
  BY LenProperties DEF TxInv, Typed
<1>1. ASSUME scm_i2s_configure PROVE TxInv'
  <2>1. Typed'
    BY <1>0, <1>1 DEF Typed, States, scm_i2s_configure, ControlFree
  <2>2. PlacesExact'
    BY <1>0, <1>1 DEF Typed, PlacesExact, scm_i2s_configure, ControlFree
  <2>3. LastBlock'
    BY <1>0, <1>1 DEF Typed, LastBlock, scm_i2s_configure, ControlFree
  <2> QED
    BY <2>1, <2>2, <2>3 DEF TxInv
<1>2. ASSUME python_i2s_configure_off PROVE TxInv'
  <2>1. Typed'
    BY <1>0, <1>2
    DEF Typed, States, python_i2s_configure_off, ControlFree, tx_queue_drop
  <2>2. PlacesExact'
    BY <1>0, <1>2
    DEF Typed, PlacesExact, python_i2s_configure_off, ControlFree, tx_queue_drop
  <2>3. LastBlock'
    BY <1>0, <1>2
    DEF Typed, LastBlock, python_i2s_configure_off, ControlFree, tx_queue_drop
  <2> QED
    BY <2>1, <2>2, <2>3 DEF TxInv
<1>3. ASSUME scm_i2s_deinit PROVE TxInv'
  <2>1. Typed'
    BY <1>0, <1>3 DEF Typed, States, scm_i2s_deinit, ControlFree
  <2>2. PlacesExact'
    BY <1>0, <1>3 DEF Typed, PlacesExact, scm_i2s_deinit, ControlFree
  <2>3. LastBlock'
    BY <1>0, <1>3 DEF Typed, LastBlock, scm_i2s_deinit, ControlFree
  <2> QED
    BY <2>1, <2>2, <2>3 DEF TxInv
<1>4. ASSUME start_data PROVE TxInv'
  <2>0. queue # <<>>
    BY <1>4 DEF start_data, tx_stream_start, ControlFree
  <2>1. Typed'
    BY <1>0, <1>4, <2>0, HeadTail
    DEF Typed, States, start_data, tx_stream_start, ControlFree
  <2>2. PlacesExact'
    BY <1>0, <1>4, <2>0, HeadTail
    DEF Typed, PlacesExact, start_data, tx_stream_start, ControlFree
  <2>3. LastBlock'
    BY <1>0, <1>4, <2>0 DEF Typed, LastBlock, start_data, tx_stream_start, ControlFree
  <2> QED
    BY <2>1, <2>2, <2>3 DEF TxInv
<1>5. ASSUME start_busy PROVE TxInv'
  <2>0. queue # <<>>
    BY <1>5 DEF start_busy, tx_stream_start_busy, ControlFree
  <2>1. Typed'
    BY <1>0, <1>5, <2>0, HeadTail
    DEF Typed, States, start_busy, tx_stream_start_busy, ControlFree
  <2>2. PlacesExact'
    BY <1>0, <1>5, <2>0, HeadTail
    DEF Typed, PlacesExact, start_busy, tx_stream_start_busy, ControlFree
  <2>3. LastBlock'
    BY <1>0, <1>5, <2>0
    DEF Typed, LastBlock, start_busy, tx_stream_start_busy, ControlFree
  <2> QED
    BY <2>1, <2>2, <2>3 DEF TxInv
<1>6. ASSUME start_no_data PROVE TxInv'
  <2>1. Typed'
    BY <1>0, <1>6 DEF Typed, States, start_no_data, ControlFree, stream
  <2>2. PlacesExact'
    BY <1>0, <1>6 DEF Typed, PlacesExact, start_no_data, ControlFree, stream
  <2>3. LastBlock'
    BY <1>0, <1>6 DEF Typed, LastBlock, start_no_data, ControlFree, stream
  <2> QED
    BY <2>1, <2>2, <2>3 DEF TxInv
<1>7. ASSUME start_end PROVE TxInv'
  <2>1. Typed'
    BY <1>0, <1>7 DEF Typed, States, start_end, ControlFree
  <2>2. PlacesExact'
    BY <1>0, <1>7 DEF Typed, PlacesExact, start_end, ControlFree
  <2>3. LastBlock'
    BY <1>0, <1>7 DEF Typed, LastBlock, start_end, ControlFree
  <2> QED
    BY <2>1, <2>2, <2>3 DEF TxInv
<1>8. ASSUME trigger_stop PROVE TxInv'
  <2>1. Typed'
    BY <1>0, <1>8 DEF Typed, States, trigger_stop, ControlFree, stream_disable
  <2>2. PlacesExact'
    BY <1>0, <1>8 DEF Typed, PlacesExact, trigger_stop, ControlFree, stream_disable
  <2>3. LastBlock'
    BY <1>0, <1>8 DEF Typed, LastBlock, trigger_stop, ControlFree, stream_disable
  <2> QED
    BY <2>1, <2>2, <2>3 DEF TxInv
<1>9. ASSUME trigger_drain PROVE TxInv'
  <2>1. Typed'
    BY <1>0, <1>9 DEF Typed, States, trigger_drain, ControlFree, stream_disable
  <2>2. PlacesExact'
    BY <1>0, <1>9 DEF Typed, PlacesExact, trigger_drain, ControlFree, stream_disable
  <2>3. LastBlock'
    BY <1>0, <1>9 DEF Typed, LastBlock, trigger_drain, ControlFree, stream_disable
  <2> QED
    BY <2>1, <2>2, <2>3 DEF TxInv
<1>10. ASSUME trigger_drop PROVE TxInv'
  <2>1. Typed'
    BY <1>0, <1>10
    DEF Typed, States, trigger_drop, ControlFree, tx_queue_drop, stream_disable
  <2>2. PlacesExact'
    BY <1>0, <1>10
    DEF Typed, PlacesExact, trigger_drop, ControlFree, tx_queue_drop, stream_disable
  <2>3. LastBlock'
    BY <1>0, <1>10
    DEF Typed, LastBlock, trigger_drop, ControlFree, tx_queue_drop, stream_disable
  <2> QED
    BY <2>1, <2>2, <2>3 DEF TxInv
<1>11. ASSUME trigger_prepare PROVE TxInv'
  <2>1. Typed'
    BY <1>0, <1>11 DEF Typed, States, trigger_prepare, ControlFree, tx_queue_drop
  <2>2. PlacesExact'
    BY <1>0, <1>11 DEF Typed, PlacesExact, trigger_prepare, ControlFree, tx_queue_drop
  <2>3. LastBlock'
    BY <1>0, <1>11 DEF Typed, LastBlock, trigger_prepare, ControlFree, tx_queue_drop
  <2> QED
    BY <2>1, <2>2, <2>3 DEF TxInv
<1> QED
  BY <1>1, <1>2, <1>3, <1>4, <1>5, <1>6, <1>7, <1>8, <1>9, <1>10, <1>11 DEF control

(* Every step of the writer keeps the invariant. *)
LEMMA WriteStep == TxInv /\ write => TxInv'
<1> SUFFICES ASSUME TxInv, write PROVE TxInv'
  OBVIOUS
<1> USE TxAssumption
<1>0. Typed /\ PlacesExact /\ LastBlock /\ Len(queue) \in Nat
  BY LenProperties DEF TxInv, Typed
<1>1. ASSUME write_alloc PROVE TxInv'
  <2>1. Typed'
    BY <1>0, <1>1 DEF Typed, States, write_alloc
  <2>2. PlacesExact'
    BY <1>0, <1>1 DEF Typed, PlacesExact, write_alloc
  <2>3. LastBlock'
    BY <1>0, <1>1 DEF Typed, LastBlock, write_alloc
  <2> QED
    BY <2>1, <2>2, <2>3 DEF TxInv
<1>2. ASSUME write_check PROVE TxInv'
  <2>1. Typed'
    BY <1>0, <1>2 DEF Typed, States, write_check, stream
  <2>2. PlacesExact'
    BY <1>0, <1>2 DEF Typed, PlacesExact, write_check, stream
  <2>3. LastBlock'
    BY <1>0, <1>2 DEF Typed, LastBlock, write_check, stream
  <2> QED
    BY <2>1, <2>2, <2>3 DEF TxInv
<1>3. ASSUME write_acquire PROVE TxInv'
  <2>1. Typed'
    BY <1>0, <1>3 DEF Typed, States, write_acquire
  <2>2. PlacesExact'
    BY <1>0, <1>3 DEF Typed, PlacesExact, write_acquire
  <2>3. LastBlock'
    BY <1>0, <1>3 DEF Typed, LastBlock, write_acquire
  <2> QED
    BY <2>1, <2>2, <2>3 DEF TxInv
<1>4. ASSUME write_timeout PROVE TxInv'
  <2>1. Typed'
    BY <1>0, <1>4 DEF Typed, States, write_timeout, stream
  <2>2. PlacesExact'
    BY <1>0, <1>4 DEF Typed, PlacesExact, write_timeout, stream
  <2>3. LastBlock'
    BY <1>0, <1>4 DEF Typed, LastBlock, write_timeout, stream
  <2> QED
    BY <2>1, <2>2, <2>3 DEF TxInv
<1>5. ASSUME write_free PROVE TxInv'
  <2>1. Typed'
    BY <1>0, <1>5 DEF Typed, States, write_free
  <2>2. PlacesExact'
    BY <1>0, <1>5 DEF Typed, PlacesExact, write_free
  <2>3. LastBlock'
    BY <1>0, <1>5 DEF Typed, LastBlock, write_free
  <2> QED
    BY <2>1, <2>2, <2>3 DEF TxInv
<1>6. ASSUME write_put PROVE TxInv'
  <2>1. Typed'
    BY <1>0, <1>6, AppendProperties DEF Typed, States, write_put
  <2>2. PlacesExact'
    BY <1>0, <1>6, AppendProperties DEF Typed, PlacesExact, write_put
  <2>3. LastBlock'
    BY <1>0, <1>6 DEF Typed, LastBlock, write_put
  <2> QED
    BY <2>1, <2>2, <2>3 DEF TxInv
<1>7. ASSUME write_done PROVE TxInv'
  <2>1. Typed'
    BY <1>0, <1>7 DEF Typed, States, write_done, stream
  <2>2. PlacesExact'
    BY <1>0, <1>7 DEF Typed, PlacesExact, write_done, stream
  <2>3. LastBlock'
    BY <1>0, <1>7 DEF Typed, LastBlock, write_done, stream
  <2> QED
    BY <2>1, <2>2, <2>3 DEF TxInv
<1>8. ASSUME write_start PROVE TxInv'
  <2>0. queue # <<>>
    BY <1>8 DEF write_start, tx_stream_start
  <2>1. Typed'
    BY <1>0, <1>8, <2>0, HeadTail DEF Typed, States, write_start, tx_stream_start
  <2>2. PlacesExact'
    BY <1>0, <1>8, <2>0, HeadTail DEF Typed, PlacesExact, write_start, tx_stream_start
  <2>3. LastBlock'
    BY <1>0, <1>8, <2>0 DEF Typed, LastBlock, write_start, tx_stream_start
  <2> QED
    BY <2>1, <2>2, <2>3 DEF TxInv
<1>9. ASSUME write_start_busy PROVE TxInv'
  <2>0. queue # <<>>
    BY <1>9 DEF write_start_busy, tx_stream_start_busy
  <2>1. Typed'
    BY <1>0, <1>9, <2>0, HeadTail
    DEF Typed, States, write_start_busy, tx_stream_start_busy
  <2>2. PlacesExact'
    BY <1>0, <1>9, <2>0, HeadTail
    DEF Typed, PlacesExact, write_start_busy, tx_stream_start_busy
  <2>3. LastBlock'
    BY <1>0, <1>9, <2>0 DEF Typed, LastBlock, write_start_busy, tx_stream_start_busy
  <2> QED
    BY <2>1, <2>2, <2>3 DEF TxInv
<1>10. ASSUME write_started PROVE TxInv'
  <2>1. Typed'
    BY <1>0, <1>10 DEF Typed, States, write_started
  <2>2. PlacesExact'
    BY <1>0, <1>10 DEF Typed, PlacesExact, write_started
  <2>3. LastBlock'
    BY <1>0, <1>10 DEF Typed, LastBlock, write_started
  <2> QED
    BY <2>1, <2>2, <2>3 DEF TxInv
<1> QED
  BY <1>1, <1>2, <1>3, <1>4, <1>5, <1>6, <1>7, <1>8, <1>9, <1>10 DEF write

(* Every interrupt keeps the invariant. *)
LEMMA CallbackStep == TxInv /\ dma_tx_callback => TxInv'
<1> SUFFICES ASSUME TxInv, dma_tx_callback PROVE TxInv'
  OBVIOUS
<1> USE TxAssumption
<1>0. Typed /\ PlacesExact /\ LastBlock /\ Len(queue) \in Nat
  BY LenProperties DEF TxInv, Typed
<1>1. ASSUME callback_error PROVE TxInv'
  <2>1. Typed'
    BY <1>0, <1>1 DEF Typed, States, callback_error, stream_disable, Interrupt
  <2>2. PlacesExact'
    BY <1>0, <1>1 DEF Typed, PlacesExact, callback_error, stream_disable, Interrupt
  <2>3. LastBlock'
    BY <1>0, <1>1 DEF Typed, LastBlock, callback_error, stream_disable, Interrupt
  <2> QED
    BY <2>1, <2>2, <2>3 DEF TxInv
<1>2. ASSUME callback_stop PROVE TxInv'
  <2>1. Typed'
    BY <1>0, <1>2 DEF Typed, States, callback_stop, stream_disable, Interrupt, Ends
  <2>2. PlacesExact'
    BY <1>0, <1>2 DEF Typed, PlacesExact, callback_stop, stream_disable, Interrupt, Ends
  <2>3. LastBlock'
    BY <1>0, <1>2 DEF Typed, LastBlock, callback_stop, stream_disable, Interrupt, Ends
  <2> QED
    BY <2>1, <2>2, <2>3 DEF TxInv
<1>3. ASSUME callback_dry PROVE TxInv'
  <2>1. Typed'
    BY <1>0, <1>3 DEF Typed, States, callback_dry, stream_disable, Interrupt, Ends
  <2>2. PlacesExact'
    BY <1>0, <1>3 DEF Typed, PlacesExact, callback_dry, stream_disable, Interrupt, Ends
  <2>3. LastBlock'
    BY <1>0, <1>3 DEF Typed, LastBlock, callback_dry, stream_disable, Interrupt, Ends
  <2> QED
    BY <2>1, <2>2, <2>3 DEF TxInv
<1>4. ASSUME callback_next PROVE TxInv'
  <2>0. queue # <<>>
    BY <1>4 DEF callback_next, Interrupt, Ends
  <2>1. Typed'
    BY <1>0, <1>4, <2>0, HeadTail DEF Typed, States, callback_next, Interrupt, Ends
  <2>2. PlacesExact'
    BY <1>0, <1>4, <2>0, HeadTail DEF Typed, PlacesExact, callback_next, Interrupt, Ends
  <2>3. LastBlock'
    BY <1>0, <1>4, <2>0 DEF Typed, LastBlock, callback_next, Interrupt, Ends
  <2> QED
    BY <2>1, <2>2, <2>3 DEF TxInv
<1> QED
  BY <1>1, <1>2, <1>3, <1>4 DEF dma_tx_callback

(* Every step of the tasks and of the interrupt keeps it. *)
LEMMA TxStep == TxInv /\ [Next]_vars => TxInv'
<1> SUFFICES ASSUME TxInv, [Next]_vars PROVE TxInv'
  OBVIOUS
<1>1. CASE transfer_done
  BY <1>1 DEF transfer_done, TxInv, Typed, PlacesExact, LastBlock
<1>2. CASE transfer_error
  BY <1>2 DEF transfer_error, TxInv, Typed, PlacesExact, LastBlock
<1>3. CASE UNCHANGED vars
  BY <1>3 DEF vars, stream, TxInv, Typed, PlacesExact, LastBlock
<1>4. CASE callback_aborted
  BY <1>4 DEF callback_aborted, TxInv, Typed, PlacesExact, LastBlock
<1> QED
  BY <1>1, <1>2, <1>3, <1>4, ControlStep, WriteStep, CallbackStep DEF Next

(* Types, exact places and last_block, in every use of the stream. *)
THEOREM TxInvariant == Spec => []TxInv
  BY TxInit, TxStep, PTL DEF Spec

(* The semaphore of the transmit stream counts the free places of its ring *)
(* buffer exactly, whatever the tasks and the interrupt do, so that        *)
(* python_i2s_buf_write may ignore the result of queue_put.                *)
THEOREM PlacesCounted == Spec => []PlacesExact
<1>1. TxInv => PlacesExact
  BY DEF TxInv
<1> QED
  BY TxInvariant, <1>1, PTL

(* Every variable of the transmit stream keeps its type. *)
THEOREM TxTyped == Spec => []TypeOK
<1> DEFINE Used == use \in Uses /\ late \in BOOLEAN
<1>1. TxInv /\ Used => TypeOK
  BY TxAssumption, LenProperties DEF TxInv, Typed, PlacesExact, TypeOK
<1>2. Init => Used
  BY DEF Init
<1>3. Used /\ [Next]_vars => Used'
  BY DEF Next, Environment, callback_aborted, vars
<1> QED
  BY TxInvariant, <1>1, <1>2, <1>3, PTL DEF Spec

(* DRAIN leaves nothing in the queue: no path to READY, the one of         *)
(* last_block included, cuts a drain short.                                *)
THEOREM DrainComplete == Spec => DrainSendsAll
<1> DEFINE Drained == (state = "STOPPING" /\ drain /\ state' = "READY") => queue' = <<>>
<1>1. TxInv /\ [Next]_vars => [Drained]_vars
  <2> SUFFICES ASSUME TxInv, Next, state = "STOPPING", drain, state' = "READY"
               PROVE  queue' = <<>>
    OBVIOUS
  <2>0. LastBlock
    BY DEF TxInv
  <2>1. CASE control
    BY <2>0, <2>1 DEF control, scm_i2s_configure, python_i2s_configure_off,
       scm_i2s_deinit, start_data, start_busy, start_no_data, start_end,
       trigger_stop, trigger_drain, trigger_drop, trigger_prepare,
       tx_queue_drop, LastBlock
  <2>2. CASE write
    BY <2>2 DEF write, write_alloc, write_check, write_acquire, write_timeout,
       write_free, write_put, write_done, write_start, write_start_busy,
       write_started, stream
  <2>3. CASE transfer_done \/ transfer_error
    BY <2>3 DEF transfer_done, transfer_error
  <2>4. CASE dma_tx_callback
    BY <2>0, <2>4 DEF dma_tx_callback, callback_error, callback_stop,
       callback_dry, callback_next, Interrupt, Ends, LastBlock
  <2>5. CASE callback_aborted
    BY <2>5 DEF callback_aborted
  <2> QED
    BY <2>1, <2>2, <2>3, <2>4, <2>5 DEF Next
<1> QED
  BY TxInvariant, <1>1, PTL DEF Spec, DrainSendsAll

-----------------------------------------------------------------------------
(* The blocks of a sequence, and that each is there once. *)
Elems(q) == {q[i] : i \in DOMAIN q}
Distinct(q) == \A i, j \in DOMAIN q : q[i] = q[j] => i = j

(* queue_put adds a block to those of the queue. *)
LEMMA PutElems ==
  ASSUME NEW q \in Seq(Blocks), NEW b \in Blocks
  PROVE  /\ Append(q, b) \in Seq(Blocks)
         /\ Len(Append(q, b)) = Len(q) + 1
         /\ Elems(Append(q, b)) = Elems(q) \cup {b}
         /\ Distinct(q) /\ b \notin Elems(q) => Distinct(Append(q, b))
<1>1. /\ Append(q, b) \in Seq(Blocks) /\ Len(Append(q, b)) = Len(q) + 1
      /\ \A i \in 1..Len(q) : Append(q, b)[i] = q[i]
      /\ Append(q, b)[Len(q) + 1] = b
  BY AppendProperties
<1>2. /\ Len(q) \in Nat /\ DOMAIN q = 1..Len(q)
      /\ DOMAIN Append(q, b) = 1..(Len(q) + 1)
  BY <1>1, LenProperties
<1> DEFINE p == Append(q, b)
<1> HIDE DEF p
<1>3. Elems(p) = Elems(q) \cup {b}
  BY <1>1, <1>2 DEF Elems, p
<1>4. Distinct(q) /\ b \notin Elems(q) => Distinct(p)
  BY <1>1, <1>2 DEF Elems, Distinct, p
<1> QED
  BY <1>1, <1>3, <1>4 DEF p

(* queue_get takes the first block from those of the queue. *)
LEMMA GetElems ==
  ASSUME NEW q \in Seq(Blocks), q # <<>>
  PROVE  /\ Head(q) \in Elems(q) /\ Head(q) \in Blocks
         /\ Tail(q) \in Seq(Blocks) /\ Len(Tail(q)) = Len(q) - 1
         /\ Distinct(q) =>
              /\ Elems(Tail(q)) = Elems(q) \ {Head(q)}
              /\ Distinct(Tail(q))
<1>1. /\ Head(q) \in Blocks /\ Tail(q) \in Seq(Blocks) /\ Len(Tail(q)) = Len(q) - 1
      /\ \A i \in 1..Len(Tail(q)) : Tail(q)[i] = q[i + 1]
  BY HeadTailProperties
<1>2. /\ Len(q) \in Nat \ {0} /\ DOMAIN q = 1..Len(q) /\ Head(q) = q[1]
      /\ DOMAIN Tail(q) = 1..(Len(q) - 1)
  BY <1>1, LenProperties, EmptySeq
<1> DEFINE p == Tail(q)
<1> HIDE DEF p
<1>3. ASSUME Distinct(q) PROVE Elems(p) = Elems(q) \ {q[1]}
  <2>1. ASSUME NEW x \in Elems(p) PROVE x \in Elems(q) /\ x # q[1]
    BY <1>1, <1>2, <1>3 DEF Elems, Distinct, p
  <2>2. ASSUME NEW i \in DOMAIN q, q[i] # q[1] PROVE q[i] \in Elems(p)
    <3>1. i - 1 \in 1..(Len(q) - 1) /\ (i - 1) + 1 = i
      BY <1>2, <2>2
    <3>2. p[i - 1] = q[i]
      BY <1>1, <1>2, <3>1 DEF p
    <3> QED
      BY <1>2, <3>1, <3>2 DEF Elems, p
  <2> QED
    BY <2>1, <2>2 DEF Elems
<1>4. Distinct(q) => Distinct(p)
  BY <1>1, <1>2 DEF Distinct, p
<1>5. q[1] \in Elems(q)
  BY <1>2 DEF Elems
<1> QED
  BY <1>1, <1>2, <1>3, <1>4, <1>5 DEF p

(* The blocks of a queue are blocks, and an empty queue has none. *)
LEMMA ElemsBlocks ==
  /\ \A q \in Seq(Blocks) : Elems(q) \subseteq Blocks
  /\ Elems(<<>>) = {} /\ Distinct(<<>>)
<1>1. ASSUME NEW q \in Seq(Blocks) PROVE Elems(q) \subseteq Blocks
  BY LenProperties, ElementOfSeq DEF Elems
<1>2. DOMAIN <<>> = {}
  OBVIOUS
<1>3. Elems(<<>>) = {}
  BY <1>2 DEF Elems
<1>4. Distinct(<<>>)
  BY <1>2 DEF Distinct
<1> QED
  BY <1>1, <1>3, <1>4

(***************************************************************************)
(* The writer has a block from mem_slab_alloc until it is put or freed,    *)
(* and an abort is reported late only where the controller does so.        *)
(***************************************************************************)
Holding ==
  /\ hold # NoBlock <=> pc \in {"check", "acquire", "put", "free"}
  /\ late => "late" \in use

(* Every step keeps this. *)
LEMMA HoldingStep ==
  ASSUME Typed, Holding, [Next]_vars
  PROVE  Holding'
<1>1. late' => "late" \in use'
  BY DEF Next, Environment, callback_aborted, vars, Holding
<1>2. hold' # NoBlock <=> pc' \in {"check", "acquire", "put", "free"}
  <2>1. ASSUME control PROVE hold' = hold /\ pc' = pc
    BY <2>1 DEF control, scm_i2s_configure, python_i2s_configure_off, scm_i2s_deinit,
       start_data, start_busy, start_no_data, start_end, trigger_stop, trigger_drain,
       trigger_drop, trigger_prepare
  <2>2. ASSUME dma_tx_callback \/ transfer_done \/ transfer_error \/ callback_aborted
        PROVE  hold' = hold /\ pc' = pc
    BY <2>2 DEF dma_tx_callback, callback_error, callback_stop, callback_dry,
       callback_next, transfer_done, transfer_error, callback_aborted
  <2>3. ASSUME write PROVE hold' # NoBlock <=> pc' \in {"check", "acquire", "put", "free"}
    BY <2>3, TxAssumption DEF write, write_alloc, write_check, write_acquire,
       write_timeout, write_free, write_put, write_done, write_start, write_start_busy,
       write_started, tx_stream_start, tx_stream_start_busy, Typed, Holding
  <2> QED
    BY <2>1, <2>2, <2>3 DEF Next, vars, Holding
<1> QED
  BY <1>1, <1>2 DEF Holding

(***************************************************************************)
(* BlocksOwned with the blocks as a relation, and what makes it inductive: *)
(* a stream that waits for data, or is about to, has no block.             *)
(***************************************************************************)
OneOwner ==
  /\ dma # "none" => mem_block # NoBlock
  /\ \A i, j \in DOMAIN queue : queue[i] = queue[j] => i = j
  /\ hold # NoBlock => hold \notin QueuedBlocks \cup {mem_block}
  /\ mem_block \notin QueuedBlocks
  /\ lent = ({mem_block, hold} \cup QueuedBlocks) \ {NoBlock}

Waiting ==
  /\ (state = "STARTING" /\ pc # "started") => mem_block = NoBlock
  /\ ctl = "no_data" => mem_block = NoBlock /\ state # "STARTING"

Owned ==
  /\ dma # "none" => mem_block # NoBlock
  /\ Distinct(queue)
  /\ hold # NoBlock => hold # mem_block /\ hold \notin Elems(queue)
  /\ mem_block \notin Elems(queue)
  /\ \A b \in Blocks : b \in lent <=> b = mem_block \/ b = hold \/ b \in Elems(queue)

(* The two forms of BlocksOwned are the same. *)
LEMMA OwnedForm == Typed => (OneOwner <=> Owned)
<1> SUFFICES ASSUME Typed PROVE OneOwner <=> Owned
  OBVIOUS
<1>1. QueuedBlocks = Elems(queue)
  BY DEF QueuedBlocks, Elems
<1>2. Elems(queue) \subseteq Blocks
  BY ElemsBlocks DEF Typed
<1>3. OneOwner => Owned
  BY <1>1, <1>2, TxAssumption DEF OneOwner, Owned, Distinct, Typed
<1>4. Owned => OneOwner
  BY <1>1, <1>2, TxAssumption DEF OneOwner, Owned, Distinct, Typed
<1> QED
  BY <1>3, <1>4

(* A stream that waits for data stays without a block until it gets some. *)
LEMMA WaitingStep ==
  ASSUME Typed, Holding, Waiting, Owned, use \cap {"short", "late"} = {}, [Next]_vars
  PROVE  Waiting'
<1> USE TxAssumption
<1>1. ASSUME scm_i2s_configure PROVE Waiting'
  BY <1>1 DEF scm_i2s_configure, ControlFree, Typed, Waiting, Owned
<1>2. ASSUME python_i2s_configure_off PROVE Waiting'
  BY <1>2
  DEF python_i2s_configure_off, ControlFree, tx_queue_drop, Typed, Waiting, Owned
<1>3. ASSUME scm_i2s_deinit PROVE Waiting'
  BY <1>3 DEF scm_i2s_deinit, ControlFree, Typed, Waiting, Owned
<1>4. ASSUME start_data PROVE Waiting'
  BY <1>4 DEF start_data, ControlFree, tx_stream_start, Typed, Waiting, Owned
<1>5. ASSUME start_busy PROVE Waiting'
  BY <1>5 DEF start_busy, ControlFree, tx_stream_start_busy, Typed, Waiting, Owned
<1>6. ASSUME start_no_data PROVE Waiting'
  BY <1>6 DEF start_no_data, ControlFree, stream, Typed, Waiting, Owned
<1>7. ASSUME start_end PROVE Waiting'
  BY <1>7 DEF start_end, Typed, Waiting, Owned
<1>8. ASSUME trigger_stop PROVE Waiting'
  BY <1>8 DEF trigger_stop, ControlFree, stream_disable, Typed, Waiting, Owned
<1>9. ASSUME trigger_drain PROVE Waiting'
  BY <1>9 DEF trigger_drain, ControlFree, stream_disable, Typed, Waiting, Owned
<1>10. ASSUME trigger_drop PROVE Waiting'
  BY <1>10
  DEF trigger_drop, ControlFree, stream_disable, tx_queue_drop, Typed, Waiting, Owned
<1>11. ASSUME trigger_prepare PROVE Waiting'
  BY <1>11 DEF trigger_prepare, ControlFree, tx_queue_drop, Typed, Waiting, Owned
<1>12. ASSUME write_alloc PROVE Waiting'
  BY <1>12 DEF write_alloc, WriterFree, Typed, Waiting, Owned
<1>13. ASSUME write_check PROVE Waiting'
  BY <1>13 DEF write_check, stream, Typed, Waiting, Owned
<1>14. ASSUME write_acquire PROVE Waiting'
  BY <1>14 DEF write_acquire, Typed, Waiting, Owned
<1>15. ASSUME write_timeout PROVE Waiting'
  BY <1>15 DEF write_timeout, stream, Typed, Waiting, Owned
<1>16. ASSUME write_free PROVE Waiting'
  BY <1>16 DEF write_free, Typed, Waiting, Owned
<1>17. ASSUME write_put PROVE Waiting'
  BY <1>17 DEF write_put, Typed, Waiting, Owned
<1>18. ASSUME write_done PROVE Waiting'
  BY <1>18 DEF write_done, stream, Typed, Waiting, Owned
<1>19. ASSUME write_start PROVE Waiting'
  BY <1>19 DEF write_start, tx_stream_start, Typed, Waiting, Owned
<1>20. ASSUME write_start_busy PROVE Waiting'
  BY <1>20 DEF write_start_busy, tx_stream_start_busy, Typed, Waiting, Owned
<1>21. ASSUME write_started PROVE Waiting'
  BY <1>21 DEF write_started, Typed, Waiting, Owned
<1>22. ASSUME transfer_done PROVE Waiting'
  BY <1>22 DEF transfer_done, Typed, Waiting, Owned
<1>23. ASSUME transfer_error PROVE Waiting'
  BY <1>23 DEF transfer_error, Typed, Waiting, Owned
<1>24. ASSUME callback_error PROVE Waiting'
  BY <1>24 DEF callback_error, Interrupt, stream_disable, Typed, Waiting, Owned
<1>25. ASSUME callback_stop PROVE Waiting'
  BY <1>25 DEF callback_stop, Interrupt, stream_disable, Typed, Waiting, Owned
<1>26. ASSUME callback_dry PROVE Waiting'
  BY <1>26 DEF callback_dry, Interrupt, stream_disable, Typed, Waiting, Owned
<1>27. ASSUME callback_next PROVE Waiting'
  BY <1>27 DEF callback_next, Interrupt, Typed, Waiting, Owned
<1>28. ASSUME callback_aborted PROVE Waiting'
  BY <1>28 DEF callback_aborted, Holding
<1>29. CASE UNCHANGED vars
  BY <1>29 DEF vars, stream, Typed, Waiting, Owned
<1> QED
  BY <1>1, <1>2, <1>3, <1>4, <1>5, <1>6, <1>7, <1>8, <1>9, <1>10, <1>11, <1>12, <1>13,
     <1>14, <1>15, <1>16, <1>17, <1>18, <1>19, <1>20, <1>21, <1>22, <1>23, <1>24,
     <1>25, <1>26, <1>27, <1>28, <1>29
  DEF Next, control, write, dma_tx_callback

(* Without a start that finds no channel and a late abort, every step keeps a *)
(* block in one place. *)
LEMMA OwnedStep ==
  ASSUME Typed, PlacesExact, Holding, Waiting, Owned, use \cap {"short", "late"} = {},
         [Next]_vars
  PROVE  Owned'
<1> USE TxAssumption
<1>q. Elems(queue) \subseteq Blocks
  BY ElemsBlocks DEF Typed
<1>1. ASSUME scm_i2s_configure PROVE Owned'
  BY <1>1, <1>q DEF scm_i2s_configure, ControlFree, Owned, Typed
<1>2. ASSUME python_i2s_configure_off PROVE Owned'
  <2>1. QueuedBlocks = Elems(queue)
    BY DEF QueuedBlocks, Elems
  <2> QED
    BY <1>2, <1>q, <2>1, ElemsBlocks
    DEF python_i2s_configure_off, tx_queue_drop, Owned, Typed
<1>3. ASSUME scm_i2s_deinit PROVE Owned'
  BY <1>3, <1>q DEF scm_i2s_deinit, ControlFree, Owned, Typed
<1>4. ASSUME start_data PROVE Owned'
  <2>1. queue # <<>> /\ queue' = Tail(queue) /\ mem_block' = Head(queue)
    BY <1>4 DEF start_data, tx_stream_start
  <2>2. /\ Head(queue) \in Elems(queue) /\ Head(queue) \in Blocks
        /\ Elems(queue') = Elems(queue) \ {Head(queue)} /\ Distinct(queue')
    <3>1. queue \in Seq(Blocks) /\ Distinct(queue)
      BY DEF Owned, Typed
    <3> QED
      BY <2>1, <3>1, GetElems
  <2>3. lent' = lent \ {mem_block} /\ hold' = hold
    BY <1>4 DEF start_data, Owned, Typed, tx_stream_start, Waiting
  <2> QED
    BY <1>q, <2>1, <2>2, <2>3 DEF Owned, Typed
<1>5. ASSUME start_busy PROVE Owned'
  BY <1>5 DEF start_busy, tx_stream_start_busy
<1>6. ASSUME start_no_data PROVE Owned'
  BY <1>6, <1>q DEF start_no_data, ControlFree, stream, Owned, Typed
<1>7. ASSUME start_end PROVE Owned'
  BY <1>7, <1>q DEF start_end, Owned, Typed
<1>8. ASSUME trigger_stop PROVE Owned'
  BY <1>8, <1>q DEF trigger_stop, ControlFree, stream_disable, Owned, Typed
<1>9. ASSUME trigger_drain PROVE Owned'
  BY <1>9, <1>q DEF trigger_drain, ControlFree, stream_disable, Owned, Typed
<1>10. ASSUME trigger_drop PROVE Owned'
  <2>1. QueuedBlocks = Elems(queue)
    BY DEF QueuedBlocks, Elems
  <2> QED
    BY <1>10, <1>q, <2>1, ElemsBlocks
    DEF trigger_drop, tx_queue_drop, stream_disable, Owned, Typed
<1>11. ASSUME trigger_prepare PROVE Owned'
  <2>1. QueuedBlocks = Elems(queue)
    BY DEF QueuedBlocks, Elems
  <2> QED
    BY <1>11, <1>q, <2>1, ElemsBlocks
    DEF trigger_prepare, tx_queue_drop, Owned, Typed
<1>12. ASSUME write_alloc PROVE Owned'
  <2>1. PICK b \in Blocks \ lent : hold' = b /\ lent' = lent \cup {b}
    BY <1>12 DEF write_alloc
  <2>2. hold = NoBlock
    BY <1>12 DEF write_alloc, Holding
  <2> QED
    BY <1>12, <1>q, <2>1, <2>2 DEF write_alloc, Owned, Typed
<1>13. ASSUME write_check PROVE Owned'
  BY <1>13, <1>q DEF write_check, stream, Owned, Typed
<1>14. ASSUME write_acquire PROVE Owned'
  BY <1>14, <1>q DEF write_acquire, Owned, Typed
<1>15. ASSUME write_timeout PROVE Owned'
  BY <1>15, <1>q DEF write_timeout, stream, Owned, Typed
<1>16. ASSUME write_free PROVE Owned'
  BY <1>16, <1>q DEF write_free, Owned, Typed
<1>17. ASSUME write_put PROVE Owned'
  <2>1. Len(queue) < TxCount
    BY <1>17, LenProperties DEF write_put, PlacesExact, Typed
  <2>2. queue' = Append(queue, hold) /\ hold \in Blocks
    BY <1>17, <2>1 DEF write_put, Typed
  <2>3. Elems(queue') = Elems(queue) \cup {hold} /\ Distinct(queue')
    <3>1. queue \in Seq(Blocks) /\ Distinct(queue) /\ hold \notin Elems(queue)
      BY <2>2 DEF Owned, Typed
    <3> QED
      BY <2>2, <3>1, PutElems
  <2> QED
    BY <1>17, <1>q, <2>2, <2>3 DEF write_put, Owned, Typed
<1>18. ASSUME write_done PROVE Owned'
  BY <1>18, <1>q DEF write_done, stream, Owned, Typed
<1>19. ASSUME write_start PROVE Owned'
  <2>1. queue # <<>> /\ queue' = Tail(queue) /\ mem_block' = Head(queue)
    BY <1>19 DEF write_start, tx_stream_start
  <2>2. /\ Head(queue) \in Elems(queue) /\ Head(queue) \in Blocks
        /\ Elems(queue') = Elems(queue) \ {Head(queue)} /\ Distinct(queue')
    <3>1. queue \in Seq(Blocks) /\ Distinct(queue)
      BY DEF Owned, Typed
    <3> QED
      BY <2>1, <3>1, GetElems
  <2>3. lent' = lent \ {mem_block} /\ hold' = hold
    BY <1>19 DEF write_start, Owned, Typed, tx_stream_start, Waiting
  <2> QED
    BY <1>q, <2>1, <2>2, <2>3 DEF Owned, Typed
<1>20. ASSUME write_start_busy PROVE Owned'
  BY <1>20 DEF write_start_busy, tx_stream_start_busy
<1>21. ASSUME write_started PROVE Owned'
  BY <1>21, <1>q DEF write_started, Owned, Typed
<1>22. ASSUME transfer_done PROVE Owned'
  BY <1>22, <1>q DEF transfer_done, Owned, Typed
<1>23. ASSUME transfer_error PROVE Owned'
  BY <1>23, <1>q DEF transfer_error, Owned, Typed
<1>24. ASSUME callback_error PROVE Owned'
  BY <1>24, <1>q DEF callback_error, Interrupt, stream_disable, Owned, Typed
<1>25. ASSUME callback_stop PROVE Owned'
  BY <1>25, <1>q DEF callback_stop, Interrupt, stream_disable, Owned, Typed
<1>26. ASSUME callback_dry PROVE Owned'
  BY <1>26, <1>q DEF callback_dry, Interrupt, stream_disable, Owned, Typed
<1>27. ASSUME callback_next PROVE Owned'
  <2>1. queue # <<>> /\ queue' = Tail(queue) /\ mem_block' = Head(queue)
    BY <1>27 DEF callback_next
  <2>2. /\ Head(queue) \in Elems(queue) /\ Head(queue) \in Blocks
        /\ Elems(queue') = Elems(queue) \ {Head(queue)} /\ Distinct(queue')
    <3>1. queue \in Seq(Blocks) /\ Distinct(queue)
      BY DEF Owned, Typed
    <3> QED
      BY <2>1, <3>1, GetElems
  <2>3. lent' = lent \ {mem_block} /\ hold' = hold
    BY <1>27 DEF callback_next, Owned, Typed, Waiting
  <2> QED
    BY <1>q, <2>1, <2>2, <2>3 DEF Owned, Typed
<1>28. ASSUME callback_aborted PROVE Owned'
  BY <1>28 DEF callback_aborted, Holding
<1>29. CASE UNCHANGED vars
  BY <1>29 DEF vars, stream, Owned, Typed
<1> QED
  BY <1>1, <1>2, <1>3, <1>4, <1>5, <1>6, <1>7, <1>8, <1>9, <1>10, <1>11, <1>12, <1>13,
     <1>14, <1>15, <1>16, <1>17, <1>18, <1>19, <1>20, <1>21, <1>22, <1>23, <1>24,
     <1>25, <1>26, <1>27, <1>28, <1>29
  DEF Next, control, write, dma_tx_callback

(***************************************************************************)
(* The block, the channel and the data that go with each state when one    *)
(* task writes and controls and the interrupt does not overtake it.        *)
(***************************************************************************)
Fed ==
  /\ ctl # "idle" => pc = "idle"
  /\ ctl = "started" => state = "READY" /\ mem_block # NoBlock /\ dma # "none"
  /\ ctl = "no_data" => state = "READY" /\ queue = <<>> /\ dma = "none"
  /\ pc = "started" => state = "STARTING" /\ mem_block # NoBlock /\ dma # "none"
  /\ (ctl = "idle" /\ state \in {"NOT_READY", "READY", "ERROR"}) => dma = "none"
  /\ (state = "STARTING" /\ pc = "look") => Len(queue) <= 1 /\ dma = "none"
  /\ (state = "STARTING" /\ pc \notin {"look", "started"}) =>
       queue = <<>> /\ dma = "none"
  /\ state \in {"RUNNING", "STOPPING"} => mem_block # NoBlock /\ dma # "none"

(* Every step of such a use keeps this. *)
LEMMA FedStep ==
  ASSUME Typed, Holding, Fed, use \cap {"race", "slow", "late"} = {}, [Next]_vars
  PROVE  Fed'
<1> USE TxAssumption
<1>c. "race" \notin use /\ "slow" \notin use /\ "late" \notin use
  OBVIOUS
<1>1. ASSUME scm_i2s_configure PROVE Fed'
  BY <1>1, <1>c DEF scm_i2s_configure, ControlFree, Typed, States, Fed
<1>2. ASSUME python_i2s_configure_off PROVE Fed'
  BY <1>2, <1>c
  DEF python_i2s_configure_off, ControlFree, tx_queue_drop, Typed, States, Fed
<1>3. ASSUME scm_i2s_deinit PROVE Fed'
  BY <1>3, <1>c DEF scm_i2s_deinit, ControlFree, Typed, States, Fed
<1>4. ASSUME start_data PROVE Fed'
  <2>1. queue # <<>> /\ Head(queue) \in Blocks
    BY <1>4, HeadTail DEF start_data, tx_stream_start
  <2> QED
    BY <1>4, <2>1, <1>c
    DEF start_data, tx_stream_start, ControlFree, Interrupt, Ends, Typed, Fed
<1>5. ASSUME start_busy PROVE Fed'
  BY <1>5, <1>c DEF start_busy, ControlFree, tx_stream_start_busy, Typed, States, Fed
<1>6. ASSUME start_no_data PROVE Fed'
  BY <1>6, <1>c DEF start_no_data, ControlFree, stream, Typed, States, Fed
<1>7. ASSUME start_end PROVE Fed'
  BY <1>7, <1>c DEF start_end, Typed, States, Fed
<1>8. ASSUME trigger_stop PROVE Fed'
  BY <1>8, <1>c DEF trigger_stop, ControlFree, stream_disable, Typed, States, Fed
<1>9. ASSUME trigger_drain PROVE Fed'
  BY <1>9, <1>c DEF trigger_drain, ControlFree, stream_disable, Typed, States, Fed
<1>10. ASSUME trigger_drop PROVE Fed'
  BY <1>10, <1>c
  DEF trigger_drop, ControlFree, stream_disable, tx_queue_drop, Typed, States, Fed
<1>11. ASSUME trigger_prepare PROVE Fed'
  BY <1>11, <1>c DEF trigger_prepare, ControlFree, tx_queue_drop, Typed, States, Fed
<1>12. ASSUME write_alloc PROVE Fed'
  BY <1>12, <1>c DEF write_alloc, WriterFree, Typed, States, Fed
<1>13. ASSUME write_check PROVE Fed'
  BY <1>13, <1>c DEF write_check, stream, Typed, States, Fed
<1>14. ASSUME write_acquire PROVE Fed'
  BY <1>14, <1>c DEF write_acquire, Typed, States, Fed
<1>15. ASSUME write_timeout PROVE Fed'
  BY <1>15, <1>c DEF write_timeout, stream, Typed, States, Fed
<1>16. ASSUME write_free PROVE Fed'
  BY <1>16, <1>c DEF write_free, Typed, States, Fed
<1>17. ASSUME write_put PROVE Fed'
  <2>1. state = "STARTING" => Len(queue') <= 1
    BY <1>17, AppendProperties, LenProperties DEF write_put, Typed, Fed
  <2> QED
    BY <1>17, <2>1 DEF write_put, Typed, Fed
<1>18. ASSUME write_done PROVE Fed'
  BY <1>18, <1>c DEF write_done, stream, Typed, States, Fed
<1>19. ASSUME write_start PROVE Fed'
  <2>1. queue # <<>> /\ Head(queue) \in Blocks
    BY <1>19, HeadTail DEF write_start, tx_stream_start
  <2> QED
    BY <1>19, <2>1, <1>c
    DEF write_start, tx_stream_start, ControlFree, Interrupt, Ends, Typed, Fed
<1>20. ASSUME write_start_busy PROVE Fed'
  <2>1. queue # <<>> /\ queue' = Tail(queue) /\ Len(queue) <= 1
    BY <1>20 DEF write_start_busy, tx_stream_start_busy, Fed
  <2>2. Tail(queue) \in Seq(Blocks) /\ Len(Tail(queue)) = 0
    <3>1. /\ Tail(queue) \in Seq(Blocks) /\ Len(Tail(queue)) = Len(queue) - 1
          /\ Len(queue) \in Nat
      BY <2>1, HeadTail
    <3>2. Len(Tail(queue)) \in Nat
      BY <3>1, LenProperties
    <3> QED
      BY <2>1, <3>1, <3>2
  <2>3. queue' = <<>>
    BY <2>1, <2>2, EmptySeq
  <2> QED
    BY <1>20, <2>3 DEF write_start_busy, tx_stream_start_busy, Typed, Fed
<1>21. ASSUME write_started PROVE Fed'
  BY <1>21, <1>c DEF write_started, Typed, States, Fed
<1>22. ASSUME transfer_done PROVE Fed'
  BY <1>22, <1>c DEF transfer_done, Typed, States, Fed
<1>23. ASSUME transfer_error PROVE Fed'
  BY <1>23, <1>c DEF transfer_error, Typed, States, Fed
<1>24. ASSUME callback_error PROVE Fed'
  BY <1>24, <1>c DEF callback_error, Interrupt, stream_disable, Typed, States, Fed
<1>25. ASSUME callback_stop PROVE Fed'
  BY <1>25, <1>c DEF callback_stop, Interrupt, stream_disable, Ends, Typed, States, Fed
<1>26. ASSUME callback_dry PROVE Fed'
  BY <1>26, <1>c DEF callback_dry, Interrupt, stream_disable, Ends, Typed, States, Fed
<1>27. ASSUME callback_next PROVE Fed'
  <2>1. queue # <<>> /\ Head(queue) \in Blocks
    BY <1>27, HeadTail DEF callback_next
  <2> QED
    BY <1>27, <2>1, <1>c DEF callback_next, ControlFree, Interrupt, Ends, Typed, Fed
<1>28. ASSUME callback_aborted PROVE Fed'
  BY <1>28 DEF callback_aborted, Holding
<1>29. CASE UNCHANGED vars
  BY <1>29 DEF vars, stream, Typed, States, Fed
<1> QED
  BY <1>1, <1>2, <1>3, <1>4, <1>5, <1>6, <1>7, <1>8, <1>9, <1>10, <1>11, <1>12, <1>13,
     <1>14, <1>15, <1>16, <1>17, <1>18, <1>19, <1>20, <1>21, <1>22, <1>23, <1>24,
     <1>25, <1>26, <1>27, <1>28, <1>29
  DEF Next, control, write, dma_tx_callback

-----------------------------------------------------------------------------
(* The blocks and the channel, in the uses that keep them. *)
StreamInv ==
  /\ TxInv
  /\ Holding
  /\ use \cap {"short", "late"} = {} => Owned /\ Waiting
  /\ use \cap {"race", "slow", "late"} = {} => Fed

(* A stream that has not been configured satisfies it. *)
LEMMA StreamInit == Init => StreamInv
<1> SUFFICES ASSUME Init PROVE StreamInv
  OBVIOUS
<1>1. Owned
  BY ElemsBlocks, TxAssumption DEF Init, Owned
<1> QED
  BY <1>1, TxInit DEF Init, StreamInv, Holding, Waiting, Fed

(* Every step keeps the parts that the use is about. *)
LEMMA StreamStep == StreamInv /\ [Next]_vars => StreamInv'
<1> SUFFICES ASSUME StreamInv, [Next]_vars PROVE StreamInv'
  OBVIOUS
<1>1. use' = use
  BY DEF Next, Environment, vars
<1>2. TxInv'
  BY TxStep DEF StreamInv
<1>3. Typed /\ PlacesExact /\ Holding
  BY DEF StreamInv, TxInv
<1>4. Holding'
  BY <1>3, HoldingStep
<1>5. ASSUME use \cap {"short", "late"} = {} PROVE Owned' /\ Waiting'
  <2>1. Owned /\ Waiting
    BY <1>5 DEF StreamInv
  <2> QED
    BY <1>3, <1>5, <2>1, OwnedStep, WaitingStep
<1>6. ASSUME use \cap {"race", "slow", "late"} = {} PROVE Fed'
  <2>1. Fed
    BY <1>6 DEF StreamInv
  <2> QED
    BY <1>3, <1>6, <2>1, FedStep
<1> QED
  BY <1>1, <1>2, <1>4, <1>5, <1>6 DEF StreamInv

(* The inductive invariant of the transmit stream in every use. *)
THEOREM StreamInvariant == Spec => []StreamInv
  BY StreamInit, StreamStep, PTL DEF Spec

(* BlocksOwned, for every number of blocks and places: no block of         *)
(* i2s_block_write is sent after it was freed, is in two places or is lost *)
(* to the slab, even when the task that controls races the one that writes *)
(* and the interrupt overtakes both.                                       *)
THEOREM TxBlocksOwned == Spec => []BlocksOwned
<1>1. StreamInv => BlocksOwned
  <2> SUFFICES ASSUME StreamInv, use \cap {"short", "late"} = {} PROVE OneOwner
    BY DEF BlocksOwned, OneOwner
  <2> QED
    BY OwnedForm DEF StreamInv, TxInv
<1> QED
  BY <1>1, StreamInvariant, PTL

(* RunningFed: a stream that dma_tx_callback or START leaves RUNNING or    *)
(* STOPPING has a block on the channel, and one that waits in STARTING has *)
(* no data that nobody will send.                                          *)
THEOREM TxRunningFed == Spec => []RunningFed
<1>1. StreamInv => RunningFed
  BY DEF StreamInv, Fed, RunningFed
<1> QED
  BY <1>1, StreamInvariant, PTL
=============================================================================
