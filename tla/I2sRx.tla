------------------------------- MODULE I2sRx -------------------------------
(***************************************************************************)
(* The receive stream of hal/drivers/i2s/i2s-python.c with its character   *)
(* device (i2s-dev.c) and its API (api/scm_i2s.c).  One task controls the  *)
(* stream (scm_i2s_configure, start, stop, deinit, and the other ioctls),  *)
(* other tasks read blocks, and the DMA interrupt delivers them.           *)
(*                                                                         *)
(* The memory slab is the set of blocks it has lent (MemSlab shows that    *)
(* the allocator behaves like that), the ring buffer is a sequence (RingBuf*)
(* shows that it behaves like one), the DMA channel is what the stream sees*)
(* of it: none, a transfer that runs, one that has ended and whose         *)
(* interrupt is pending, or a kept channel nobody will reload.             *)
(***************************************************************************)
EXTENDS Naturals, Sequences, FiniteSets

CONSTANTS Blocks,      \* the blocks of the slab
          NoBlock,     \* the NULL pointer
          Readers,     \* the tasks that call scm_i2s_read_block
          RxCount,     \* CONFIG_I2S_PYTHON_RX_BLOCK_COUNT
          Uses         \* the ways the stream is used, see below

(***************************************************************************)
(* What a system that uses the stream may do beyond the ordinary:          *)
(*   "stop"   the application also uses STOP and DRAIN on RX;              *)
(*   "short"  all DMA channels may be busy at START;                       *)
(*   "slow"   the first block may be complete before START has set the     *)
(*            state to RUNNING.                                            *)
(* A behaviour has one use, chosen at its start; a property that the code  *)
(* does not give to every use says which ones it is about.                 *)
(***************************************************************************)
Oddities == {"stop", "short", "slow"}

ASSUME RxAssumption ==
  /\ NoBlock \notin Blocks
  /\ IsFiniteSet(Readers)
  /\ RxCount \in Nat \ {0}
  /\ Uses \subseteq SUBSET Oddities

VARIABLES
  use,        \* the use of the stream in this behaviour
  state,      \* stream->state
  mem_block,  \* stream->mem_block, the block the DMA fills
  queue,      \* stream->mem_block_queue, oldest block first
  sem,        \* stream->sem
  lent,       \* the blocks allocated from stream->cfg.mem_slab
  dma,        \* the DMA channel
  ctl,        \* where the controlling task is in START
  pc, hold    \* where each reader is, and the block it has got

stream == <<state, mem_block, queue, sem, lent, dma>>
vars == <<use, stream, ctl, pc, hold>>

States == {"NOT_READY", "READY", "RUNNING", "STOPPING", "ERROR"}

Init ==
  /\ use \in Uses
  /\ state = "NOT_READY"
  /\ mem_block = NoBlock
  /\ queue = <<>>
  /\ sem = 0
  /\ lent = {}
  /\ dma = "none"
  /\ ctl = "idle"
  /\ pc = [r \in Readers |-> "idle"]
  /\ hold = [r \in Readers |-> NoBlock]

QueuedBlocks == {queue[i] : i \in DOMAIN queue}

-----------------------------------------------------------------------------
(* Helpers shared by the triggers and the callback *)

(* stream_disable: the channel is aborted and released, the block freed. *)
stream_disable ==
  /\ dma' = "none"
  /\ mem_block' = NoBlock

(* rx_queue_drop: every queued block is freed, every permit taken back. *)
rx_queue_drop ==
  /\ queue' = <<>>
  /\ sem' = 0

-----------------------------------------------------------------------------
(* The controlling task *)

(* scm_i2s_configure: the slab is set up again (mem_slab_deinit asserts    *)
(* that no block is in use), then python_i2s_configure.                    *)
scm_i2s_configure ==
  /\ ctl = "idle"
  /\ state \in {"NOT_READY", "READY"}
  /\ lent = {}
  /\ state' = "READY"
  /\ UNCHANGED <<mem_block, queue, sem, lent, dma, ctl, pc, hold>>

(* IOCTL_I2S_SET_CONFIG with frame_clk_freq 0: the queue is dropped and    *)
(* the cfg wiped, its slab included, so that NOT_READY is left only by     *)
(* scm_i2s_configure, which sets both again.                               *)
python_i2s_configure_off ==
  /\ ctl = "idle"
  /\ state \in {"NOT_READY", "READY"}
  /\ lent' = lent \ QueuedBlocks
  /\ rx_queue_drop
  /\ state' = "NOT_READY"
  /\ UNCHANGED <<mem_block, dma, ctl, pc, hold>>

(* scm_i2s_deinit: python_i2s_release, then mem_slab_deinit, which asserts *)
(* that no block is in use.  While a stream is active the release fails    *)
(* with -EINPROGRESS, which scm_i2s_deinit does not look at: with a block  *)
(* in use the assertion then stops the program, with none the slab is      *)
(* freed while the driver's cfg still points to it.  The application has   *)
(* to let the stream end first, as here.                                   *)
scm_i2s_deinit ==
  /\ ctl = "idle"
  /\ state \notin {"RUNNING", "STOPPING"}
  /\ lent = {}
  /\ state' = "NOT_READY"
  /\ UNCHANGED <<mem_block, queue, sem, lent, dma, ctl, pc, hold>>

(* START, past the assertion that mem_block is NULL, and rx_stream_start   *)
(* (which fails and changes nothing when the slab is empty).               *)
rx_stream_start ==
  /\ ctl = "idle"
  /\ state = "READY"
  /\ mem_block = NoBlock
  /\ \E b \in Blocks \ lent :
       /\ mem_block' = b
       /\ lent' = lent \cup {b}
  /\ dma' = "run"
  /\ ctl' = "started"
  /\ UNCHANGED <<state, queue, sem, pc, hold>>

(* rx_stream_start when dma_copy_hw finds no channel: it returns -EBUSY.   *)
rx_stream_start_busy ==
  /\ "short" \in use
  /\ ctl = "idle"
  /\ state = "READY"
  /\ mem_block = NoBlock
  /\ \E b \in Blocks \ lent :
       /\ mem_block' = b
       /\ lent' = lent \cup {b}
  /\ UNCHANGED <<state, queue, sem, dma, ctl, pc, hold>>

(* The end of START. *)
start_end ==
  /\ ctl = "started"
  /\ state' = "RUNNING"
  /\ ctl' = "idle"
  /\ UNCHANGED <<mem_block, queue, sem, lent, dma, pc, hold>>

(* STOP, and DRAIN, which is the same on a receive stream. *)
trigger_stop ==
  /\ "stop" \in use
  /\ ctl = "idle"
  /\ state = "RUNNING"
  /\ IF dma = "run"
       THEN /\ state' = "STOPPING"
            /\ UNCHANGED <<mem_block, lent, dma>>
       ELSE /\ lent' = lent \ {mem_block}
            /\ stream_disable
            /\ state' = "READY"
  /\ UNCHANGED <<queue, sem, ctl, pc, hold>>

(* DROP: what scm_i2s_stop issues. *)
trigger_drop ==
  /\ ctl = "idle"
  /\ state # "NOT_READY"
  /\ lent' = lent \ ({mem_block} \cup QueuedBlocks)
  /\ stream_disable
  /\ rx_queue_drop
  /\ state' = "READY"
  /\ UNCHANGED <<ctl, pc, hold>>

(* PREPARE. *)
trigger_prepare ==
  /\ ctl = "idle"
  /\ state = "ERROR"
  /\ state' = "READY"
  /\ lent' = lent \ QueuedBlocks
  /\ rx_queue_drop
  /\ UNCHANGED <<mem_block, dma, ctl, pc, hold>>

-----------------------------------------------------------------------------
(* A reader: i2s_block_read and python_i2s_buf_read *)

(* The state is looked at; in ERROR no permit is asked for. *)
read_state(r) ==
  /\ pc[r] = "idle"
  /\ state # "NOT_READY"
  /\ pc' = [pc EXCEPT ![r] = IF state = "ERROR" THEN "get" ELSE "wait"]
  /\ UNCHANGED <<stream, ctl, hold>>

(* osSemaphoreAcquire gets a permit. *)
read_acquire(r) ==
  /\ pc[r] = "wait"
  /\ sem > 0
  /\ sem' = sem - 1
  /\ pc' = [pc EXCEPT ![r] = "get"]
  /\ UNCHANGED <<state, mem_block, queue, lent, dma, ctl, hold>>

(* osSemaphoreAcquire times out: -ENODATA. *)
read_timeout(r) ==
  /\ pc[r] = "wait"
  /\ sem = 0
  /\ pc' = [pc EXCEPT ![r] = "idle"]
  /\ UNCHANGED <<stream, ctl, hold>>

(* queue_get: a block, or -EIO when the queue is empty. *)
read_get(r) ==
  /\ pc[r] = "get"
  /\ IF queue = <<>>
       THEN /\ pc' = [pc EXCEPT ![r] = "idle"]
            /\ UNCHANGED <<queue, hold>>
       ELSE /\ queue' = Tail(queue)
            /\ hold' = [hold EXCEPT ![r] = Head(queue)]
            /\ pc' = [pc EXCEPT ![r] = "copy"]
  /\ UNCHANGED <<state, mem_block, sem, lent, dma, ctl>>

(* The data is copied out and the block freed. *)
read_free(r) ==
  /\ pc[r] = "copy"
  /\ lent' = lent \ {hold[r]}
  /\ hold' = [hold EXCEPT ![r] = NoBlock]
  /\ pc' = [pc EXCEPT ![r] = "idle"]
  /\ UNCHANGED <<state, mem_block, queue, sem, dma, ctl>>

-----------------------------------------------------------------------------
(* The DMA channel (external) and its interrupt *)

(* The channel has filled the block. *)
transfer_done ==
  /\ dma = "run"
  /\ dma' = "done"
  /\ UNCHANGED <<state, mem_block, queue, sem, lent, ctl, pc, hold>>

(* A bus error stops the channel. *)
transfer_error ==
  /\ dma = "run"
  /\ dma' = "failed"
  /\ UNCHANGED <<state, mem_block, queue, sem, lent, ctl, pc, hold>>

(* The interrupt is taken: at once unless a task is slower than a block. *)
Interrupt == dma \in {"done", "failed"} /\ ("slow" \in use \/ ctl = "idle")

(* dma_rx_callback returns at once: "Already aborted. Do nothing." *)
callback_ignore ==
  /\ Interrupt
  /\ state = "READY"
  /\ dma' = "held"
  /\ UNCHANGED <<state, mem_block, queue, sem, lent, ctl, pc, hold>>

(* Mutant: a failed transfer does not disable the stream. *)
callback_error_LeavesOn ==
  /\ Interrupt
  /\ state # "READY"
  /\ dma = "failed" \/ state = "ERROR"
  /\ state' = "ERROR"
  /\ dma' = "held"
  /\ UNCHANGED <<mem_block, queue, sem, lent, ctl, pc, hold>>

(* dma_rx_callback when the transfer failed, or the stream already has.    *)
callback_error ==
  /\ Interrupt
  /\ state # "READY"
  /\ dma = "failed" \/ state = "ERROR"
  /\ state' = "ERROR"
  /\ lent' = lent \ {mem_block}
  /\ stream_disable
  /\ UNCHANGED <<queue, sem, ctl, pc, hold>>

(* dma_rx_callback with no block for the next transfer: an overrun. *)
callback_no_block ==
  /\ Interrupt
  /\ dma = "done"
  /\ state \notin {"READY", "ERROR"}
  /\ lent = Blocks
  /\ state' = "ERROR"
  /\ lent' = lent \ {mem_block}
  /\ stream_disable
  /\ UNCHANGED <<queue, sem, ctl, pc, hold>>

(* dma_rx_callback with the queue full: the next block is already loaded   *)
(* when queue_put fails; both blocks are freed.                            *)
callback_queue_full ==
  /\ Interrupt
  /\ dma = "done"
  /\ state \notin {"READY", "ERROR"}
  /\ lent # Blocks
  /\ Len(queue) = RxCount
  /\ state' = "ERROR"
  /\ lent' = lent \ {mem_block}
  /\ stream_disable
  /\ UNCHANGED <<queue, sem, ctl, pc, hold>>

(* Mutant: no permit is given for the queued block. *)
callback_next_NoPermit ==
  /\ Interrupt
  /\ dma = "done"
  /\ state = "RUNNING"
  /\ lent # Blocks
  /\ Len(queue) < RxCount
  /\ \E b \in Blocks \ lent :
       /\ mem_block' = b
       /\ lent' = lent \cup {b}
  /\ queue' = Append(queue, mem_block)
  /\ dma' = "run"
  /\ UNCHANGED <<state, sem, ctl, pc, hold>>

(* Mutant: the channel is loaded with the block just received. *)
callback_next_SameBlock ==
  /\ Interrupt
  /\ dma = "done"
  /\ state = "RUNNING"
  /\ lent # Blocks
  /\ Len(queue) < RxCount
  /\ \E b \in Blocks \ lent : lent' = lent \cup {b}
  /\ queue' = Append(queue, mem_block)
  /\ sem' = IF sem < RxCount THEN sem + 1 ELSE sem
  /\ dma' = "run"
  /\ UNCHANGED <<state, mem_block, ctl, pc, hold>>

(* Mutant: the channel is not loaded again. *)
callback_next_NoReload ==
  /\ Interrupt
  /\ dma = "done"
  /\ state = "RUNNING"
  /\ Len(queue) < RxCount
  /\ \E b \in Blocks \ lent :
       /\ mem_block' = b
       /\ lent' = lent \cup {b}
  /\ queue' = Append(queue, mem_block)
  /\ sem' = IF sem < RxCount THEN sem + 1 ELSE sem
  /\ dma' = "held"
  /\ UNCHANGED <<state, ctl, pc, hold>>

(* dma_rx_callback queues the block and goes on with the next one.  (A     *)
(* release beyond the semaphore's maximum fails, and nobody looks.)        *)
callback_next ==
  /\ Interrupt
  /\ dma = "done"
  /\ state = "RUNNING"
  /\ Len(queue) < RxCount
  /\ \E b \in Blocks \ lent :
       /\ mem_block' = b
       /\ lent' = lent \cup {b}
  /\ queue' = Append(queue, mem_block)
  /\ sem' = IF sem < RxCount THEN sem + 1 ELSE sem
  /\ dma' = "run"
  /\ UNCHANGED <<state, ctl, pc, hold>>

(* Mutant: the stop is not noticed. *)
callback_stop_Missed ==
  /\ Interrupt
  /\ dma = "done"
  /\ state = "STOPPING"
  /\ Len(queue) < RxCount
  /\ \E b \in Blocks \ lent :
       /\ mem_block' = b
       /\ lent' = lent \cup {b}
  /\ queue' = Append(queue, mem_block)
  /\ sem' = IF sem < RxCount THEN sem + 1 ELSE sem
  /\ dma' = "run"
  /\ UNCHANGED <<state, ctl, pc, hold>>

(* dma_rx_callback when a stop was requested: the block is queued, its     *)
(* permit given, and then, with the next block, it is freed.               *)
callback_stop ==
  /\ Interrupt
  /\ dma = "done"
  /\ state = "STOPPING"
  /\ lent # Blocks
  /\ Len(queue) < RxCount
  /\ queue' = Append(queue, mem_block)
  /\ sem' = IF sem < RxCount THEN sem + 1 ELSE sem
  /\ state' = "READY"
  /\ lent' = lent \ {mem_block}
  /\ stream_disable
  /\ UNCHANGED <<ctl, pc, hold>>

dma_rx_callback ==
  \/ callback_ignore \/ callback_error \/ callback_no_block
  \/ callback_queue_full \/ callback_next \/ callback_stop

control ==
  \/ scm_i2s_configure \/ python_i2s_configure_off \/ scm_i2s_deinit
  \/ rx_stream_start \/ rx_stream_start_busy \/ start_end
  \/ trigger_stop \/ trigger_drop \/ trigger_prepare

read(r) ==
  \/ read_state(r) \/ read_acquire(r) \/ read_timeout(r)
  \/ read_get(r) \/ read_free(r)

Next ==
  /\ \/ control
     \/ \E r \in Readers : read(r)
     \/ transfer_done \/ transfer_error
     \/ dma_rx_callback
  /\ UNCHANGED use

Spec == Init /\ [][Next]_vars

(***************************************************************************)
(* The codec clocks data in, so a transfer that runs ends; a pending       *)
(* interrupt is taken; START goes on to its end.  The application need not *)
(* do anything.                                                            *)
(***************************************************************************)
Fairness ==
  /\ WF_vars(transfer_done /\ UNCHANGED use)
  /\ WF_vars(dma_rx_callback /\ UNCHANGED use)
  /\ WF_vars(start_end /\ UNCHANGED use)

FairSpec == Spec /\ Fairness

-----------------------------------------------------------------------------
(* Properties *)

(* Every queued block can be read: there is a permit for it, or a reader   *)
(* that is past the semaphore.  A dropped or saturated permit, a read in   *)
(* ERROR (which takes a block and no permit) and the two loops of          *)
(* rx_queue_drop must not leave a block that no reader would ever wake for.*)
BlockHasPermit ==
  Len(queue) <= sem + Cardinality({r \in Readers : pc[r] = "get"})

(* A stream that is not active is at rest: after an overrun or a bus error *)
(* the DMA does not run and the stream keeps no block, so that PREPARE,    *)
(* which drops the queue only, is enough; and assert(stream->mem_block ==  *)
(* NULL) of START holds in every READY stream, unless a START has run out  *)
(* of channels.                                                            *)
AtRest ==
  /\ state = "ERROR" => dma = "none" /\ mem_block = NoBlock
  /\ (state = "READY" /\ ctl = "idle" /\ "short" \notin use) => mem_block = NoBlock

(* STOP: "When the current TX / RX block is transmitted / received the     *)
(* state is changed to READY" (or the reception fails).                    *)
StopEnds == state = "STOPPING" ~> state # "STOPPING"

(* The blocks the driver has out of the slab are the one the DMA fills,    *)
(* the queued ones and those of the readers, each in one place only: the   *)
(* DMA never fills a block a reader has or will get, and none is lost.     *)
OneOwner ==
  /\ \A i, j \in DOMAIN queue : queue[i] = queue[j] => i = j
  /\ \A r \in Readers :
       hold[r] # NoBlock =>
         /\ hold[r] \notin QueuedBlocks
         /\ \A q \in Readers \ {r} : hold[q] # hold[r]
  /\ mem_block \notin QueuedBlocks \cup ({hold[r] : r \in Readers} \ {NoBlock})
  /\ lent = ({mem_block} \cup QueuedBlocks \cup {hold[r] : r \in Readers}) \ {NoBlock}

(* That holds while no STOP is used (with one, OneOwner fails: the block   *)
(* that completes in STOPPING is queued and freed).                        *)
BlocksOwned == "stop" \notin use => OneOwner

(* A stream that is RUNNING or STOPPING has a block and a channel that     *)
(* fills it or is about to interrupt: it cannot silently stop receiving,   *)
(* unless a block completed before START had set the state.                *)
RunningFed ==
  ("slow" \notin use /\ state \in {"RUNNING", "STOPPING"}) =>
    mem_block # NoBlock /\ dma \in {"run", "done", "failed"}
=============================================================================
