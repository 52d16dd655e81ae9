------------------------------- MODULE I2sTx -------------------------------
(***************************************************************************)
(* The transmit stream of hal/drivers/i2s/i2s-python.c with its character  *)
(* device (i2s-dev.c) and its API (api/scm_i2s.c): one task writes blocks, *)
(* one task controls the stream, and the DMA interrupt takes the blocks    *)
(* from the queue.  A stream that is started without data, or runs out of  *)
(* it, is STARTING: the next write starts the DMA (the "delayed start").   *)
(*                                                                         *)
(* Slab, ring buffer and DMA channel are abstracted as in I2sRx.           *)
(***************************************************************************)
EXTENDS Naturals, Sequences

CONSTANTS Blocks,      \* the blocks of the slab
          NoBlock,     \* the NULL pointer
          TxCount,     \* CONFIG_I2S_PYTHON_TX_BLOCK_COUNT
          Uses         \* the ways the stream is used, see below

(***************************************************************************)
(* What a system that uses the stream may do beyond the ordinary:          *)
(*   "race"   the task that writes is not the one that controls;           *)
(*   "short"  all DMA channels may be busy at a start;                     *)
(*   "slow"   a block may be sent before the task that started the DMA has *)
(*            set the state to RUNNING;                                    *)
(*   "late"   the controller may report an abort after stream_disable has  *)
(*            cleared its status register.                                 *)
(* A behaviour has one use, chosen at its start; a property that the code  *)
(* does not give to every use says which ones it is about.                 *)
(***************************************************************************)
Oddities == {"race", "short", "slow", "late"}

ASSUME TxAssumption ==
  /\ NoBlock \notin Blocks
  /\ TxCount \in Nat \ {0}
  /\ Uses \subseteq SUBSET Oddities

VARIABLES
  use,        \* the use of the stream in this behaviour
  late,       \* an abort that the controller has still to report
  state,      \* stream->state
  mem_block,  \* stream->mem_block, the block the DMA sends
  queue,      \* stream->mem_block_queue, oldest block first
  sem,        \* stream->sem, the free places of the queue
  lent,       \* the blocks allocated from stream->cfg.mem_slab
  dma,        \* the DMA channel
  drain,      \* stream->tx_stop_for_drain
  last_block, \* stream->last_block
  ctl,        \* where the controlling task is in START
  pc, hold    \* where the writer is, and its block

stream == <<state, mem_block, queue, sem, lent, dma, drain, last_block>>
vars == <<use, late, stream, ctl, pc, hold>>

States == {"NOT_READY", "READY", "STARTING", "RUNNING", "STOPPING", "ERROR"}

Init ==
  /\ use \in Uses
  /\ late = FALSE
  /\ state = "NOT_READY"
  /\ mem_block = NoBlock
  /\ queue = <<>>
  /\ sem = TxCount
  /\ lent = {}
  /\ dma = "none"
  /\ drain = FALSE
  /\ last_block = FALSE
  /\ ctl = "idle"
  /\ pc = "idle"
  /\ hold = NoBlock

QueuedBlocks == {queue[i] : i \in DOMAIN queue}

(* A task that only runs when the other is between two calls. *)
ControlFree == ctl = "idle" /\ ("race" \notin use => pc = "idle")
WriterFree == "race" \notin use => ctl = "idle"

-----------------------------------------------------------------------------
(* Helpers shared by the triggers, the writer and the callback *)

(* stream_disable: the channel is aborted and released, the block freed. *)
stream_disable ==
  /\ dma' = "none"
  /\ mem_block' = NoBlock

(* Mutant: the places of the dropped blocks are not given back. *)
tx_queue_drop_NoRelease ==
  /\ queue' = <<>>
  /\ sem' = sem

(* tx_queue_drop: the blocks are freed, their places given back. *)
tx_queue_drop ==
  /\ queue' = <<>>
  /\ sem' = sem + Len(queue)

(* tx_stream_start with data in the queue and a channel to send it on. *)
tx_stream_start ==
  /\ queue # <<>>
  /\ mem_block' = Head(queue)
  /\ queue' = Tail(queue)
  /\ sem' = sem + 1
  /\ dma' = "run"

(* tx_stream_start when dma_copy_hw finds no channel. *)
tx_stream_start_busy ==
  /\ "short" \in use
  /\ queue # <<>>
  /\ mem_block' = Head(queue)
  /\ queue' = Tail(queue)
  /\ sem' = sem + 1
  /\ dma' = dma

-----------------------------------------------------------------------------
(* The controlling task *)

(* scm_i2s_configure: the slab is set up again (mem_slab_deinit asserts    *)
(* that no block is in use), then python_i2s_configure.                    *)
scm_i2s_configure ==
  /\ ControlFree
  /\ state \in {"NOT_READY", "READY"}
  /\ lent = {}
  /\ state' = "READY"
  /\ UNCHANGED <<mem_block, queue, sem, lent, dma, drain, last_block, ctl, pc, hold>>

(* IOCTL_I2S_SET_CONFIG with frame_clk_freq 0: the queue is dropped and    *)
(* the cfg wiped, its slab included, so that NOT_READY is left only by     *)
(* scm_i2s_configure, which sets both again.                               *)
python_i2s_configure_off ==
  /\ ControlFree
  /\ state \in {"NOT_READY", "READY"}
  /\ lent' = lent \ QueuedBlocks
  /\ tx_queue_drop
  /\ state' = "NOT_READY"
  /\ UNCHANGED <<mem_block, dma, drain, last_block, ctl, pc, hold>>

(* scm_i2s_deinit: python_i2s_release, then mem_slab_deinit, which asserts *)
(* that no block is in use.  While a stream is active the release fails    *)
(* with -EINPROGRESS, which scm_i2s_deinit does not look at: with a block  *)
(* in use the assertion then stops the program, with none the slab is      *)
(* freed while the driver's cfg still points to it.  The application has   *)
(* to let the stream end first, as here.                                   *)
scm_i2s_deinit ==
  /\ ControlFree
  /\ state \notin {"STARTING", "RUNNING", "STOPPING"}
  /\ lent = {}
  /\ state' = "NOT_READY"
  /\ UNCHANGED <<mem_block, queue, sem, lent, dma, drain, last_block, ctl, pc, hold>>

(* START, past the assertion that mem_block is NULL, with data to send. *)
start_data ==
  /\ ControlFree
  /\ state = "READY"
  /\ mem_block = NoBlock
  /\ tx_stream_start
  /\ ctl' = "started"
  /\ UNCHANGED <<state, lent, drain, last_block, pc, hold>>

(* START with data and no channel: -EBUSY. *)
start_busy ==
  /\ ControlFree
  /\ state = "READY"
  /\ mem_block = NoBlock
  /\ tx_stream_start_busy
  /\ UNCHANGED <<state, lent, drain, last_block, ctl, pc, hold>>

(* START: tx_stream_start finds the queue empty. *)
start_no_data ==
  /\ ControlFree
  /\ state = "READY"
  /\ mem_block = NoBlock
  /\ queue = <<>>
  /\ ctl' = "no_data"
  /\ UNCHANGED <<stream, pc, hold>>

(* Mutant: START does not reset last_block. *)
start_end_KeepsLast ==
  /\ ctl # "idle"
  /\ state' = IF ctl = "started" THEN "RUNNING" ELSE "STARTING"
  /\ ctl' = "idle"
  /\ UNCHANGED <<mem_block, queue, sem, lent, dma, drain, last_block, pc, hold>>

(* The end of START. *)
start_end ==
  /\ ctl # "idle"
  /\ state' = IF ctl = "started" THEN "RUNNING" ELSE "STARTING"
  /\ last_block' = FALSE
  /\ ctl' = "idle"
  /\ UNCHANGED <<mem_block, queue, sem, lent, dma, drain, pc, hold>>

(* STOP. *)
trigger_stop ==
  /\ ControlFree
  /\ state = "RUNNING"
  /\ IF dma = "run"
       THEN /\ state' = "STOPPING"
            /\ drain' = FALSE
            /\ UNCHANGED <<mem_block, lent, dma, last_block>>
       ELSE /\ lent' = lent \ {mem_block}
            /\ stream_disable
            /\ state' = "READY"
            /\ last_block' = TRUE
            /\ UNCHANGED drain
  /\ UNCHANGED <<queue, sem, ctl, pc, hold>>

(* DRAIN: what scm_i2s_stop issues. *)
trigger_drain ==
  /\ ControlFree
  /\ state \in {"RUNNING", "STARTING"}
  /\ IF queue # <<>> \/ dma = "run"
       THEN /\ state' = "STOPPING"
            /\ drain' = TRUE
            /\ UNCHANGED <<mem_block, lent, dma>>
       ELSE /\ lent' = lent \ {mem_block}
            /\ stream_disable
            /\ state' = "READY"
            /\ UNCHANGED drain
  /\ UNCHANGED <<queue, sem, last_block, ctl, pc, hold>>

(* DROP. *)
trigger_drop ==
  /\ ControlFree
  /\ state # "NOT_READY"
  /\ lent' = lent \ ({mem_block} \cup QueuedBlocks)
  /\ stream_disable
  /\ tx_queue_drop
  /\ state' = "READY"
  /\ UNCHANGED <<drain, last_block, ctl, pc, hold>>

(* PREPARE. *)
trigger_prepare ==
  /\ ControlFree
  /\ state = "ERROR"
  /\ state' = "READY"
  /\ lent' = lent \ QueuedBlocks
  /\ tx_queue_drop
  /\ UNCHANGED <<mem_block, dma, drain, last_block, ctl, pc, hold>>

-----------------------------------------------------------------------------
(* The writer: i2s_block_write and python_i2s_buf_write *)

(* mem_slab_alloc, which waits for a block, then the copy. *)
write_alloc ==
  /\ WriterFree
  /\ pc = "idle"
  /\ state # "NOT_READY"
  /\ \E b \in Blocks \ lent : hold' = b /\ lent' = lent \cup {b}
  /\ pc' = "check"
  /\ UNCHANGED <<state, mem_block, queue, sem, dma, drain, last_block, ctl>>

(* The state is looked at: -EIO, and the block is freed, or go on. *)
write_check ==
  /\ pc = "check"
  /\ pc' = IF state \in {"RUNNING", "STARTING", "READY"} THEN "acquire" ELSE "free"
  /\ UNCHANGED <<stream, ctl, hold>>

(* Mutant: the place is not asked for. *)
write_acquire_Skipped ==
  /\ pc = "acquire"
  /\ pc' = "put"
  /\ UNCHANGED <<stream, ctl, hold>>

(* osSemaphoreAcquire gets a place in the queue. *)
write_acquire ==
  /\ pc = "acquire"
  /\ sem > 0
  /\ sem' = sem - 1
  /\ pc' = "put"
  /\ UNCHANGED <<state, mem_block, queue, lent, dma, drain, last_block, ctl, hold>>

(* osSemaphoreAcquire times out. *)
write_timeout ==
  /\ pc = "acquire"
  /\ sem = 0
  /\ pc' = "free"
  /\ UNCHANGED <<stream, ctl, hold>>

(* i2s_block_write frees the block that was not taken. *)
write_free ==
  /\ pc = "free"
  /\ lent' = lent \ {hold}
  /\ hold' = NoBlock
  /\ pc' = "idle"
  /\ UNCHANGED <<state, mem_block, queue, sem, dma, drain, last_block, ctl>>

(* queue_put, whose result is not looked at: a full queue takes nothing. *)
write_put ==
  /\ pc = "put"
  /\ queue' = IF Len(queue) < TxCount THEN Append(queue, hold) ELSE queue
  /\ hold' = NoBlock
  /\ pc' = "look"
  /\ UNCHANGED <<state, mem_block, sem, lent, dma, drain, last_block, ctl>>

(* The stream needs no start, or has lost its data again. *)
write_done ==
  /\ pc = "look"
  /\ state # "STARTING" \/ queue = <<>>
  /\ pc' = "idle"
  /\ UNCHANGED <<stream, ctl, hold>>

(* Mutant: the delayed start is missing. *)
write_start_Missing ==
  /\ pc = "look"
  /\ state = "STARTING"
  /\ pc' = "idle"
  /\ UNCHANGED <<stream, ctl, hold>>

(* The delayed start. *)
write_start ==
  /\ pc = "look"
  /\ state = "STARTING"
  /\ tx_stream_start
  /\ pc' = "started"
  /\ UNCHANGED <<state, lent, drain, last_block, ctl, hold>>

(* The delayed start finds no channel: the stream stays STARTING. *)
write_start_busy ==
  /\ pc = "look"
  /\ state = "STARTING"
  /\ tx_stream_start_busy
  /\ pc' = "idle"
  /\ UNCHANGED <<state, lent, drain, last_block, ctl, hold>>

(* The end of the delayed start. *)
write_started ==
  /\ pc = "started"
  /\ state' = "RUNNING"
  /\ pc' = "idle"
  /\ UNCHANGED <<mem_block, queue, sem, lent, dma, drain, last_block, ctl, hold>>

-----------------------------------------------------------------------------
(* The DMA channel (external) and its interrupt *)

(* The block has been sent. *)
transfer_done ==
  /\ dma = "run"
  /\ dma' = "done"
  /\ UNCHANGED <<state, mem_block, queue, sem, lent, drain, last_block, ctl, pc, hold>>

(* A bus error stops the channel. *)
transfer_error ==
  /\ dma = "run"
  /\ dma' = "failed"
  /\ UNCHANGED <<state, mem_block, queue, sem, lent, drain, last_block, ctl, pc, hold>>

(* The interrupt is taken, at once unless a task is slower than a block,   *)
(* and a completion gets past the assertion that mem_block is set.         *)
Interrupt ==
  /\ dma = "failed" \/ (dma = "done" /\ mem_block # NoBlock)
  /\ "slow" \in use \/ (ctl # "started" /\ pc # "started")

(* dma_tx_callback when the transfer failed, or the stream already has. *)
callback_error ==
  /\ Interrupt
  /\ dma = "failed" \/ state = "ERROR"
  /\ state' = "ERROR"
  /\ lent' = lent \ {mem_block}
  /\ stream_disable
  /\ UNCHANGED <<queue, sem, drain, last_block, ctl, pc, hold>>

(* The stream stops here: the last block of a DRAIN, a STOP, last_block. *)
Ends ==
  \/ state = "STOPPING" /\ (queue = <<>> \/ ~drain)
  \/ last_block

(* dma_tx_callback stops the stream. *)
callback_stop ==
  /\ Interrupt
  /\ dma = "done" /\ state # "ERROR"
  /\ Ends
  /\ state' = "READY"
  /\ lent' = lent \ {mem_block}
  /\ stream_disable
  /\ UNCHANGED <<queue, sem, drain, last_block, ctl, pc, hold>>

(* Mutant: the stream that ran out of data stays RUNNING. *)
callback_dry_StaysRunning ==
  /\ Interrupt
  /\ dma = "done" /\ state # "ERROR"
  /\ ~Ends
  /\ queue = <<>>
  /\ lent' = lent \ {mem_block}
  /\ stream_disable
  /\ UNCHANGED <<state, queue, sem, drain, last_block, ctl, pc, hold>>

(* dma_tx_callback has nothing to send: back to the delayed start. *)
callback_dry ==
  /\ Interrupt
  /\ dma = "done" /\ state # "ERROR"
  /\ ~Ends
  /\ queue = <<>>
  /\ state' = "STARTING"
  /\ lent' = lent \ {mem_block}
  /\ stream_disable
  /\ UNCHANGED <<queue, sem, drain, last_block, ctl, pc, hold>>

(* Mutant: the block that was sent is not freed. *)
callback_next_NoFree ==
  /\ Interrupt
  /\ dma = "done" /\ state # "ERROR"
  /\ ~Ends
  /\ queue # <<>>
  /\ mem_block' = Head(queue)
  /\ queue' = Tail(queue)
  /\ sem' = sem + 1
  /\ dma' = "run"
  /\ UNCHANGED <<state, lent, drain, last_block, ctl, pc, hold>>

(* dma_tx_callback frees the block and sends the next one. *)
callback_next ==
  /\ Interrupt
  /\ dma = "done" /\ state # "ERROR"
  /\ ~Ends
  /\ queue # <<>>
  /\ lent' = lent \ {mem_block}
  /\ mem_block' = Head(queue)
  /\ queue' = Tail(queue)
  /\ sem' = sem + 1
  /\ dma' = "run"
  /\ UNCHANGED <<state, drain, last_block, ctl, pc, hold>>

(* dma_tx_callback with ABORTED: past the assertion that mem_block is set, *)
(* the block is freed, and nothing else done.                              *)
callback_aborted ==
  /\ late
  /\ mem_block # NoBlock
  /\ lent' = lent \ {mem_block}
  /\ mem_block' = NoBlock
  /\ late' = FALSE
  /\ UNCHANGED <<state, queue, sem, dma, drain, last_block, ctl, pc, hold>>

dma_tx_callback == callback_error \/ callback_stop \/ callback_dry \/ callback_next

control ==
  \/ scm_i2s_configure \/ python_i2s_configure_off \/ scm_i2s_deinit
  \/ start_data \/ start_busy \/ start_no_data \/ start_end
  \/ trigger_stop \/ trigger_drain \/ trigger_drop \/ trigger_prepare

write ==
  \/ write_alloc \/ write_check \/ write_acquire \/ write_timeout \/ write_free
  \/ write_put \/ write_done \/ write_start \/ write_start_busy \/ write_started

(* The controller: a transfer that is stopped is an abort to be reported.  *)
Environment ==
  /\ late' = (late \/ ("late" \in use /\ dma = "run" /\ dma' = "none"))
  /\ UNCHANGED use

Next ==
  \/ /\ control \/ write \/ transfer_done \/ transfer_error \/ dma_tx_callback
     /\ Environment
  \/ callback_aborted /\ UNCHANGED use

Spec == Init /\ [][Next]_vars

(***************************************************************************)
(* A transfer that runs ends; a pending interrupt is taken; the tasks go   *)
(* on with the calls they have begun.  Nobody need write or stop anything. *)
(***************************************************************************)
Fairness ==
  /\ WF_vars(transfer_done /\ Environment)
  /\ WF_vars(dma_tx_callback /\ Environment)
  /\ WF_vars(start_end /\ Environment)
  /\ WF_vars(write /\ pc # "idle" /\ Environment)

FairSpec == Spec /\ Fairness

-----------------------------------------------------------------------------
(* Properties *)

(* Every variable keeps its type. *)
TypeOK ==
  /\ use \in Uses
  /\ late \in BOOLEAN
  /\ state \in States
  /\ mem_block \in Blocks \cup {NoBlock}
  /\ queue \in Seq(Blocks)
  /\ sem \in 0..TxCount
  /\ lent \subseteq Blocks
  /\ dma \in {"none", "run", "done", "failed"}
  /\ drain \in BOOLEAN /\ last_block \in BOOLEAN
  /\ ctl \in {"idle", "started", "no_data"}
  /\ pc \in {"idle", "check", "acquire", "free", "put", "look", "started"}
  /\ hold \in Blocks \cup {NoBlock}

(* The semaphore counts the free places of the ring buffer exactly, across *)
(* starts, interrupts, drops and errors: so queue_put, whose result the    *)
(* writer ignores, never finds the buffer full, and no place is lost.      *)
PlacesExact ==
  sem + Len(queue) + (IF pc = "put" THEN 1 ELSE 0) = TxCount

(* The stream has the block the DMA sends, the queued ones and the one of  *)
(* the writer, each in one place only: none is sent after it was freed, or *)
(* lost to the slab.  A start that finds no channel loses one; a late      *)
(* abort report frees the one that is being sent.                          *)
BlocksOwned ==
  use \cap {"short", "late"} = {} =>
    /\ dma # "none" => mem_block # NoBlock
    /\ \A i, j \in DOMAIN queue : queue[i] = queue[j] => i = j
    /\ hold # NoBlock => hold \notin QueuedBlocks \cup {mem_block}
    /\ mem_block \notin QueuedBlocks
    /\ lent = ({mem_block, hold} \cup QueuedBlocks) \ {NoBlock}

(* A RUNNING or STOPPING stream has a block and a channel that sends it or *)
(* is about to interrupt; and in STARTING, which waits for data, there is  *)
(* no data yet (or the writer is about to start the DMA).  Each of a       *)
(* racing controller, a completion before the state is RUNNING and a late  *)
(* abort report breaks this.                                               *)
RunningFed ==
  use \cap {"race", "slow", "late"} = {} =>
    /\ state \in {"RUNNING", "STOPPING"} => mem_block # NoBlock /\ dma # "none"
    /\ (state = "STARTING" /\ pc \notin {"look", "started"}) =>
          queue = <<>> /\ dma = "none"

(* DRAIN: "Send all data in the transmit queue and stop the transmission": *)
(* a stream that drains becomes READY with nothing left in its queue.      *)
DrainSendsAll ==
  [][(state = "STOPPING" /\ drain /\ state' = "READY") => queue' = <<>>]_vars

(* DRAIN: "When all TX blocks are transmitted the state is changed to      *)
(* READY": the stream does not stay STOPPING, if one task writes and       *)
(* drains, the interrupt does not overtake it, and aborts are not late.    *)
DrainEnds ==
  (use \cap {"race", "slow", "late"} = {} /\ state = "STOPPING") ~> state # "STOPPING"
=============================================================================
