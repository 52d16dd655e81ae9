-------------------------------- MODULE Uart --------------------------------
(***************************************************************************)
(* Raw UART transfers: api/scm_uart.c on hal/drivers/serial/               *)
(* serial-atcuart.c, for one port, with DMA or with interrupts that move   *)
(* the bytes.  Each direction has a lock, prot, that a synchronous call    *)
(* holds until it returns and an asynchronous one until uart_notify, in    *)
(* the interrupt, has told the application.                                *)
(*                                                                         *)
(* The interrupt handler is one step.  A call can be interrupted or        *)
(* overtaken between the lock, the store of the DMA channel's number and   *)
(* the start of the channel, the reading and the writing of the interrupt  *)
(* enable register, the wait, and each access of a reset to that register, *)
(* to the record of the transfer and to the channels.                      *)
(***************************************************************************)
EXTENDS Naturals

CONSTANTS Tasks, App, Nobody,
          Uses         \* the ways the port is used, see below

(***************************************************************************)
(*   "duplex"   both directions are used at the same time;                 *)
(*   "timeout"  a synchronous transfer may not end within its timeout;     *)
(*   "late"     and may then end before the port has been reset;           *)
(*   "error"    characters with line errors are received;                  *)
(*   "reset"    the application resets the port with transfers under way;  *)
(*   "leave"    or deinitialises it with an asynchronous one under way;    *)
(*   "dma"      the port is configured with DMA (dma_en);                  *)
(*   "short"    and all DMA channels may be busy.                          *)
(* A behaviour has one use, chosen at its start.                           *)
(***************************************************************************)
Oddities == {"duplex", "timeout", "late", "error", "reset", "leave", "dma", "short"}

ASSUME UartAssumption ==
  /\ App \notin Tasks /\ Nobody \notin Tasks /\ App # Nobody
  /\ Uses \subseteq SUBSET Oddities

VARIABLES
  use,
  open,             \* the port is initialised (fd > 0)
  prot, done, sync, \* of the two directions' scm_uart_intf_data
  left, owner,      \* without DMA, of the driver's record: 1 if there is data
                    \* to move (tx_oft # tx_len, rx_oft # rx_len), and whose
  ier,              \* the enabled interrupts ETHEI ("tx") and ERBI ("rx")
  dma_ch,           \* the channel on record: whose call took it, or Nobody (-1)
  work,             \* the channels that run: the direction, whose buffer, and
                    \* whether dma_ch still has the number
  pc, call,         \* where each task is, and the call it is in
  v, side             \* the interrupt enable register as a task has read it, and
                    \* the direction whose channel its reset is at

Dirs == {"tx", "rx"}
Calls == [dir : Dirs, sync : BOOLEAN]
ResetCall == [dir |-> "reset", sync |-> TRUE]
DeinitCall == [dir |-> "deinit", sync |-> TRUE]

dma_en == "dma" \in use

intf == <<prot, done, sync>>
record == <<left, owner, ier>>
dma == <<dma_ch, work>>
vars == <<use, open, intf, record, dma, pc, call, v, side>>

Init ==
  /\ use \in Uses
  /\ open = FALSE
  /\ prot = [d \in Dirs |-> 0]
  /\ done = [d \in Dirs |-> 0]
  /\ sync = [d \in Dirs |-> TRUE]
  /\ left = [d \in Dirs |-> 0]
  /\ owner = [d \in Dirs |-> Nobody]
  /\ ier = {}
  /\ dma_ch = [d \in Dirs |-> Nobody]
  /\ work = {}
  /\ pc = [t \in Tasks |-> "idle"]
  /\ call = [t \in Tasks |-> ResetCall]
  /\ v = [t \in Tasks |-> {}]
  /\ side = [t \in Tasks |-> "tx"]

Goto(t, l) == pc' = [pc EXCEPT ![t] = l]

Idle == \A t \in Tasks : pc[t] = "idle"

(* A call ends; what it had in hand is of no more use. *)
Return(t) == Goto(t, "idle") /\ call' = [call EXCEPT ![t] = ResetCall]

(* The application makes no call while it deinitialises the port. *)
Usable == open /\ \A t \in Tasks : pc[t] # "idle" => call[t].dir # "deinit"

-----------------------------------------------------------------------------
(* Initialisation and reset *)

(* scm_uart_init: new semaphores, no channel, ELSI enabled only. *)
scm_uart_init ==
  /\ ~open
  /\ open' = TRUE
  /\ prot' = [d \in Dirs |-> 1]
  /\ done' = [d \in Dirs |-> 0]
  /\ sync' = [d \in Dirs |-> TRUE]
  /\ ier' = {}
  /\ dma_ch' = [d \in Dirs |-> Nobody]
  /\ UNCHANGED <<use, left, owner, work, pc, call, v, side>>

(* scm_uart_deinit, when no call is under way, up to the reset. *)
scm_uart_deinit(t) ==
  /\ open /\ Idle
  /\ "leave" \in use \/ work = {}
  /\ call' = [call EXCEPT ![t] = DeinitCall]
  /\ Goto(t, "reset")
  /\ UNCHANGED <<use, open, intf, record, dma, v, side>>

(* scm_uart_reset: no lock is taken, and none is returned. *)
scm_uart_reset(t) ==
  /\ "reset" \in use
  /\ Usable /\ pc[t] = "idle"
  /\ call' = [call EXCEPT ![t] = ResetCall]
  /\ Goto(t, "reset")
  /\ UNCHANGED <<use, open, intf, record, dma, v, side>>

(* atcuart_reset, of a task: atcuart_rx_enable and atcuart_tx_enable, each *)
(* a read and a write of the register, ...                                 *)
read_ier(t, from, to) ==
  /\ pc[t] = from
  /\ v' = [v EXCEPT ![t] = ier]
  /\ Goto(t, to)
  /\ UNCHANGED <<use, open, intf, record, dma, call, side>>

write_ier(t, d, from, to) ==
  /\ pc[t] = from
  /\ ier' = v[t] \ {d}
  /\ v' = [v EXCEPT ![t] = {}]
  /\ Goto(t, to)
  /\ UNCHANGED <<use, open, intf, left, owner, dma, call, side>>

reset_irqs(t) ==
  \/ read_ier(t, "reset", "rx_off")
  \/ write_ier(t, "rx", "rx_off", "rx_is_off")
  \/ read_ier(t, "rx_is_off", "tx_off")
  \/ write_ier(t, "tx", "tx_off", "forget")

(* ... the record of both directions, ... *)
reset_tr(t) ==
  /\ pc[t] = "forget"
  /\ left' = [d \in Dirs |-> 0]
  /\ owner' = [d \in Dirs |-> Nobody]
  /\ Goto(t, IF dma_en THEN "check" ELSE "end")
  /\ UNCHANGED <<use, open, intf, ier, dma, call, v, side>>

(* The channel that the driver has on record for d is stopped; its number  *)
(* is dropped, also if the channel is not the one that was stopped.        *)
Aborted(d) == {w \in work : ~(w.dir = d /\ w.kept)}
Dropped(W, d) == {[w EXCEPT !.kept = @ /\ w.dir # d] : w \in W}

(* A reset goes on from the transmitter's channel to the receiver's. *)
NextChannel(t) ==
  /\ Goto(t, IF side[t] = "tx" THEN "check" ELSE "end")
  /\ side' = [side EXCEPT ![t] = IF @ = "tx" THEN "rx" ELSE "tx"]

(* ... and the channel of each direction: is there one, dma_ch_abort, and  *)
(* the number is dropped.                                                  *)
reset_check(t) ==
  /\ pc[t] = "check"
  /\ IF dma_ch[side[t]] # Nobody
       THEN Goto(t, "abort") /\ side' = side
       ELSE NextChannel(t)
  /\ UNCHANGED <<use, open, intf, record, dma, call, v>>

reset_abort(t) ==
  /\ pc[t] = "abort"
  /\ work' = Aborted(side[t])
  /\ Goto(t, "drop")
  /\ UNCHANGED <<use, open, intf, record, dma_ch, call, v, side>>

reset_drop(t) ==
  /\ pc[t] = "drop"
  /\ dma_ch' = [dma_ch EXCEPT ![side[t]] = Nobody]
  /\ work' = Dropped(work, side[t])
  /\ NextChannel(t)
  /\ UNCHANGED <<use, open, intf, record, call, v>>

atcuart_reset(t) ==
  reset_irqs(t) \/ reset_tr(t) \/ reset_check(t) \/ reset_abort(t) \/ reset_drop(t)

(* The end of scm_uart_reset, and of scm_uart_deinit, which closes the     *)
(* port and deletes the semaphores.                                        *)
reset_returns(t) ==
  /\ pc[t] = "end" /\ call[t] = ResetCall
  /\ Return(t)
  /\ UNCHANGED <<use, open, intf, record, dma, v, side>>

deinit_returns(t) ==
  /\ pc[t] = "end" /\ call[t] = DeinitCall
  /\ open' = FALSE
  /\ prot' = [d \in Dirs |-> 0]
  /\ done' = [d \in Dirs |-> 0]
  /\ Return(t)
  /\ UNCHANGED <<use, sync, record, dma, v, side>>

-----------------------------------------------------------------------------
(* scm_uart_tx, scm_uart_tx_async, scm_uart_rx, scm_uart_rx_async *)

(* A task asks for a lock; unless the use is "duplex" the other direction  *)
(* is at rest.                                                             *)
request(t) ==
  /\ Usable /\ pc[t] = "idle"
  /\ \E c \in Calls :
       /\ "duplex" \in use \/ \A d \in Dirs \ {c.dir} :
            /\ prot[d] = 1
            /\ \A s \in Tasks : pc[s] # "idle" => call[s].dir # d
       /\ call' = [call EXCEPT ![t] = c]
  /\ Goto(t, "lock")
  /\ UNCHANGED <<use, open, intf, record, dma, v, side>>

(* scm_uart_lock, and the assignment of sync. *)
scm_uart_lock(t) ==
  LET d == call[t].dir
  IN  /\ pc[t] = "lock"
      /\ prot[d] = 1
      /\ prot' = [prot EXCEPT ![d] = 0]
      /\ sync' = [sync EXCEPT ![d] = call[t].sync]
      /\ Goto(t, "ioctl")
      /\ UNCHANGED <<use, open, done, record, dma, call, v, side>>

(* The driver has a transfer on record. *)
InProgress(d) == IF dma_en THEN dma_ch[d] # Nobody ELSE left[d] = 1

(* A call that fails returns the lock: -EINPROGRESS, or no DMA channel. *)
transfer_fails(t) ==
  LET d == call[t].dir
  IN  /\ pc[t] = "ioctl"
      /\ InProgress(d) \/ (dma_en /\ "short" \in use)
      /\ prot' = [prot EXCEPT ![d] = 1]
      /\ Return(t)
      /\ UNCHANGED <<use, open, done, sync, record, dma, v, side>>

For(t) == IF call[t].sync THEN t ELSE App

Begun(t) == IF call[t].sync THEN Goto(t, "wait") /\ call' = call ELSE Return(t)

(* atcuart_transmit and atcuart_recevie with DMA: dma_copy_hw takes a      *)
(* channel and stores its number, ...                                      *)
transfer_dma(t) ==
  /\ pc[t] = "ioctl"
  /\ dma_en
  /\ dma_ch[call[t].dir] = Nobody
  /\ dma_ch' = [dma_ch EXCEPT ![call[t].dir] = t]
  /\ Goto(t, "kick")
  /\ UNCHANGED <<use, open, intf, record, work, call, v, side>>

(* ... and starts it, whether or not it has been aborted meanwhile.  One   *)
(* that has is free for other users of the controller, and it is assumed   *)
(* that none takes it before it is started (CalmResets of module Dma).     *)
transfer_kick(t) ==
  LET d == call[t].dir
  IN  /\ pc[t] = "kick"
      /\ work' = work \cup {[dir |-> d, owner |-> For(t), kept |-> dma_ch[d] = t]}
      /\ Begun(t)
      /\ UNCHANGED <<use, open, intf, record, dma_ch, v, side>>

(* atcuart_transmit: with the interrupts off the FIFO takes all of the     *)
(* data or a part of it, and ETHEI is enabled.                             *)
atcuart_transmit(t) ==
  /\ pc[t] = "ioctl"
  /\ ~dma_en /\ call[t].dir = "tx"
  /\ left["tx"] = 0
  /\ \E n \in 0..1 : left' = [left EXCEPT !["tx"] = n]
  /\ owner' = [owner EXCEPT !["tx"] = For(t)]
  /\ ier' = ier \cup {"tx"}
  /\ Begun(t)
  /\ UNCHANGED <<use, open, intf, dma, v, side>>

(* atcuart_recevie up to the read of the register in atcuart_rx_enable.    *)
atcuart_recevie(t) ==
  /\ pc[t] = "ioctl"
  /\ ~dma_en /\ call[t].dir = "rx"
  /\ left["rx"] = 0
  /\ left' = [left EXCEPT !["rx"] = 1]
  /\ owner' = [owner EXCEPT !["rx"] = For(t)]
  /\ v' = [v EXCEPT ![t] = ier]
  /\ Goto(t, "enable")
  /\ UNCHANGED <<use, open, intf, ier, dma, call, side>>

(* The write of the register. *)
atcuart_rx_enable(t) ==
  /\ pc[t] = "enable"
  /\ ier' = v[t] \cup {"rx"}
  /\ v' = [v EXCEPT ![t] = {}]
  /\ Begun(t)
  /\ UNCHANGED <<use, open, intf, left, owner, dma, side>>

(* scm_uart_sync gets the permit. *)
wait_ok(t) ==
  LET d == call[t].dir
  IN  /\ pc[t] = "wait"
      /\ done[d] = 1
      /\ done' = [done EXCEPT ![d] = 0]
      /\ Goto(t, "ok")
      /\ UNCHANGED <<use, open, prot, sync, record, dma, call, v, side>>

(* Mutant: a call that times out does not reset the port. *)
wait_timeout_NoReset(t) ==
  /\ "timeout" \in use
  /\ pc[t] = "wait"
  /\ done[call[t].dir] = 0
  /\ Goto(t, "end")
  /\ UNCHANGED <<use, open, intf, record, dma, call, v, side>>

(* scm_uart_sync times out, and the port is to be reset. *)
wait_timeout(t) ==
  /\ "timeout" \in use
  /\ pc[t] = "wait"
  /\ done[call[t].dir] = 0
  /\ Goto(t, "reset")
  /\ UNCHANGED <<use, open, intf, record, dma, call, v, side>>

(* scm_uart_unlock, and the return. *)
scm_uart_unlock(t) ==
  /\ pc[t] \in {"ok", "end"} /\ call[t].dir \in Dirs
  /\ prot' = [prot EXCEPT ![call[t].dir] = 1]
  /\ Return(t)
  /\ UNCHANGED <<use, open, done, sync, record, dma, v, side>>

-----------------------------------------------------------------------------
(* Interrupts *)

Resetting ==
  {"reset", "rx_off", "rx_is_off", "tx_off", "forget", "check", "abort", "drop"}

(* The controller does not end a transfer whose waiter has just timed out. *)
InTime(d) ==
  "late" \in use \/ \A t \in Tasks : pc[t] \in Resetting => call[t].dir # d

(* Mutant: the application is told and the lock kept. *)
uart_notify_KeepsLock(d) ==
  /\ prot' = prot
  /\ done' = IF sync[d] THEN [done EXCEPT ![d] = 1] ELSE done

(* Mutant: the permit is given for asynchronous transfers as well. *)
uart_notify_Always(d) ==
  /\ prot' = IF sync[d] THEN prot ELSE [prot EXCEPT ![d] = 1]
  /\ done' = [done EXCEPT ![d] = 1]

(* uart_notify without an error: a permit for the caller that waits, or    *)
(* notify and the lock.                                                    *)
uart_notify(d) ==
  IF sync[d]
    THEN done' = [done EXCEPT ![d] = 1] /\ prot' = prot
    ELSE prot' = [prot EXCEPT ![d] = 1] /\ done' = done

(* atcuart_dma_done_handler, for a channel that has come to its end: the   *)
(* number that is on record is dropped, whichever channel it is of.        *)
atcuart_dma_done_handler(d) ==
  \E w \in work :
    /\ w.dir = d /\ InTime(d)
    /\ dma_ch' = [dma_ch EXCEPT ![d] = Nobody]
    /\ work' = Dropped(work \ {w}, d)
    /\ uart_notify(d)
    /\ UNCHANGED <<use, open, sync, record, pc, call, v, side>>

(* atcuart_irq_raw, THR: the rest of the data goes to the FIFO ... *)
irq_thr_fill ==
  /\ "tx" \in ier /\ left["tx"] = 1
  /\ left' = [left EXCEPT !["tx"] = 0]
  /\ UNCHANGED <<use, open, intf, owner, ier, dma, pc, call, v, side>>

Completed(d) ==
  /\ ier' = ier \ {d}
  /\ owner' = [owner EXCEPT ![d] = Nobody]
  /\ uart_notify(d)
  /\ UNCHANGED <<use, open, sync, dma, pc, call, v, side>>

(* ... or there is none, and the transmission ends. *)
irq_thr_done ==
  /\ "tx" \in ier /\ left["tx"] = 0 /\ InTime("tx")
  /\ left' = left
  /\ Completed("tx")

(* atcuart_irq_raw, RBR, with the last of the bytes.  An interrupt with    *)
(* fewer only moves them, and RTI throws away what is in the FIFO: both    *)
(* leave the record as far from its end as it was.                         *)
irq_rbr ==
  /\ "rx" \in ier /\ InTime("rx")
  /\ left' = [left EXCEPT !["rx"] = 0]
  /\ Completed("rx")

(* atcuart_irq_raw, LSR: the reception is given up; with DMA the channel   *)
(* is aborted and its number dropped, without, the record stays.           *)
(* uart_notify returns at once when there is an error.                     *)
irq_lsr ==
  /\ "error" \in use
  /\ open
  /\ ier' = ier \ {"rx"}
  /\ IF dma_en
       THEN /\ work' = Aborted("rx")
            /\ dma_ch' = [dma_ch EXCEPT !["rx"] = Nobody]
       ELSE UNCHANGED dma
  /\ UNCHANGED <<use, open, intf, left, owner, pc, call, v, side>>

Interrupt ==
  \/ \E d \in Dirs : atcuart_dma_done_handler(d)
  \/ irq_thr_fill \/ irq_thr_done \/ irq_rbr

proceed(t) ==
  \/ transfer_dma(t) \/ transfer_kick(t) \/ atcuart_transmit(t)
  \/ atcuart_recevie(t) \/ transfer_fails(t) \/ atcuart_rx_enable(t)
  \/ wait_ok(t) \/ atcuart_reset(t)
  \/ scm_uart_unlock(t) \/ reset_returns(t) \/ deinit_returns(t)

Next ==
  \/ scm_uart_init
  \/ \E t \in Tasks :
       \/ scm_uart_deinit(t) \/ scm_uart_reset(t)
       \/ request(t) \/ scm_uart_lock(t)
       \/ proceed(t) \/ wait_timeout(t)
  \/ Interrupt \/ irq_lsr

Spec == Init /\ [][Next]_vars

(* Transfers end, tasks go on with their calls, and the semaphore serves   *)
(* its waiters in turn.                                                    *)
Fairness ==
  /\ \A d \in Dirs : WF_vars(atcuart_dma_done_handler(d))
  /\ WF_vars(irq_thr_fill) /\ WF_vars(irq_thr_done) /\ WF_vars(irq_rbr)
  /\ \A t \in Tasks : WF_vars(proceed(t)) /\ SF_vars(scm_uart_lock(t))

FairSpec == Spec /\ Fairness

-----------------------------------------------------------------------------
(* Properties *)

(* The uses that are safe.  A reset, or a line error, that comes between   *)
(* the store of a channel's number and its start leaves a channel that     *)
(* nobody knows of; without DMA the two directions, and a reset and the    *)
(* interrupts, disturb each other's updates of the interrupt enable        *)
(* register.                                                               *)
Safe ==
  \/ use \subseteq {"timeout", "error", "leave"}
  \/ dma_en /\ \/ use \subseteq {"dma", "timeout", "leave", "short"}
               \/ use \subseteq {"dma", "duplex", "leave", "short"}
               \/ use \subseteq {"dma", "error", "reset", "short"}

(* A synchronous call that returns WISE_OK does so after its own transfer: *)
(* no permit is left over from an earlier one, whatever timed out, failed  *)
(* or was reset before.                                                    *)
OkMeansDone ==
  Safe => \A t \in Tasks : pc[t] = "ok" =>
            LET d == call[t].dir
            IN  owner[d] # t /\ \A w \in work : w.dir = d => w.owner # t

(* Who gets the lock of a direction finds the driver at rest: nobody's     *)
(* buffer is in use, and the call is not refused with -EINPROGRESS.        *)
LockMeansIdle ==
  Safe => \A t \in Tasks : pc[t] = "ioctl" =>
            LET d == call[t].dir
            IN  ~InProgress(d) /\ owner[d] = Nobody /\ \A w \in work : w.dir # d

(* The uses in which no reset is made but after a time-out, and no         *)
(* reception is given up: there, transfers end.                            *)
Plain ==
  \/ use \subseteq {"dma", "timeout", "leave", "short"}
  \/ dma_en /\ use \subseteq {"dma", "duplex", "leave", "short"}

(* A task that waits for a lock gets it, also from an asynchronous         *)
(* transfer, and from one that timed out.                                  *)
LockReturns ==
  \A t \in Tasks : pc[t] = "lock" /\ Plain ~> pc[t] # "lock"
=============================================================================
