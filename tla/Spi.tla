-------------------------------- MODULE Spi --------------------------------
(***************************************************************************)
(* SPI transfers: api/scm_spi.c on hal/drivers/spi/spi-atcspi.c, for one   *)
(* controller that is configured, as master or as slave, with DMA.  (Other-*)
(* wise the interrupt handler moves the bytes; the control is the same.)   *)
(* Tasks start transfers, wait for the synchronous ones on a semaphore and *)
(* reset the controller when the wait times out; the interrupt handler     *)
(* ends transfers and tells the application of the asynchronous ones.      *)
(*                                                                         *)
(* The interrupt handler is one step.  A call can be interrupted between   *)
(* the assignment of data->sync, the test of dev_busy, the set-up that     *)
(* enables TRANS_END, the start of the DMA channels, the assignment of     *)
(* dev_busy, the start of the controller, and the time-out and the reset   *)
(* that follows it.                                                        *)
(***************************************************************************)
EXTENDS Naturals, FiniteSets

CONSTANTS Tasks, Chans, NoChan, NoTask, App,
          Uses         \* the ways the controller is used, see below

(***************************************************************************)
(*   "race"     two tasks call at the same time;                           *)
(*   "overlap"  a task calls while an asynchronous transfer is under way;  *)
(*   "timeout"  a synchronous transfer may take longer than its timeout;   *)
(*   "short"    all DMA channels may be busy;                              *)
(*   "address"  the DMA may not reach a buffer (-EINVAL);                  *)
(*   "cancel"   a slave cancels a prepared transfer;                       *)
(*   "eager"    a master clocks a slave that has not reported that it is   *)
(*              ready (SLV_READY).                                         *)
(* A behaviour has one use, chosen at its start.                           *)
(***************************************************************************)
Oddities == {"race", "overlap", "timeout", "short", "address", "cancel", "eager"}

(* The controllers of the SoC have channels for both directions (eight). *)
ASSUME SpiAssumption ==
  /\ NoChan \notin Chans
  /\ IsFiniteSet(Chans) /\ Cardinality(Chans) >= 2
  /\ NoTask \notin Tasks /\ App \notin Tasks /\ App # NoTask
  /\ Uses \subseteq SUBSET Oddities

VARIABLES
  use, role,
  dev_busy,
  dma_ch,           \* tx_dma_ch and rx_dma_ch
  held,             \* the channels that are busy for this driver
  lens,             \* the directions with data: tx_len, rx_len of trans_ctrl
  ready,            \* tx_ready and rx_ready
  master_requested,
  bus,              \* the controller: off, run, end (interrupt pending), bad
                    \* (the same, a slave's FIFO has under- or overrun)
  armed,            \* TRANS_END is enabled
  slv_err,          \* under- or overrun in the slave's status register
  sync, sem,        \* data->sync, and data->sem
  owner,            \* whose transfer is on the bus: a task's, App's, nobody's
  due,              \* the application has still to be told of a transfer
  pc, req           \* where each task is, and the transfer it asks for

driver == <<dev_busy, dma_ch, held, lens, ready, master_requested>>
ctrl == <<bus, armed, slv_err>>
api == <<sync, sem>>
vars == <<use, role, driver, ctrl, api, owner, due, pc, req>>

Dirs == {"tx", "rx"}

(* A transfer: the directions that have data, whether it begins with a     *)
(* command, and how its caller waits for it.  A transfer without a command *)
(* has data, one with a command goes in one direction, and may have none   *)
(* if that is "tx".                                                        *)
Requests ==
  {r \in [dirs : SUBSET Dirs, cmd : BOOLEAN, sync : BOOLEAN] :
     IF r.cmd THEN r.dirs # Dirs ELSE r.dirs # {}}

(* Stands for the request of a task that has made none. *)
NoRequest == [dirs |-> {"tx"}, cmd |-> FALSE, sync |-> FALSE]

Init ==
  /\ use \in Uses
  /\ role \in {"master", "slave"}
  /\ dev_busy = FALSE
  /\ dma_ch = [d \in Dirs |-> NoChan]
  /\ held = {}
  /\ lens = {}
  /\ ready = {}
  /\ master_requested = FALSE
  /\ bus = "off"
  /\ armed = FALSE
  /\ slv_err = FALSE
  /\ sync = FALSE /\ sem = 0
  /\ owner = NoTask
  /\ due = FALSE
  /\ pc = [t \in Tasks |-> "idle"]
  /\ req = [t \in Tasks |-> NoRequest]

(* A task that the use allows to call now. *)
MayCall(t) ==
  /\ pc[t] = "idle"
  /\ "race" \in use \/ \A s \in Tasks : pc[s] = "idle"
  /\ "overlap" \in use \/ ~due

(* The call returns an error. *)
Fail(t) ==
  /\ pc' = [pc EXCEPT ![t] = "idle"]
  /\ req' = [req EXCEPT ![t] = NoRequest]

Channels == {dma_ch[d] : d \in Dirs} \ {NoChan}

-----------------------------------------------------------------------------
(* Helpers of the driver *)

(* Mutant: the channels are aborted and not forgotten. *)
atcspi_reset_KeepsNumbers ==
  /\ held' = held \ Channels
  /\ dma_ch' = dma_ch
  /\ bus' = "off"
  /\ slv_err' = FALSE

(* atcspi_reset: the channels are aborted and forgotten, the controller is *)
(* reset.  dev_busy, the ready flags and the enabled interrupts stay.  (An *)
(* interrupt in the middle finds channels that are already forgotten and   *)
(* leaves what it leaves when it comes first.)                             *)
atcspi_reset ==
  /\ held' = held \ Channels
  /\ dma_ch' = [d \in Dirs |-> NoChan]
  /\ bus' = "off"
  /\ slv_err' = FALSE

(* atcspi_dma_configure gets a channel for each direction that has data,   *)
(* for a command without data none, and starts it.  (dma_copy_hw stores    *)
(* the number of a channel before it starts it; what could come between    *)
(* these, a second call or a transfer that ends before it has begun, is    *)
(* left to the uses "race" and "eager".)                                   *)
atcspi_dma_configure(dirs) ==
  \E c \in [dirs -> Chans \ held] :
    /\ \A d, e \in dirs : c[d] = c[e] => d = e
    /\ held' = held \cup {c[d] : d \in dirs}
    /\ dma_ch' = [d \in Dirs |-> IF d \in dirs THEN c[d] ELSE dma_ch[d]]

(* atcspi_dma_configure fails, for want of a channel or because the DMA    *)
(* does not reach the buffer: at the first direction, or at "rx" when the  *)
(* channel of "tx" has already been taken and started.                     *)
atcspi_dma_configure_fails(dirs) ==
  /\ dirs # {}
  /\ \/ "short" \in use \/ "address" \in use
     \/ Cardinality(Chans \ held) < Cardinality(dirs)
  /\ \/ UNCHANGED <<held, dma_ch>>
     \/ /\ dirs = Dirs
        /\ \E c \in Chans \ held :
             /\ held' = held \cup {c}
             /\ dma_ch' = [dma_ch EXCEPT !["tx"] = c]

-----------------------------------------------------------------------------
(* Calls of the application *)

(* scm_spi_master_tx, _rx, _tx_rx, _with_cmd and their _async forms: sync  *)
(* is assigned before the driver is called.                                *)
scm_spi_master_call(t) ==
  /\ role = "master"
  /\ MayCall(t)
  /\ \E r \in Requests :
       /\ sync' = r.sync
       /\ req' = [req EXCEPT ![t] = r]
  /\ pc' = [pc EXCEPT ![t] = "ioctl"]
  /\ UNCHANGED <<use, role, driver, ctrl, sem, owner, due>>

(* scm_spi_slave_set_tx_buf, _set_rx_buf, _set_tx_rx_buf: always reported  *)
(* by notify.                                                              *)
scm_spi_slave_call(t) ==
  /\ role = "slave"
  /\ MayCall(t)
  /\ \E r \in Requests :
       /\ ~r.sync /\ ~r.cmd
       /\ req' = [req EXCEPT ![t] = r]
  /\ pc' = [pc EXCEPT ![t] = "ioctl"]
  /\ UNCHANGED <<use, role, driver, ctrl, api, owner, due>>

(* atcspi_master_transfer, _with_cmd and atcspi_slave_trans_prepare up to  *)
(* the test of dev_busy: -EINPROGRESS, and the call fails.                 *)
transfer_test(t) ==
  /\ pc[t] = "ioctl"
  /\ IF dev_busy THEN Fail(t) ELSE pc' = [pc EXCEPT ![t] = "start"] /\ req' = req
  /\ UNCHANGED <<use, role, driver, ctrl, api, owner, due>>

(* atcspi_check_slave_status finds that the master came before the data:   *)
(* the controller is reset, and a master that had been announced to the    *)
(* application is given up (-EIO).                                         *)
atcspi_check_slave_status(t) ==
  /\ pc[t] = "start"
  /\ role = "slave" /\ slv_err
  /\ atcspi_reset
  /\ master_requested' = FALSE
  /\ IF master_requested THEN Fail(t) ELSE UNCHANGED <<pc, req>>
  /\ UNCHANGED <<use, role, dev_busy, lens, ready, armed, api, owner, due>>

(* atcspi_trans_config, or atcspi_trans_cmd_config, which leaves the ready *)
(* flags: the lengths, then the registers, with TRANS_END enabled.         *)
trans_config(t) ==
  LET r == req[t]
  IN  /\ pc[t] = "start"
      /\ role = "master" \/ ~slv_err
      /\ lens' = r.dirs
      /\ ready' = IF r.cmd THEN ready ELSE ready \cup r.dirs
      /\ armed' = TRUE
      /\ pc' = [pc EXCEPT ![t] = "dma"]
      /\ UNCHANGED <<use, role, dev_busy, dma_ch, held, master_requested, bus, slv_err,
                     api, owner, due, req>>

transfer_dma(t) ==
  /\ pc[t] = "dma"
  /\ atcspi_dma_configure(req[t].dirs)
  /\ pc' = [pc EXCEPT ![t] = "busy"]
  /\ UNCHANGED <<use, role, dev_busy, lens, ready, master_requested, ctrl, api, owner,
                 due, req>>

(* The call fails; the ready flags, TRANS_END and a channel stay behind. *)
transfer_dma_fails(t) ==
  /\ pc[t] = "dma"
  /\ atcspi_dma_configure_fails(req[t].dirs)
  /\ Fail(t)
  /\ UNCHANGED <<use, role, dev_busy, lens, ready, master_requested, ctrl, api, owner,
                 due>>

(* "priv->dev_busy = 1" *)
transfer_busy(t) ==
  /\ pc[t] = "busy"
  /\ dev_busy' = TRUE
  /\ pc' = [pc EXCEPT ![t] = "trigger"]
  /\ UNCHANGED <<use, role, dma_ch, held, lens, ready, master_requested, ctrl, api,
                 owner, due, req>>

(* The command that starts a master, or SLV_READY.  Without TRANS_END the  *)
(* transfer would never be reported.                                       *)
transfer_trigger(t) ==
  LET r == req[t]
  IN  /\ pc[t] = "trigger"
      /\ bus' = IF armed /\ bus = "off" THEN "run" ELSE bus
      /\ owner' = IF r.sync THEN t ELSE App
      /\ due' = (due \/ ~r.sync)
      /\ pc' = [pc EXCEPT ![t] = IF role = "master" /\ sync THEN "wait" ELSE "idle"]
      /\ req' = [req EXCEPT ![t] = NoRequest]
      /\ UNCHANGED <<use, role, driver, armed, slv_err, api>>

(* osSemaphoreAcquire gets the permit; the call returns WISE_OK. *)
wait_ok(t) ==
  /\ pc[t] = "wait"
  /\ sem = 1
  /\ sem' = 0
  /\ pc' = [pc EXCEPT ![t] = "ok"]
  /\ UNCHANGED <<use, role, driver, ctrl, sync, owner, due, req>>

(* osSemaphoreAcquire times out. *)
wait_timeout(t) ==
  /\ "timeout" \in use
  /\ pc[t] = "wait"
  /\ sem = 0
  /\ pc' = [pc EXCEPT ![t] = "timeout"]
  /\ UNCHANGED <<use, role, driver, ctrl, api, owner, due, req>>

(* The call resets the controller and returns WISE_ERR_TIMEOUT. *)
timeout_reset(t) ==
  /\ pc[t] = "timeout"
  /\ atcspi_reset
  /\ owner' = NoTask
  /\ pc' = [pc EXCEPT ![t] = "idle"]
  /\ UNCHANGED <<use, role, dev_busy, lens, ready, master_requested, armed, api, due, req>>

return_ok(t) ==
  /\ pc[t] = "ok"
  /\ pc' = [pc EXCEPT ![t] = "idle"]
  /\ UNCHANGED <<use, role, driver, ctrl, api, owner, due, req>>

(* scm_spi_reset, and scm_spi_configure with another role or the same,     *)
(* which resets the controller first.                                      *)
scm_spi_reset(t) ==
  /\ MayCall(t)
  /\ atcspi_reset
  /\ owner' = NoTask
  /\ role' \in {role, IF role = "master" THEN "slave" ELSE "master"}
  /\ UNCHANGED <<use, dev_busy, lens, ready, master_requested, armed, api, due, pc, req>>

(* scm_spi_slave_cancel. *)
scm_spi_slave_cancel(t) ==
  /\ "cancel" \in use
  /\ role = "slave"
  /\ pc[t] = "idle"
  /\ "race" \in use \/ \A s \in Tasks : pc[s] = "idle"
  /\ dev_busy
  /\ atcspi_reset
  /\ dev_busy' = FALSE
  /\ owner' = NoTask
  /\ due' = FALSE
  /\ UNCHANGED <<use, role, lens, ready, master_requested, armed, api, pc, req>>

-----------------------------------------------------------------------------
(* The controller (external) and its interrupt *)

(* A transfer ends; a slave may have had too little or too much data. *)
transfer_end ==
  /\ bus = "run"
  /\ bus' \in IF role = "master" THEN {"end"} ELSE {"end", "bad"}
  /\ UNCHANGED <<use, role, driver, armed, slv_err, api, owner, due, pc, req>>

(* A master clocks a slave before it is ready; if TRANS_END is enabled, as *)
(* it is during a call and after one that failed, this ends a transfer.    *)
eager_end ==
  /\ "eager" \in use
  /\ role = "slave" /\ armed /\ bus = "off"
  /\ bus' \in {"end", "bad"}
  /\ UNCHANGED <<use, role, driver, armed, slv_err, api, owner, due, pc, req>>

(* atcspi_irq with SLV_CMD: a master wants data in a direction for which   *)
(* nothing is ready; SLAVE_TX_REQ or SLAVE_RX_REQ is reported, and the     *)
(* FIFO underruns or overruns unless the application prepares it in time.  *)
slave_command(d) ==
  /\ role = "slave" /\ bus \in {"off", "run"}
  /\ d \notin ready
  /\ master_requested' = TRUE
  /\ slv_err' \in {slv_err, TRUE}
  /\ UNCHANGED <<use, role, dev_busy, dma_ch, held, lens, ready, bus, armed, api, owner,
                 due, pc, req>>

(* Mutant: the permit is given for every transfer. *)
spi_notify_Always ==
  /\ sem' = 1
  /\ due' = IF role = "master" /\ sync THEN due ELSE FALSE

(* Mutant: a slave's report depends on data->sync too. *)
spi_notify_SyncSlave ==
  IF sync THEN sem' = 1 /\ due' = due ELSE sem' = sem /\ due' = FALSE

(* spi_notify: a master's completion goes to the semaphore or, like a      *)
(* slave's, to the application, by what data->sync says now.               *)
spi_notify ==
  IF role = "master" /\ sync
    THEN sem' = 1 /\ due' = due
    ELSE sem' = sem /\ due' = FALSE

(* Mutant: dev_busy is cleared for successful transfers only. *)
trans_end_BusyOnError ==
  /\ bus \in {"end", "bad"}
  /\ held' = held \ Channels
  /\ dma_ch' = [d \in Dirs |-> NoChan]
  /\ bus' = "off" /\ armed' = FALSE /\ slv_err' = FALSE
  /\ ready' = {}
  /\ master_requested' = FALSE
  /\ spi_notify
  /\ dev_busy' = (bus = "bad")
  /\ owner' = NoTask
  /\ UNCHANGED <<use, role, lens, sync, pc, req>>

(* atcspi_irq with TRANS_END.  A slave's error resets the controller; the  *)
(* channels are released (or were aborted by the reset), the application   *)
(* is told, and only then is the driver free.                              *)
trans_end ==
  /\ bus \in {"end", "bad"}
  /\ held' = held \ Channels
  /\ dma_ch' = [d \in Dirs |-> NoChan]
  /\ bus' = "off" /\ armed' = FALSE /\ slv_err' = FALSE
  /\ ready' = {}
  /\ master_requested' = FALSE
  /\ spi_notify
  /\ dev_busy' = FALSE
  /\ owner' = NoTask
  /\ UNCHANGED <<use, role, lens, sync, pc, req>>

call(t) ==
  \/ transfer_test(t) \/ atcspi_check_slave_status(t)
  \/ trans_config(t) \/ transfer_dma(t) \/ transfer_dma_fails(t)
  \/ transfer_busy(t) \/ transfer_trigger(t)
  \/ wait_ok(t) \/ timeout_reset(t) \/ return_ok(t)

Next ==
  \/ \E t \in Tasks :
       \/ scm_spi_master_call(t) \/ scm_spi_slave_call(t) \/ call(t)
       \/ wait_timeout(t) \/ scm_spi_reset(t) \/ scm_spi_slave_cancel(t)
  \/ \E d \in Dirs : slave_command(d)
  \/ transfer_end \/ eager_end \/ trans_end

Spec == Init /\ [][Next]_vars

(* Transfers end, interrupts are taken, tasks go on with their calls. *)
Fairness ==
  /\ WF_vars(transfer_end) /\ WF_vars(trans_end)
  /\ \A t \in Tasks : WF_vars(call(t))

FairSpec == Spec /\ Fairness

-----------------------------------------------------------------------------
(* Properties *)

Only(odd) == use \subseteq odd

(* A synchronous call that returns WISE_OK returns after its own transfer, *)
(* so that the caller's buffer is sent or filled: no permit is left over   *)
(* from another.                                                           *)
OkMeansDone ==
  Only({"short", "address", "cancel"}) => \A t \in Tasks : pc[t] = "ok" => owner # t

(* dev_busy is set exactly while the controller works on a transfer, but   *)
(* for the moment before it is started: set without one it would refuse    *)
(* every later call with -EINPROGRESS.  And a slave with nothing prepared  *)
(* has its ready flags down, which otherwise suppress the report that a    *)
(* master wants data.                                                      *)
BusyExact ==
  /\ (Only({"short", "address", "cancel"}) /\ \A t \in Tasks : pc[t] # "trigger") =>
       (dev_busy <=> bus # "off")
  /\ (Only({}) /\ role = "slave" /\ bus = "off"
        /\ \A t \in Tasks : pc[t] \notin {"dma", "busy", "trigger"}) => ready = {}

(* The transfer that was set up has its DMA channels. *)
UnderWay == bus # "off" \/ \E t \in Tasks : pc[t] \in {"busy", "trigger"}

(* The DMA channels that are busy for this driver are those it remembers,  *)
(* one for each direction of the transfer under way that has data, and     *)
(* none is left when there is no transfer, whatever timed out, was reset   *)
(* or cancelled.                                                           *)
ChannelsHeld ==
  Only({"overlap", "timeout", "cancel"}) =>
    /\ held = Channels
    /\ dma_ch["tx"] = dma_ch["rx"] => dma_ch["tx"] = NoChan
    /\ {d \in Dirs : dma_ch[d] # NoChan} = IF UnderWay THEN lens ELSE {}

(* The application is told of every asynchronous transfer. *)
Notified == (Only({"short", "address"}) /\ due) ~> ~due
=============================================================================
