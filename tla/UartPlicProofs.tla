--------------------------- MODULE UartPlicProofs ---------------------------
(***************************************************************************)
(* Safety of the UART driver and of the interrupt dispatch below it.       *)
(*                                                                         *)
(* The UART, for every set of tasks: the permit of sem_done that a call    *)
(* takes is the one its own transfer put, and who takes the lock of a      *)
(* direction finds the driver at rest.  The lock passes between a call, an *)
(* asynchronous transfer and the interrupt that ends it: Locked says for   *)
(* each direction who has it, ResetAt how far a reset has come, and Numbers*)
(* which of the channels that run the driver still knows of.               *)
(*                                                                         *)
(* The dispatch, for every set of drivers and lines such that a driver     *)
(* that calls free_irq has its line for itself (Alone): a handler stays on *)
(* its chain until its driver takes it off, and one interrupt serves every *)
(* device that asserts the line.                                           *)
(***************************************************************************)
EXTENDS Uart, Plic, FiniteSetTheorems, SequenceTheorems, TLAPS

-----------------------------------------------------------------------------

(* Where a call is that waits, works or returns. *)
Waiting == {"lock", "ioctl", "kick", "enable", "wait", "ok"}
Labels == Waiting \cup Resetting \cup {"idle", "end"}

Running == [dir : Dirs, owner : Tasks \cup {App}, kept : BOOLEAN]

UartTyped ==
  /\ use \in SUBSET Oddities
  /\ open \in BOOLEAN
  /\ prot \in [Dirs -> 0..1] /\ done \in [Dirs -> 0..1] /\ sync \in [Dirs -> BOOLEAN]
  /\ left \in [Dirs -> 0..1] /\ owner \in [Dirs -> Tasks \cup {App, Nobody}]
  /\ ier \in SUBSET Dirs
  /\ dma_ch \in [Dirs -> Tasks \cup {Nobody}]
  /\ work \in SUBSET Running
  /\ pc \in [Tasks -> Labels]
  /\ call \in [Tasks -> Calls \cup {ResetCall, DeinitCall}]
  /\ v \in [Tasks -> SUBSET Dirs]
  /\ side \in [Tasks -> Dirs]

(* What each call does is what it was made for. *)
Fits ==
  \A t \in Tasks :
    /\ pc[t] \in Waiting => call[t] \in Calls
    /\ pc[t] \in {"wait", "ok"} => call[t].sync
    /\ pc[t] = "enable" => call[t].dir = "rx"
    /\ pc[t] \in Resetting \cup {"end"} =>
         /\ call[t] \in Calls => "timeout" \in use /\ call[t].sync
         /\ call[t] = ResetCall => "reset" \in use
    /\ pc[t] \notin {"check", "abort", "drop"} => side[t] = "tx"

(* With DMA the record and the interrupts are not used, without, channels  *)
(* are not.                                                                *)
Modes ==
  /\ dma_en => /\ ier = {}
               /\ \A d \in Dirs : left[d] = 0 /\ owner[d] = Nobody
               /\ \A t \in Tasks : pc[t] # "enable" /\ v[t] = {}
  /\ ~dma_en => /\ work = {}
                /\ \A d \in Dirs : dma_ch[d] = Nobody
                /\ \A t \in Tasks : pc[t] \notin {"kick", "check", "abort", "drop"}

(* No channel works for d. *)
Still(d) == \A w \in work : w.dir # d

(* The driver does nothing for d, and will not. *)
Rest(d) ==
  left[d] = 0 /\ owner[d] = Nobody /\ d \notin ier /\ dma_ch[d] = Nobody /\ Still(d)

(* An interrupt may end a transfer of d. *)
Active(d) == d \in ier \/ ~Still(d)

(* A call of t has the lock of d. *)
Holder(t, d) == call[t].dir = d /\ pc[t] \notin {"idle", "lock"}

(* Who may have the lock: nobody, one call, or a transfer of its own. *)
Locked(d) ==
  /\ prot[d] = 1 => Rest(d) /\ done[d] = 0 /\ \A t \in Tasks : ~Holder(t, d)
  /\ \A s, t \in Tasks : Holder(s, d) /\ Holder(t, d) => s = t
  /\ \A t \in Tasks : Holder(t, d) => sync[d] = call[t].sync
  /\ \A t \in Tasks : Holder(t, d) /\ pc[t] \in {"ioctl", "ok", "end"} => Rest(d)
  /\ \A t \in Tasks : Holder(t, d) /\ pc[t] = "kick" => Still(d)
  /\ done[d] = 1 => Rest(d) /\ \E t \in Tasks : Holder(t, d) /\ pc[t] = "wait"
  /\ Active(d) /\ sync[d] =>
       \E t \in Tasks : Holder(t, d) /\ pc[t] \in Resetting \cup {"wait"}
  /\ Active(d) /\ ~sync[d] => \A t \in Tasks : ~Holder(t, d)

(* Without "duplex" the two directions take turns, so that the copy of the *)
(* interrupt enable register that a receiver, or the reset after a         *)
(* time-out, has read does not go stale.                                   *)
OneWay ==
  "duplex" \notin use =>
    \A t \in Tasks : pc[t] # "idle" /\ call[t] \in Calls =>
      /\ \A d \in Dirs \ {call[t].dir} :
           prot[d] = 1 /\ \A s \in Tasks : pc[s] # "idle" => call[s].dir # d
      /\ pc[t] = "enable" => v[t] = {}
      /\ pc[t] = "rx_off" => v[t] \subseteq ier \cup {"rx"}

(* The channels and their numbers: only a reset and a line error part them *)
Numbers ==
  /\ \A w \in work : w.kept => dma_ch[w.dir] # Nobody
  /\ \A w, x \in work : w.dir = x.dir => w = x
  /\ "error" \notin use /\ "reset" \notin use =>
       /\ \A w \in work : w.kept
       /\ \A t \in Tasks : pc[t] = "kick" => dma_ch[call[t].dir] = t

(* How far a reset has come that nobody else disturbs. *)
ResetAt(t) ==
  /\ pc[t] \in {"rx_is_off", "tx_off"} => "rx" \notin ier
  /\ pc[t] = "tx_off" => "rx" \notin v[t]
  /\ pc[t] \in {"forget", "check", "abort", "drop", "end"} => ier = {}
  /\ pc[t] \in {"check", "abort", "drop", "end"} =>
       \A d \in Dirs : left[d] = 0 /\ owner[d] = Nobody
  /\ (pc[t] \in {"check", "abort", "drop"} /\ side[t] = "rx") \/ pc[t] = "end" =>
       dma_ch["tx"] = Nobody /\ Still("tx")
  /\ pc[t] = "drop" => Still(side[t])
  /\ pc[t] = "end" => dma_ch["rx"] = Nobody /\ Still("rx")

(* A port in use. *)
Working ==
  /\ \A d \in Dirs : Locked(d)
  /\ OneWay
  /\ Numbers
  /\ \A t \in Tasks : pc[t] # "idle" /\ call[t] \in Calls => ResetAt(t)

(* A port that t deinitialises. *)
Closing(t) ==
  /\ pc[t] \in Resetting \cup {"end"} /\ call[t] = DeinitCall
  /\ \A s \in Tasks : s # t => pc[s] = "idle"
  /\ \A w \in work : w.kept
  /\ Numbers
  /\ ResetAt(t)

UartInv ==
  /\ UartTyped /\ Fits /\ Modes
  /\ Safe => /\ Usable => Working
             /\ open /\ ~Usable => \E t \in Tasks : Closing(t)
             /\ ~open => Idle /\ \A d \in Dirs : Rest(d)

(* The kinds of calls. *)
LEMMA CallKinds ==
  /\ \A c \in Calls : c.dir \in Dirs /\ c.sync \in BOOLEAN
  /\ ResetCall \notin Calls /\ ResetCall.dir \notin Dirs \cup {"deinit"}
  /\ DeinitCall \notin Calls /\ DeinitCall.dir = "deinit" /\ "deinit" \notin Dirs
  /\ ResetCall # DeinitCall
BY DEF Calls, Dirs, ResetCall, DeinitCall

(* A channel whose number is dropped is otherwise what it was. *)
LEMMA DroppedOne ==
  ASSUME NEW W \in SUBSET Running, NEW d \in Dirs, NEW x \in Dropped(W, d)
  PROVE  \E w \in W :
           /\ x = [dir |-> w.dir, owner |-> w.owner, kept |-> w.kept /\ w.dir # d]
           /\ x \in Running
<1>1. PICK w \in W : x = [w EXCEPT !.kept = @ /\ w.dir # d]
  BY DEF Dropped
<1>2. /\ w = [dir |-> w.dir, owner |-> w.owner, kept |-> w.kept]
      /\ w.dir \in Dirs /\ w.owner \in Tasks \cup {App} /\ w.kept \in BOOLEAN
  BY DEF Running
<1>3. x = [dir |-> w.dir, owner |-> w.owner, kept |-> w.kept /\ w.dir # d]
  BY <1>1, <1>2
<1> QED
  BY <1>1, <1>2, <1>3 DEF Running

(* There may be no channel whose number is to be dropped. *)
LEMMA DroppedNone ==
  ASSUME NEW W \in SUBSET Running, NEW d \in Dirs, \A w \in W : w.dir # d
  PROVE  Dropped(W, d) = W
<1>1. \A w \in W : [w EXCEPT !.kept = @ /\ w.dir # d] = w
  BY DEF Running
<1> QED
  BY <1>1 DEF Dropped

(* To drop a number changes nothing else of what runs. *)
LEMMA DroppedWork ==
  ASSUME NEW W \in SUBSET Running, NEW d \in Dirs
  PROVE  /\ Dropped(W, d) \in SUBSET Running
         /\ \A x \in Dropped(W, d) :
              \E w \in W : x.dir = w.dir /\ x.owner = w.owner
                          /\ (x.kept => w.kept /\ w.dir # d)
<1>1. ASSUME NEW x \in Dropped(W, d)
      PROVE  /\ x \in Running
             /\ \E w \in W : x.dir = w.dir /\ x.owner = w.owner
                           /\ (x.kept => w.kept /\ w.dir # d)
  <2>1. PICK w \in W :
          /\ x = [dir |-> w.dir, owner |-> w.owner, kept |-> w.kept /\ w.dir # d]
          /\ x \in Running
    BY <1>1, DroppedOne
  <2>2. x.dir = w.dir /\ x.owner = w.owner /\ (x.kept => w.kept /\ w.dir # d)
    BY <2>1
  <2> QED
    BY <2>1, <2>2
<1> QED
  BY <1>1

(* Every step keeps the types. *)
LEMMA UartTypedStep ==
  ASSUME UartTyped, Fits, [Next]_vars
  PROVE  UartTyped'
<1> USE UartAssumption
<1>1. ASSUME scm_uart_init PROVE UartTyped'
  BY <1>1 DEF scm_uart_init, UartTyped, Fits, Labels, Waiting, Resetting, Calls
<1>2. ASSUME NEW t \in Tasks, scm_uart_deinit(t) PROVE UartTyped'
  BY <1>2
  DEF scm_uart_deinit, Goto, intf, record, dma, UartTyped, Fits, Labels, Waiting,
      Resetting, Calls
<1>3. ASSUME NEW t \in Tasks, scm_uart_reset(t) PROVE UartTyped'
  BY <1>3
  DEF scm_uart_reset, Goto, intf, record, dma, UartTyped, Fits, Labels, Waiting,
      Resetting, Calls
<1>4. ASSUME NEW t \in Tasks, read_ier(t, "reset", "rx_off") PROVE UartTyped'
  BY <1>4
  DEF read_ier, Goto, intf, record, dma, UartTyped, Fits, Labels, Waiting, Resetting,
      Calls
<1>5. ASSUME NEW t \in Tasks, write_ier(t, "rx", "rx_off", "rx_is_off") PROVE UartTyped'
  BY <1>5
  DEF write_ier, Goto, intf, dma, UartTyped, Fits, Labels, Waiting, Resetting, Calls
<1>6. ASSUME NEW t \in Tasks, read_ier(t, "rx_is_off", "tx_off") PROVE UartTyped'
  BY <1>6
  DEF read_ier, Goto, intf, record, dma, UartTyped, Fits, Labels, Waiting, Resetting,
      Calls
<1>7. ASSUME NEW t \in Tasks, write_ier(t, "tx", "tx_off", "forget") PROVE UartTyped'
  BY <1>7
  DEF write_ier, Goto, intf, dma, UartTyped, Fits, Labels, Waiting, Resetting, Calls
<1>8. ASSUME NEW t \in Tasks, reset_tr(t) PROVE UartTyped'
  BY <1>8
  DEF reset_tr, Goto, intf, dma, UartTyped, Fits, Labels, Waiting, Resetting, Calls
<1>9. ASSUME NEW t \in Tasks, reset_check(t) PROVE UartTyped'
  BY <1>9
  DEF reset_check, NextChannel, Goto, intf, record, dma, UartTyped, Dirs, Labels,
      Resetting
<1>10. ASSUME NEW t \in Tasks, reset_abort(t) PROVE UartTyped'
  BY <1>10
  DEF reset_abort, Aborted, Goto, intf, record, UartTyped, Fits, Labels, Waiting,
      Resetting, Calls
<1>11. ASSUME NEW t \in Tasks, reset_drop(t) PROVE UartTyped'
  <2>1. work' \in SUBSET Running
    BY <1>11, DroppedWork DEF reset_drop, UartTyped
  <2> QED
    BY <1>11, <2>1
    DEF reset_drop, NextChannel, Goto, intf, record, UartTyped, Dirs, Labels,
        Resetting
<1>12. ASSUME NEW t \in Tasks, reset_returns(t) PROVE UartTyped'
  BY <1>12
  DEF reset_returns, Return, Goto, intf, record, dma, UartTyped, Fits, Labels,
      Waiting, Resetting, Calls
<1>13. ASSUME NEW t \in Tasks, deinit_returns(t) PROVE UartTyped'
  <2>1. prot' \in [Dirs -> 0..1] /\ done' \in [Dirs -> 0..1]
    BY <1>13 DEF deinit_returns
  <2> QED
    BY <1>13, <2>1 DEF deinit_returns, Return, Goto, record, dma, UartTyped, Labels
<1>14. ASSUME NEW t \in Tasks, request(t) PROVE UartTyped'
  BY <1>14
  DEF request, Goto, intf, record, dma, UartTyped, Fits, Labels, Waiting, Resetting,
      Calls
<1>15. ASSUME NEW t \in Tasks, scm_uart_lock(t) PROVE UartTyped'
  BY <1>15
  DEF scm_uart_lock, Goto, record, dma, UartTyped, Fits, Labels, Waiting, Resetting,
      Calls
<1>16. ASSUME NEW t \in Tasks, transfer_fails(t) PROVE UartTyped'
  BY <1>16
  DEF transfer_fails, Return, Goto, record, dma, UartTyped, Fits, Labels, Waiting,
      Resetting, Calls
<1>17. ASSUME NEW t \in Tasks, transfer_dma(t) PROVE UartTyped'
  BY <1>17
  DEF transfer_dma, Goto, intf, record, UartTyped, Fits, Labels, Waiting, Resetting,
      Calls
<1>18. ASSUME NEW t \in Tasks, transfer_kick(t) PROVE UartTyped'
  <2>1. call[t] \in Calls
    BY <1>18 DEF transfer_kick, Fits, Waiting
  <2> DEFINE w == [dir |-> call[t].dir, owner |-> For(t), kept |-> dma_ch[call[t].dir] = t]
  <2>a. w \in Running
    BY <2>1, CallKinds DEF For, Running
  <2>2. work' \in SUBSET Running
    BY <1>18, <2>a DEF transfer_kick, UartTyped
  <2>3. pc' \in [Tasks -> Labels] /\ call' \in [Tasks -> Calls \cup {ResetCall, DeinitCall}]
    BY <1>18 DEF transfer_kick, Begun, Return, Goto, UartTyped, Labels, Waiting
  <2> QED
    BY <1>18, <2>2, <2>3 DEF transfer_kick, intf, record, UartTyped
<1>19. ASSUME NEW t \in Tasks, atcuart_transmit(t) PROVE UartTyped'
  BY <1>19
  DEF atcuart_transmit, For, Begun, Return, Goto, intf, dma, UartTyped, Fits, Labels,
      Waiting, Resetting, Calls
<1>20. ASSUME NEW t \in Tasks, atcuart_recevie(t) PROVE UartTyped'
  BY <1>20
  DEF atcuart_recevie, For, Goto, intf, dma, UartTyped, Fits, Labels, Waiting,
      Resetting, Calls
<1>21. ASSUME NEW t \in Tasks, atcuart_rx_enable(t) PROVE UartTyped'
  <2>1. pc' \in [Tasks -> Labels] /\ call' \in [Tasks -> Calls \cup {ResetCall, DeinitCall}]
    BY <1>21 DEF atcuart_rx_enable, Begun, Return, Goto, UartTyped, Labels, Waiting
  <2>2. ier' \in SUBSET Dirs /\ v' \in [Tasks -> SUBSET Dirs]
    BY <1>21 DEF atcuart_rx_enable, UartTyped, Dirs
  <2> QED
    BY <1>21, <2>1, <2>2 DEF atcuart_rx_enable, intf, dma, UartTyped
<1>22. ASSUME NEW t \in Tasks, wait_ok(t) PROVE UartTyped'
  BY <1>22
  DEF wait_ok, Goto, record, dma, UartTyped, Fits, Labels, Waiting, Resetting, Calls
<1>23. ASSUME NEW t \in Tasks, wait_timeout(t) PROVE UartTyped'
  BY <1>23
  DEF wait_timeout, Goto, intf, record, dma, UartTyped, Fits, Labels, Waiting,
      Resetting, Calls
<1>24. ASSUME NEW t \in Tasks, scm_uart_unlock(t) PROVE UartTyped'
  BY <1>24
  DEF scm_uart_unlock, Return, Goto, record, dma, UartTyped, Fits, Labels, Waiting,
      Resetting, Calls
<1>25. ASSUME NEW e \in Dirs, atcuart_dma_done_handler(e) PROVE UartTyped'
  <2>1. work' \in SUBSET Running
    BY <1>25, DroppedWork DEF atcuart_dma_done_handler, UartTyped
  <2>2. UNCHANGED <<use, open, sync, left, owner, ier, pc, call, v, side>>
    BY <1>25 DEF atcuart_dma_done_handler, record
  <2>3. dma_ch' = [dma_ch EXCEPT ![e] = Nobody] /\ uart_notify(e)
    BY <1>25 DEF atcuart_dma_done_handler
  <2>4. dma_ch' \in [Dirs -> Tasks \cup {Nobody}]
    BY <2>3 DEF UartTyped
  <2>5. prot' \in [Dirs -> 0..1] /\ done' \in [Dirs -> 0..1]
    BY <2>3 DEF uart_notify, UartTyped
  <2> QED
    BY <2>1, <2>2, <2>4, <2>5 DEF UartTyped
<1>26. ASSUME irq_thr_fill PROVE UartTyped'
  BY <1>26
  DEF irq_thr_fill, intf, dma, UartTyped, Fits, Labels, Waiting, Resetting, Calls
<1>27. ASSUME irq_thr_done PROVE UartTyped'
  BY <1>27
  DEF irq_thr_done, Completed, uart_notify, dma, UartTyped, Fits, Labels, Waiting,
      Resetting, Calls
<1>28. ASSUME irq_rbr PROVE UartTyped'
  BY <1>28
  DEF irq_rbr, Completed, uart_notify, dma, UartTyped, Fits, Labels, Waiting,
      Resetting, Calls
<1>29. ASSUME irq_lsr PROVE UartTyped'
  BY <1>29
  DEF irq_lsr, Aborted, intf, dma, UartTyped, Fits, Labels, Waiting, Resetting, Calls
<1>30. CASE UNCHANGED vars
  BY <1>30
  DEF vars, intf, record, dma, UartTyped, Fits, Labels, Waiting, Resetting, Calls
<1> QED
  BY <1>1, <1>2, <1>3, <1>4, <1>5, <1>6, <1>7, <1>8, <1>9, <1>10, <1>11, <1>12, <1>13,
     <1>14, <1>15, <1>16, <1>17, <1>18, <1>19, <1>20, <1>21, <1>22, <1>23, <1>24,
     <1>25, <1>26, <1>27, <1>28, <1>29, <1>30
  DEF Next, proceed, atcuart_reset, reset_irqs, Interrupt

(* Every step is one of the call it belongs to. *)
LEMMA FitsStep ==
  ASSUME UartTyped, Fits, [Next]_vars
  PROVE  Fits'
<1> USE UartAssumption
<1>1. ASSUME scm_uart_init PROVE Fits'
  BY <1>1 DEF scm_uart_init, UartTyped, Fits, Waiting, Resetting
<1>2. ASSUME NEW t \in Tasks, scm_uart_deinit(t) PROVE Fits'
  BY <1>2, CallKinds
  DEF scm_uart_deinit, Idle, Goto, UartTyped, Fits, Waiting, Resetting
<1>3. ASSUME NEW t \in Tasks, scm_uart_reset(t) PROVE Fits'
  BY <1>3, CallKinds DEF scm_uart_reset, Goto, UartTyped, Fits, Waiting, Resetting
<1>4. ASSUME NEW t \in Tasks, read_ier(t, "reset", "rx_off") PROVE Fits'
  BY <1>4 DEF read_ier, Goto, intf, record, dma, UartTyped, Fits, Waiting, Resetting
<1>5. ASSUME NEW t \in Tasks, write_ier(t, "rx", "rx_off", "rx_is_off") PROVE Fits'
  BY <1>5 DEF write_ier, Goto, intf, dma, UartTyped, Fits, Waiting, Resetting
<1>6. ASSUME NEW t \in Tasks, read_ier(t, "rx_is_off", "tx_off") PROVE Fits'
  BY <1>6 DEF read_ier, Goto, intf, record, dma, UartTyped, Fits, Waiting, Resetting
<1>7. ASSUME NEW t \in Tasks, write_ier(t, "tx", "tx_off", "forget") PROVE Fits'
  BY <1>7 DEF write_ier, Goto, intf, dma, UartTyped, Fits, Waiting, Resetting
<1>8. ASSUME NEW t \in Tasks, reset_tr(t) PROVE Fits'
  BY <1>8 DEF reset_tr, Goto, intf, dma, UartTyped, Fits, Waiting, Resetting
<1>9. ASSUME NEW t \in Tasks, reset_check(t) PROVE Fits'
  BY <1>9
  DEF reset_check, NextChannel, Goto, intf, record, dma, UartTyped, Fits, Waiting,
      Resetting
<1>10. ASSUME NEW t \in Tasks, reset_abort(t) PROVE Fits'
  BY <1>10
  DEF reset_abort, Aborted, Goto, intf, record, UartTyped, Fits, Waiting, Resetting
<1>11. ASSUME NEW t \in Tasks, reset_drop(t) PROVE Fits'
  BY <1>11
  DEF reset_drop, Dropped, NextChannel, Goto, intf, record, UartTyped, Fits, Waiting,
      Resetting
<1>12. ASSUME NEW t \in Tasks, reset_returns(t) PROVE Fits'
  BY <1>12
  DEF reset_returns, Return, Goto, intf, record, dma, UartTyped, Fits, Waiting,
      Resetting
<1>13. ASSUME NEW t \in Tasks, deinit_returns(t) PROVE Fits'
  BY <1>13
  DEF deinit_returns, Return, Goto, record, dma, UartTyped, Fits, Waiting, Resetting
<1>14. ASSUME NEW t \in Tasks, request(t) PROVE Fits'
  BY <1>14 DEF request, Goto, intf, record, dma, UartTyped, Fits, Waiting, Resetting
<1>15. ASSUME NEW t \in Tasks, scm_uart_lock(t) PROVE Fits'
  BY <1>15 DEF scm_uart_lock, Goto, record, dma, UartTyped, Fits, Waiting, Resetting
<1>16. ASSUME NEW t \in Tasks, transfer_fails(t) PROVE Fits'
  BY <1>16
  DEF transfer_fails, Return, Goto, record, dma, UartTyped, Fits, Waiting, Resetting
<1>17. ASSUME NEW t \in Tasks, transfer_dma(t) PROVE Fits'
  BY <1>17 DEF transfer_dma, Goto, intf, record, UartTyped, Fits, Waiting, Resetting
<1>18. ASSUME NEW t \in Tasks, transfer_kick(t) PROVE Fits'
  BY <1>18
  DEF transfer_kick, For, Begun, Return, Goto, intf, record, UartTyped, Fits, Waiting,
      Resetting
<1>19. ASSUME NEW t \in Tasks, atcuart_transmit(t) PROVE Fits'
  BY <1>19
  DEF atcuart_transmit, For, Begun, Return, Goto, intf, dma, UartTyped, Fits, Waiting,
      Resetting
<1>20. ASSUME NEW t \in Tasks, atcuart_recevie(t) PROVE Fits'
  BY <1>20
  DEF atcuart_recevie, For, Goto, intf, dma, UartTyped, Fits, Waiting, Resetting
<1>21. ASSUME NEW t \in Tasks, atcuart_rx_enable(t) PROVE Fits'
  BY <1>21
  DEF atcuart_rx_enable, Begun, Return, Goto, intf, dma, UartTyped, Fits, Waiting,
      Resetting
<1>22. ASSUME NEW t \in Tasks, wait_ok(t) PROVE Fits'
  BY <1>22 DEF wait_ok, Goto, record, dma, UartTyped, Fits, Waiting, Resetting
<1>23. ASSUME NEW t \in Tasks, wait_timeout(t) PROVE Fits'
  BY <1>23, CallKinds DEF wait_timeout, Goto, UartTyped, Fits, Waiting, Resetting
<1>24. ASSUME NEW t \in Tasks, scm_uart_unlock(t) PROVE Fits'
  BY <1>24
  DEF scm_uart_unlock, Return, Goto, record, dma, UartTyped, Fits, Waiting, Resetting
<1>25. ASSUME NEW e \in Dirs, atcuart_dma_done_handler(e) PROVE Fits'
  BY <1>25
  DEF atcuart_dma_done_handler, Dropped, uart_notify, record, UartTyped, Fits,
      Waiting, Resetting
<1>26. ASSUME irq_thr_fill PROVE Fits'
  BY <1>26 DEF irq_thr_fill, intf, dma, UartTyped, Fits, Waiting, Resetting
<1>27. ASSUME irq_thr_done PROVE Fits'
  BY <1>27
  DEF irq_thr_done, Completed, uart_notify, dma, UartTyped, Fits, Waiting, Resetting
<1>28. ASSUME irq_rbr PROVE Fits'
  BY <1>28 DEF irq_rbr, Completed, uart_notify, dma, UartTyped, Fits, Waiting, Resetting
<1>29. ASSUME irq_lsr PROVE Fits'
  BY <1>29 DEF irq_lsr, Aborted, intf, dma, UartTyped, Fits, Waiting, Resetting
<1>30. CASE UNCHANGED vars
  BY <1>30 DEF vars, intf, record, dma, UartTyped, Fits, Waiting, Resetting
<1> QED
  BY <1>1, <1>2, <1>3, <1>4, <1>5, <1>6, <1>7, <1>8, <1>9, <1>10, <1>11, <1>12, <1>13,
     <1>14, <1>15, <1>16, <1>17, <1>18, <1>19, <1>20, <1>21, <1>22, <1>23, <1>24,
     <1>25, <1>26, <1>27, <1>28, <1>29, <1>30
  DEF Next, proceed, atcuart_reset, reset_irqs, Interrupt

(* Every step keeps to the mode. *)
LEMMA ModesStep ==
  ASSUME UartTyped, Modes, [Next]_vars
  PROVE  Modes'
<1> USE UartAssumption
<1>1. ASSUME scm_uart_init PROVE Modes'
  BY <1>1 DEF scm_uart_init, UartTyped, Modes, dma_en
<1>2. ASSUME NEW t \in Tasks, scm_uart_deinit(t) PROVE Modes'
  BY <1>2 DEF scm_uart_deinit, Goto, intf, record, dma, UartTyped, Modes, dma_en
<1>3. ASSUME NEW t \in Tasks, scm_uart_reset(t) PROVE Modes'
  BY <1>3 DEF scm_uart_reset, Goto, intf, record, dma, UartTyped, Modes, dma_en
<1>4. ASSUME NEW t \in Tasks, read_ier(t, "reset", "rx_off") PROVE Modes'
  BY <1>4 DEF read_ier, Goto, intf, record, dma, UartTyped, Modes, dma_en
<1>5. ASSUME NEW t \in Tasks, write_ier(t, "rx", "rx_off", "rx_is_off") PROVE Modes'
  BY <1>5 DEF write_ier, Goto, intf, dma, UartTyped, Modes, dma_en
<1>6. ASSUME NEW t \in Tasks, read_ier(t, "rx_is_off", "tx_off") PROVE Modes'
  BY <1>6 DEF read_ier, Goto, intf, record, dma, UartTyped, Modes, dma_en
<1>7. ASSUME NEW t \in Tasks, write_ier(t, "tx", "tx_off", "forget") PROVE Modes'
  BY <1>7 DEF write_ier, Goto, intf, dma, UartTyped, Modes, dma_en
<1>8. ASSUME NEW t \in Tasks, reset_tr(t) PROVE Modes'
  BY <1>8 DEF reset_tr, Goto, intf, dma, UartTyped, Modes, dma_en
<1>9. ASSUME NEW t \in Tasks, reset_check(t) PROVE Modes'
  BY <1>9
  DEF reset_check, NextChannel, Goto, intf, record, dma, UartTyped, Modes, dma_en
<1>10. ASSUME NEW t \in Tasks, reset_abort(t) PROVE Modes'
  BY <1>10 DEF reset_abort, Aborted, Goto, intf, record, UartTyped, Modes, dma_en
<1>11. ASSUME NEW t \in Tasks, reset_drop(t) PROVE Modes'
  BY <1>11
  DEF reset_drop, Dropped, NextChannel, Goto, intf, record, UartTyped, Modes, dma_en
<1>12. ASSUME NEW t \in Tasks, reset_returns(t) PROVE Modes'
  BY <1>12 DEF reset_returns, Return, Goto, intf, record, dma, UartTyped, Modes, dma_en
<1>13. ASSUME NEW t \in Tasks, deinit_returns(t) PROVE Modes'
  BY <1>13 DEF deinit_returns, Return, Goto, record, dma, UartTyped, Modes, dma_en
<1>14. ASSUME NEW t \in Tasks, request(t) PROVE Modes'
  BY <1>14 DEF request, Goto, intf, record, dma, UartTyped, Modes, dma_en
<1>15. ASSUME NEW t \in Tasks, scm_uart_lock(t) PROVE Modes'
  BY <1>15 DEF scm_uart_lock, Goto, record, dma, UartTyped, Modes, dma_en
<1>16. ASSUME NEW t \in Tasks, transfer_fails(t) PROVE Modes'
  BY <1>16 DEF transfer_fails, Return, Goto, record, dma, UartTyped, Modes, dma_en
<1>17. ASSUME NEW t \in Tasks, transfer_dma(t) PROVE Modes'
  BY <1>17 DEF transfer_dma, Goto, intf, record, UartTyped, Modes, dma_en
<1>18. ASSUME NEW t \in Tasks, transfer_kick(t) PROVE Modes'
  BY <1>18
  DEF transfer_kick, For, Begun, Return, Goto, intf, record, UartTyped, Modes, dma_en
<1>19. ASSUME NEW t \in Tasks, atcuart_transmit(t) PROVE Modes'
  BY <1>19
  DEF atcuart_transmit, For, Begun, Return, Goto, intf, dma, UartTyped, Modes, dma_en
<1>20. ASSUME NEW t \in Tasks, atcuart_recevie(t) PROVE Modes'
  BY <1>20 DEF atcuart_recevie, For, Goto, intf, dma, UartTyped, Modes, dma_en
<1>21. ASSUME NEW t \in Tasks, atcuart_rx_enable(t) PROVE Modes'
  BY <1>21
  DEF atcuart_rx_enable, Begun, Return, Goto, intf, dma, UartTyped, Modes, dma_en
<1>22. ASSUME NEW t \in Tasks, wait_ok(t) PROVE Modes'
  BY <1>22 DEF wait_ok, Goto, record, dma, UartTyped, Modes, dma_en
<1>23. ASSUME NEW t \in Tasks, wait_timeout(t) PROVE Modes'
  BY <1>23 DEF wait_timeout, Goto, intf, record, dma, UartTyped, Modes, dma_en
<1>24. ASSUME NEW t \in Tasks, scm_uart_unlock(t) PROVE Modes'
  BY <1>24 DEF scm_uart_unlock, Return, Goto, record, dma, UartTyped, Modes, dma_en
<1>25. ASSUME NEW e \in Dirs, atcuart_dma_done_handler(e) PROVE Modes'
  BY <1>25
  DEF atcuart_dma_done_handler, Dropped, uart_notify, record, UartTyped, Modes, dma_en
<1>26. ASSUME irq_thr_fill PROVE Modes'
  BY <1>26 DEF irq_thr_fill, intf, dma, UartTyped, Modes, dma_en
<1>27. ASSUME irq_thr_done PROVE Modes'
  BY <1>27 DEF irq_thr_done, Completed, uart_notify, dma, UartTyped, Modes, dma_en
<1>28. ASSUME irq_rbr PROVE Modes'
  BY <1>28 DEF irq_rbr, Completed, uart_notify, dma, UartTyped, Modes, dma_en
<1>29. ASSUME irq_lsr PROVE Modes'
  BY <1>29 DEF irq_lsr, Aborted, intf, dma, UartTyped, Modes, dma_en
<1>30. CASE UNCHANGED vars
  BY <1>30 DEF vars, intf, record, dma, UartTyped, Modes, dma_en
<1> QED
  BY <1>1, <1>2, <1>3, <1>4, <1>5, <1>6, <1>7, <1>8, <1>9, <1>10, <1>11, <1>12, <1>13,
     <1>14, <1>15, <1>16, <1>17, <1>18, <1>19, <1>20, <1>21, <1>22, <1>23, <1>24,
     <1>25, <1>26, <1>27, <1>28, <1>29, <1>30
  DEF Next, proceed, atcuart_reset, reset_irqs, Interrupt

(* What the safe uses have in common. *)
LEMMA SafeUse ==
  ASSUME Safe
  PROVE  /\ "late" \notin use
         /\ "duplex" \in use \/ "reset" \in use => dma_en /\ "timeout" \notin use
         /\ dma_en /\ "error" \in use => "timeout" \notin use
         /\ dma_en /\ "leave" \in use => "error" \notin use /\ "reset" \notin use
BY DEF Safe, dma_en

(* Channels of different directions stay apart. *)
LEMMA DroppedSame ==
  ASSUME NEW W \in SUBSET Running, NEW d \in Dirs,
         \A w, x \in W : w.dir = x.dir => w = x
  PROVE  \A w, x \in Dropped(W, d) : w.dir = x.dir => w = x
<1> SUFFICES ASSUME NEW y \in Dropped(W, d), NEW z \in Dropped(W, d), y.dir = z.dir
             PROVE  y = z
  OBVIOUS
<1>1. PICK w \in W : y = [dir |-> w.dir, owner |-> w.owner, kept |-> w.kept /\ w.dir # d]
  BY DroppedOne
<1>2. PICK x \in W : z = [dir |-> x.dir, owner |-> x.owner, kept |-> x.kept /\ x.dir # d]
  BY DroppedOne
<1> QED
  BY <1>1, <1>2

(* What is known of a port in use, in a safe use. *)
Good == UartTyped /\ Fits /\ Modes /\ Safe /\ Usable /\ Working

(* While a call that has timed out resets the port, it has the port for    *)
(* itself.                                                                 *)
LEMMA Undisturbed ==
  ASSUME Good, NEW u \in Tasks, call[u] \in Calls, pc[u] \in Resetting \cup {"end"}
  PROVE  /\ "timeout" \in use /\ "late" \notin use /\ (dma_en => "error" \notin use)
         /\ \A s \in Tasks : s # u => pc[s] \in {"idle", "lock"}
         /\ prot[call[u].dir] = 0
         /\ \A d \in Dirs : d # call[u].dir => prot[d] = 1 /\ Rest(d)
<1>1. /\ "timeout" \in use /\ "late" \notin use /\ (dma_en => "error" \notin use)
      /\ "duplex" \notin use /\ "reset" \notin use
  BY SafeUse DEF Good, Fits
<1>2. Holder(u, call[u].dir) /\ call[u].dir \in Dirs /\ pc[u] # "idle"
  BY CallKinds DEF Holder, Resetting
<1>3. prot[call[u].dir] = 0
  BY <1>2 DEF Good, UartTyped, Working, Locked
<1>4. \A d \in Dirs : d # call[u].dir => prot[d] = 1 /\ Rest(d)
  BY <1>1, <1>2 DEF Good, Working, OneWay, Locked
<1>5. ASSUME NEW s \in Tasks, s # u, pc[s] \notin {"idle", "lock"} PROVE FALSE
  <2>1. call[s] \in Calls
    BY <1>1, <1>5 DEF Good, UartTyped, Fits, Usable, Labels, DeinitCall
  <2>2. call[s].dir = call[u].dir
    BY <1>1, <1>2, <1>5, <2>1, CallKinds DEF Good, Working, OneWay
  <2> QED
    BY <1>2, <1>5, <2>2 DEF Holder, Good, Working, Locked
<1> QED
  BY <1>1, <1>3, <1>4, <1>5

(* Every step keeps the directions apart. *)
LEMMA OneWayStep ==
  ASSUME Good, [Next]_vars, Usable'
  PROVE  OneWay'
<1> USE UartAssumption
<1>1. ASSUME scm_uart_init PROVE OneWay'
  BY <1>1 DEF scm_uart_init, Good, Usable
<1>2. ASSUME NEW t \in Tasks, scm_uart_deinit(t) PROVE OneWay'
  <2>1. pc'[t] # "idle" /\ call'[t].dir = "deinit"
    BY <1>2, CallKinds DEF scm_uart_deinit, Goto, Good, UartTyped
  <2> QED
    BY <2>1 DEF Usable
<1>3. ASSUME NEW t \in Tasks, scm_uart_reset(t) PROVE OneWay'
  BY <1>3, CallKinds
  DEF scm_uart_reset, Goto, intf, record, Good, Working, UartTyped, OneWay
<1>4. ASSUME NEW t \in Tasks, read_ier(t, "reset", "rx_off") PROVE OneWay'
  BY <1>4 DEF read_ier, Goto, intf, record, dma, Good, Working, UartTyped, OneWay
<1>5. ASSUME NEW t \in Tasks, write_ier(t, "rx", "rx_off", "rx_is_off") PROVE OneWay'
  <2>1. ASSUME NEW u \in Tasks, u # t, pc[u] = "rx_off", call[u] \in Calls PROVE FALSE
    BY <1>5, <2>1, Undisturbed DEF write_ier, Resetting
  <2> QED
    BY <1>5, <2>1 DEF write_ier, Goto, intf, dma, Good, Working, UartTyped, OneWay
<1>6. ASSUME NEW t \in Tasks, read_ier(t, "rx_is_off", "tx_off") PROVE OneWay'
  BY <1>6 DEF read_ier, Goto, intf, record, dma, Good, Working, UartTyped, OneWay
<1>7. ASSUME NEW t \in Tasks, write_ier(t, "tx", "tx_off", "forget") PROVE OneWay'
  <2>1. ASSUME NEW u \in Tasks, u # t, pc[u] = "rx_off", call[u] \in Calls PROVE FALSE
    BY <1>7, <2>1, Undisturbed DEF write_ier, Resetting
  <2> QED
    BY <1>7, <2>1 DEF write_ier, Goto, intf, dma, Good, Working, UartTyped, OneWay
<1>8. ASSUME NEW t \in Tasks, reset_tr(t) PROVE OneWay'
  BY <1>8 DEF reset_tr, Goto, intf, dma, Good, Working, UartTyped, OneWay
<1>9. ASSUME NEW t \in Tasks, reset_check(t) PROVE OneWay'
  BY <1>9
  DEF reset_check, NextChannel, Goto, intf, record, dma, Good, Working, UartTyped,
      OneWay
<1>10. ASSUME NEW t \in Tasks, reset_abort(t) PROVE OneWay'
  BY <1>10
  DEF reset_abort, Aborted, Goto, intf, record, Good, Working, UartTyped, OneWay
<1>11. ASSUME NEW t \in Tasks, reset_drop(t) PROVE OneWay'
  BY <1>11
  DEF reset_drop, Dropped, NextChannel, Goto, intf, record, Good, Working, UartTyped,
      OneWay
<1>12. ASSUME NEW t \in Tasks, reset_returns(t) PROVE OneWay'
  BY <1>12
  DEF reset_returns, Return, Goto, intf, record, dma, Good, Working, UartTyped, OneWay
<1>13. ASSUME NEW t \in Tasks, deinit_returns(t) PROVE OneWay'
  BY <1>13 DEF deinit_returns, Usable
<1>14. ASSUME NEW t \in Tasks, request(t) PROVE OneWay'
  BY <1>14, CallKinds DEF request, Goto, intf, record, Good, Working, UartTyped, OneWay
<1>15. ASSUME NEW t \in Tasks, scm_uart_lock(t) PROVE OneWay'
  BY <1>15 DEF scm_uart_lock, Goto, record, dma, Good, Working, UartTyped, OneWay
<1>16. ASSUME NEW t \in Tasks, transfer_fails(t) PROVE OneWay'
  BY <1>16
  DEF transfer_fails, Return, Goto, record, dma, Good, Working, UartTyped, OneWay
<1>17. ASSUME NEW t \in Tasks, transfer_dma(t) PROVE OneWay'
  BY <1>17 DEF transfer_dma, Goto, intf, record, Good, Working, UartTyped, OneWay
<1>18. ASSUME NEW t \in Tasks, transfer_kick(t) PROVE OneWay'
  BY <1>18
  DEF transfer_kick, For, Begun, Return, Goto, intf, record, Good, Working, UartTyped,
      OneWay
<1>19. ASSUME NEW t \in Tasks, atcuart_transmit(t) PROVE OneWay'
  BY <1>19
  DEF atcuart_transmit, For, Begun, Return, Goto, intf, dma, Good, Working, UartTyped,
      OneWay
<1>20. ASSUME NEW t \in Tasks, atcuart_recevie(t) PROVE OneWay'
  <2>1. pc[t] = "ioctl" /\ call[t].dir = "rx" /\ call[t] \in Calls /\ ~dma_en
    BY <1>20 DEF atcuart_recevie, Good, Fits, Waiting
  <2>2. "duplex" \notin use
    BY <2>1, SafeUse DEF Good
  <2>3. Rest("rx")
    BY <2>1 DEF Good, Working, Locked, Holder, Dirs
  <2>4. Rest("tx")
    BY <2>1, <2>2 DEF Good, Working, OneWay, Locked, Dirs
  <2>5. ier = {}
    BY <2>3, <2>4 DEF Rest, Good, UartTyped, Dirs
  <2> QED
    BY <1>20, <2>5 DEF atcuart_recevie, Goto, intf, Good, Working, UartTyped, OneWay
<1>21. ASSUME NEW t \in Tasks, atcuart_rx_enable(t) PROVE OneWay'
  <2>1. ASSUME NEW u \in Tasks, u # t, pc[u] = "rx_off", call[u] \in Calls PROVE FALSE
    BY <1>21, <2>1, Undisturbed DEF atcuart_rx_enable, Resetting
  <2> QED
    BY <1>21, <2>1
    DEF atcuart_rx_enable, Begun, Return, Goto, intf, dma, Good, Working, UartTyped,
        OneWay
<1>22. ASSUME NEW t \in Tasks, wait_ok(t) PROVE OneWay'
  BY <1>22 DEF wait_ok, Goto, record, dma, Good, Working, UartTyped, OneWay
<1>23. ASSUME NEW t \in Tasks, wait_timeout(t) PROVE OneWay'
  BY <1>23 DEF wait_timeout, Goto, intf, record, dma, Good, Working, UartTyped, OneWay
<1>24. ASSUME NEW t \in Tasks, scm_uart_unlock(t) PROVE OneWay'
  BY <1>24
  DEF scm_uart_unlock, Return, Goto, record, dma, Good, Working, UartTyped, OneWay
<1>25. ASSUME NEW e \in Dirs, atcuart_dma_done_handler(e) PROVE OneWay'
  BY <1>25
  DEF atcuart_dma_done_handler, Dropped, uart_notify, record, Good, Working,
      UartTyped, OneWay
<1>26. ASSUME irq_thr_fill PROVE OneWay'
  BY <1>26 DEF irq_thr_fill, intf, dma, Good, Working, UartTyped, OneWay
<1>27. ASSUME irq_thr_done PROVE OneWay'
  <2>1. ASSUME NEW u \in Tasks, pc[u] = "rx_off", call[u] \in Calls PROVE FALSE
    <3>1. "tx" \in ier /\ InTime("tx") /\ "tx" \in Dirs
      BY <1>27 DEF irq_thr_done, Dirs
    <3>2. pc[u] \in Resetting \cup {"end"} /\ pc[u] \in Resetting
      BY <2>1 DEF Resetting
    <3>3. call[u].dir = "tx"
      BY <2>1, <3>1, <3>2, Undisturbed DEF Rest
    <3> QED
      BY <2>1, <3>1, <3>2, <3>3, Undisturbed DEF InTime
  <2> QED
    BY <1>27, <2>1
    DEF irq_thr_done, Completed, uart_notify, Good, Working, UartTyped, OneWay
<1>28. ASSUME irq_rbr PROVE OneWay'
  BY <1>28 DEF irq_rbr, Completed, uart_notify, dma, Good, Working, UartTyped, OneWay
<1>29. ASSUME irq_lsr PROVE OneWay'
  BY <1>29 DEF irq_lsr, Aborted, intf, dma, Good, Working, UartTyped, OneWay
<1>30. CASE UNCHANGED vars
  BY <1>30 DEF vars, intf, record, dma, Good, Working, UartTyped, OneWay
<1> QED
  BY <1>1, <1>2, <1>3, <1>4, <1>5, <1>6, <1>7, <1>8, <1>9, <1>10, <1>11, <1>12, <1>13,
     <1>14, <1>15, <1>16, <1>17, <1>18, <1>19, <1>20, <1>21, <1>22, <1>23, <1>24,
     <1>25, <1>26, <1>27, <1>28, <1>29, <1>30
  DEF Next, proceed, atcuart_reset, reset_irqs, Interrupt

(* Every step keeps the numbers of the channels. *)
LEMMA NumbersStep ==
  ASSUME Good, [Next]_vars, Usable'
  PROVE  Numbers'
<1> USE UartAssumption
<1>1. ASSUME scm_uart_init PROVE Numbers'
  BY <1>1 DEF scm_uart_init, Good, Usable
<1>2. ASSUME NEW t \in Tasks, scm_uart_deinit(t) PROVE Numbers'
  <2>1. pc'[t] # "idle" /\ call'[t].dir = "deinit"
    BY <1>2, CallKinds DEF scm_uart_deinit, Goto, Good, UartTyped
  <2> QED
    BY <2>1 DEF Usable
<1>3. ASSUME NEW t \in Tasks, scm_uart_reset(t) PROVE Numbers'
  BY <1>3 DEF scm_uart_reset, Goto, intf, record, dma, Good, Working, UartTyped, Numbers
<1>4. ASSUME NEW t \in Tasks, read_ier(t, "reset", "rx_off") PROVE Numbers'
  BY <1>4 DEF read_ier, Goto, intf, record, dma, Good, Working, UartTyped, Numbers
<1>5. ASSUME NEW t \in Tasks, write_ier(t, "rx", "rx_off", "rx_is_off") PROVE Numbers'
  BY <1>5 DEF write_ier, Goto, intf, dma, Good, Working, UartTyped, Numbers
<1>6. ASSUME NEW t \in Tasks, read_ier(t, "rx_is_off", "tx_off") PROVE Numbers'
  BY <1>6 DEF read_ier, Goto, intf, record, dma, Good, Working, UartTyped, Numbers
<1>7. ASSUME NEW t \in Tasks, write_ier(t, "tx", "tx_off", "forget") PROVE Numbers'
  BY <1>7 DEF write_ier, Goto, intf, dma, Good, Working, UartTyped, Numbers
<1>8. ASSUME NEW t \in Tasks, reset_tr(t) PROVE Numbers'
  BY <1>8 DEF reset_tr, Goto, intf, dma, Good, Working, UartTyped, Numbers
<1>9. ASSUME NEW t \in Tasks, reset_check(t) PROVE Numbers'
  BY <1>9
  DEF reset_check, NextChannel, Goto, intf, record, dma, Good, Working, UartTyped,
      Numbers
<1>10. ASSUME NEW t \in Tasks, reset_abort(t) PROVE Numbers'
  BY <1>10
  DEF reset_abort, Aborted, Goto, intf, record, Good, Working, UartTyped, Numbers
<1>11. ASSUME NEW t \in Tasks, reset_drop(t) PROVE Numbers'
  <2>1. /\ dma_ch' = [dma_ch EXCEPT ![side[t]] = Nobody] /\ work' = Dropped(work, side[t])
        /\ pc[t] = "drop" /\ UNCHANGED <<use, call>> /\ side[t] \in Dirs
        /\ \A s \in Tasks : pc'[s] = "kick" => pc[s] = "kick"
    BY <1>11 DEF reset_drop, NextChannel, Goto, Good, UartTyped
  <2>2. ASSUME NEW x \in work', x.kept PROVE dma_ch'[x.dir] # Nobody
    <3>1. PICK w \in work : x.dir = w.dir /\ w.kept /\ w.dir # side[t]
      BY <2>1, <2>2, DroppedWork DEF Good, UartTyped
    <3>2. dma_ch[w.dir] # Nobody /\ w.dir \in Dirs
      BY <3>1 DEF Good, Working, Numbers, UartTyped, Running
    <3> QED
      BY <2>1, <3>1, <3>2 DEF Good, UartTyped
  <2>3. CASE "reset" \in use
    <3>1. \A w, x \in work' : w.dir = x.dir => w = x
      BY <2>1, DroppedSame DEF Good, Working, UartTyped, Numbers
    <3> QED
      BY <2>1, <2>2, <2>3, <3>1 DEF Numbers
  <2>4. CASE "reset" \notin use
    <3>1. call[t] \in Calls /\ "timeout" \in use
      BY <2>1, <2>4 DEF Good, UartTyped, Fits, Usable, Resetting, DeinitCall
    <3>2. Still(side[t])
      BY <2>1, <3>1 DEF Good, Working, ResetAt
    <3>3. work' = work
      <4>1. \A w \in work : w.dir # side[t]
        BY <3>2 DEF Still
      <4>2. work \in SUBSET Running
        BY DEF Good, UartTyped
      <4> QED
        BY <2>1, <4>1, <4>2, DroppedNone
    <3>4. ASSUME NEW s \in Tasks, pc[s] = "kick" PROVE FALSE
      <4>1. call[s] \in Calls /\ "duplex" \notin use
        BY <3>1, <3>4, SafeUse DEF Good, Fits, Waiting
      <4>2. call[s].dir = call[t].dir
        BY <2>1, <3>1, <3>4, <4>1, CallKinds DEF Good, Working, OneWay
      <4>3. s = t
        BY <2>1, <3>1, <3>4, <4>2, CallKinds DEF Good, Working, Locked, Holder
      <4> QED
        BY <2>1, <3>4, <4>3
    <3> QED
      BY <2>1, <2>2, <3>3, <3>4 DEF Good, Working, Numbers
  <2> QED
    BY <2>3, <2>4
<1>12. ASSUME NEW t \in Tasks, reset_returns(t) PROVE Numbers'
  BY <1>12
  DEF reset_returns, Return, Goto, intf, record, dma, Good, Working, UartTyped,
      Numbers
<1>13. ASSUME NEW t \in Tasks, deinit_returns(t) PROVE Numbers'
  BY <1>13 DEF deinit_returns, Usable
<1>14. ASSUME NEW t \in Tasks, request(t) PROVE Numbers'
  BY <1>14 DEF request, Goto, intf, record, dma, Good, Working, UartTyped, Numbers
<1>15. ASSUME NEW t \in Tasks, scm_uart_lock(t) PROVE Numbers'
  BY <1>15 DEF scm_uart_lock, Goto, record, dma, Good, Working, UartTyped, Numbers
<1>16. ASSUME NEW t \in Tasks, transfer_fails(t) PROVE Numbers'
  BY <1>16
  DEF transfer_fails, Return, Goto, record, dma, Good, Working, UartTyped, Numbers
<1>17. ASSUME NEW t \in Tasks, transfer_dma(t) PROVE Numbers'
  <2>1. /\ dma_ch' = [dma_ch EXCEPT ![call[t].dir] = t] /\ UNCHANGED <<use, work, call>>
        /\ pc[t] = "ioctl" /\ call[t] \in Calls
        /\ \A s \in Tasks : s # t => pc'[s] = pc[s]
    BY <1>17 DEF transfer_dma, Goto, Good, UartTyped, Fits, Waiting
  <2>2. ASSUME NEW s \in Tasks, s # t, pc[s] = "kick" PROVE call[s].dir # call[t].dir
    BY <2>1, <2>2, CallKinds DEF Good, Working, Locked, Holder
  <2> QED
    BY <2>1, <2>2, CallKinds DEF Good, Working, UartTyped, Running, Numbers
<1>18. ASSUME NEW t \in Tasks, transfer_kick(t) PROVE Numbers'
  <2> DEFINE d == call[t].dir
             n == [dir |-> d, owner |-> For(t), kept |-> dma_ch[d] = t]
  <2>1. /\ work' = work \cup {n} /\ UNCHANGED <<use, dma_ch>>
        /\ pc[t] = "kick" /\ call[t] \in Calls /\ d \in Dirs
        /\ \A s \in Tasks : pc'[s] = "kick" => pc[s] = "kick" /\ call'[s] = call[s]
    BY <1>18, CallKinds
    DEF transfer_kick, Begun, Return, Goto, Good, UartTyped, Fits, Waiting
  <2>2. \A w \in work : w.dir # d
    BY <2>1 DEF Good, Working, Locked, Holder, Still
  <2>3. n.dir = d /\ (n.kept <=> dma_ch[d] = t) /\ t # Nobody
    OBVIOUS
  <2>4. \A w \in work' : w.kept => dma_ch'[w.dir] # Nobody
    BY <2>1, <2>3 DEF Good, Working, Numbers
  <2>5. \A w, x \in work' : w.dir = x.dir => w = x
    BY <2>1, <2>2, <2>3 DEF Good, Working, Numbers
  <2>6. ASSUME "error" \notin use, "reset" \notin use
        PROVE  /\ \A w \in work' : w.kept
               /\ \A s \in Tasks : pc'[s] = "kick" => dma_ch'[call'[s].dir] = s
    BY <2>1, <2>3, <2>6 DEF Good, Working, Numbers
  <2> QED
    BY <2>1, <2>4, <2>5, <2>6 DEF Numbers
<1>19. ASSUME NEW t \in Tasks, atcuart_transmit(t) PROVE Numbers'
  <2>1. work' = {} /\ \A s \in Tasks : pc'[s] # "kick"
    BY <1>19 DEF atcuart_transmit, Begun, Return, Goto, dma, Good, Modes, UartTyped
  <2> QED
    BY <2>1 DEF Numbers
<1>20. ASSUME NEW t \in Tasks, atcuart_recevie(t) PROVE Numbers'
  BY <1>20 DEF atcuart_recevie, For, Goto, intf, dma, Good, Working, UartTyped, Numbers
<1>21. ASSUME NEW t \in Tasks, atcuart_rx_enable(t) PROVE Numbers'
  BY <1>21
  DEF atcuart_rx_enable, Begun, Return, Goto, intf, dma, Good, Working, UartTyped,
      Numbers
<1>22. ASSUME NEW t \in Tasks, wait_ok(t) PROVE Numbers'
  BY <1>22 DEF wait_ok, Goto, record, dma, Good, Working, UartTyped, Numbers
<1>23. ASSUME NEW t \in Tasks, wait_timeout(t) PROVE Numbers'
  BY <1>23 DEF wait_timeout, Goto, intf, record, dma, Good, Working, UartTyped, Numbers
<1>24. ASSUME NEW t \in Tasks, scm_uart_unlock(t) PROVE Numbers'
  BY <1>24
  DEF scm_uart_unlock, Return, Goto, record, dma, Good, Working, UartTyped, Numbers
<1>25. ASSUME NEW e \in Dirs, atcuart_dma_done_handler(e) PROVE Numbers'
  <2>1. PICK w \in work : /\ w.dir = e /\ dma_ch' = [dma_ch EXCEPT ![e] = Nobody]
                           /\ work' = Dropped(work \ {w}, e)
                           /\ UNCHANGED <<use, pc, call>>
    BY <1>25 DEF atcuart_dma_done_handler
  <2>2. work' = work \ {w} /\ \A x \in work' : x.dir # e
    <3>1. work \ {w} \in SUBSET Running /\ \A x \in work \ {w} : x.dir # e
      BY <2>1 DEF Good, Working, UartTyped, Numbers
    <3> QED
      BY <2>1, <3>1, DroppedNone
  <2>3. ASSUME NEW s \in Tasks, pc[s] = "kick" PROVE call[s].dir # e
    BY <2>1, <2>3 DEF Good, Working, Locked, Holder, Still
  <2>4. \A x \in work' : x \in work /\ dma_ch'[x.dir] = dma_ch[x.dir]
    BY <2>1, <2>2 DEF Good, UartTyped, Running
  <2>5. \A s \in Tasks : pc[s] = "kick" => dma_ch'[call[s].dir] = dma_ch[call[s].dir]
    BY <2>1, <2>3 DEF Good, UartTyped
  <2> QED
    BY <2>1, <2>4, <2>5 DEF Good, Working, Numbers
<1>26. ASSUME irq_thr_fill PROVE Numbers'
  BY <1>26 DEF irq_thr_fill, intf, dma, Good, Working, UartTyped, Numbers
<1>27. ASSUME irq_thr_done PROVE Numbers'
  BY <1>27
  DEF irq_thr_done, Completed, uart_notify, dma, Good, Working, UartTyped, Numbers
<1>28. ASSUME irq_rbr PROVE Numbers'
  BY <1>28 DEF irq_rbr, Completed, uart_notify, dma, Good, Working, UartTyped, Numbers
<1>29. ASSUME irq_lsr PROVE Numbers'
  <2>1. CASE dma_en
    <3>1. /\ work' = {w \in work : ~(w.dir = "rx" /\ w.kept)} /\ "error" \in use'
          /\ dma_ch' = [dma_ch EXCEPT !["rx"] = Nobody]
      BY <1>29, <2>1 DEF irq_lsr, Aborted
    <3> QED
      BY <3>1 DEF Good, Working, UartTyped, Numbers
  <2>2. CASE ~dma_en
    BY <1>29, <2>2 DEF irq_lsr, dma, Good, Working, Numbers
  <2> QED
    BY <2>1, <2>2
<1>30. CASE UNCHANGED vars
  BY <1>30 DEF vars, intf, record, dma, Good, Working, UartTyped, Numbers
<1> QED
  BY <1>1, <1>2, <1>3, <1>4, <1>5, <1>6, <1>7, <1>8, <1>9, <1>10, <1>11, <1>12, <1>13,
     <1>14, <1>15, <1>16, <1>17, <1>18, <1>19, <1>20, <1>21, <1>22, <1>23, <1>24,
     <1>25, <1>26, <1>27, <1>28, <1>29, <1>30
  DEF Next, proceed, atcuart_reset, reset_irqs, Interrupt

(* The steps of a reset, while every channel that runs is on record. *)
LEMMA ResetProgress ==
  ASSUME UartTyped, Fits, Modes, NEW t \in Tasks, ResetAt(t), atcuart_reset(t),
         \A w \in work : w.kept /\ dma_ch[w.dir] # Nobody
  PROVE  ResetAt(t)'
<1>1. ASSUME read_ier(t, "reset", "rx_off") \/ read_ier(t, "rx_is_off", "tx_off")
      PROVE  ResetAt(t)'
  BY <1>1 DEF read_ier, Goto, record, dma, UartTyped, ResetAt, Still
<1>2. ASSUME write_ier(t, "rx", "rx_off", "rx_is_off") PROVE ResetAt(t)'
  BY <1>2 DEF write_ier, Goto, dma, UartTyped, ResetAt, Still
<1>3. ASSUME write_ier(t, "tx", "tx_off", "forget") PROVE ResetAt(t)'
  <2>1. ier' = {}
    BY <1>3 DEF write_ier, UartTyped, Dirs, ResetAt
  <2>2. pc'[t] = "forget"
    BY <1>3 DEF write_ier, Goto, UartTyped
  <2> QED
    BY <2>1, <2>2 DEF ResetAt
<1>4. ASSUME reset_tr(t) PROVE ResetAt(t)'
  <2>1. /\ ier' = {} /\ \A d \in Dirs : left'[d] = 0 /\ owner'[d] = Nobody
        /\ side'[t] = "tx" /\ UNCHANGED <<dma_ch, work>>
    BY <1>4 DEF reset_tr, dma, Fits, ResetAt
  <2>2. pc'[t] = IF dma_en THEN "check" ELSE "end"
    BY <1>4 DEF reset_tr, Goto, UartTyped
  <2> QED
    BY <2>1, <2>2 DEF ResetAt, Modes, Still, Dirs
<1>5. ASSUME reset_check(t) PROVE ResetAt(t)'
  <2>1. /\ pc[t] = "check" /\ UNCHANGED <<left, owner, ier, dma_ch, work>>
        /\ side[t] \in {"tx", "rx"}
    BY <1>5 DEF reset_check, record, dma, UartTyped, Dirs
  <2>2. CASE dma_ch[side[t]] # Nobody
    <3>1. pc'[t] = "abort" /\ side' = side
      BY <1>5, <2>2 DEF reset_check, Goto, UartTyped
    <3> QED
      BY <2>1, <3>1 DEF ResetAt, Still
  <2>3. CASE dma_ch[side[t]] = Nobody
    <3>1. Still(side[t])
      BY <2>3 DEF Still
    <3>2. /\ pc'[t] = IF side[t] = "tx" THEN "check" ELSE "end"
          /\ side'[t] = IF side[t] = "tx" THEN "rx" ELSE "tx"
      BY <1>5, <2>3 DEF reset_check, NextChannel, Goto, UartTyped
    <3> QED
      BY <2>1, <2>3, <3>1, <3>2 DEF ResetAt, Still
  <2> QED
    BY <2>2, <2>3
<1>6. ASSUME reset_abort(t) PROVE ResetAt(t)'
  <2>1. /\ pc[t] = "abort" /\ pc'[t] = "drop" /\ UNCHANGED <<left, owner, ier, dma_ch, side>>
        /\ \A w \in work' : w \in work /\ w.dir # side[t]
    BY <1>6 DEF reset_abort, Aborted, Goto, record, UartTyped
  <2> QED
    BY <2>1 DEF ResetAt, Still
<1>7. ASSUME reset_drop(t) PROVE ResetAt(t)'
  <2>1. /\ pc[t] = "drop" /\ UNCHANGED <<left, owner, ier>> /\ side[t] \in {"tx", "rx"}
        /\ dma_ch' = [dma_ch EXCEPT ![side[t]] = Nobody] /\ work' = Dropped(work, side[t])
    BY <1>7 DEF reset_drop, record, UartTyped, Dirs
  <2>2. /\ pc'[t] = IF side[t] = "tx" THEN "check" ELSE "end"
        /\ side'[t] = IF side[t] = "tx" THEN "rx" ELSE "tx"
    BY <1>7 DEF reset_drop, NextChannel, Goto, UartTyped
  <2>3. \A w \in work : w.dir # side[t]
    BY <2>1 DEF ResetAt, Still
  <2>4. work' = work
    BY <2>1, <2>3, DroppedNone DEF UartTyped, Dirs
  <2> QED
    BY <2>1, <2>2, <2>3, <2>4 DEF ResetAt, Still, UartTyped, Dirs
<1> QED
  BY <1>1, <1>2, <1>3, <1>4, <1>5, <1>6, <1>7 DEF atcuart_reset, reset_irqs

(* A reset after a time-out goes on undisturbed. *)
LEMMA ResetStep ==
  ASSUME Good, [Next]_vars, Usable',
         NEW u \in Tasks, (pc[u] # "idle" /\ call[u] \in Calls)'
  PROVE  ResetAt(u)'
<1> USE UartAssumption
<1>a. ASSUME pc'[u] \notin Resetting \cup {"end"} PROVE ResetAt(u)'
  BY <1>a DEF ResetAt, Resetting
<1>b. ASSUME NEW t \in Tasks, t # u, pc[t] \notin {"idle", "lock"},
             pc'[u] = pc[u], call'[u] = call[u]
      PROVE  ResetAt(u)'
  BY <1>a, <1>b, Undisturbed
<1>c. ASSUME pc[u] \in Resetting, call' = call, atcuart_reset(u) PROVE ResetAt(u)'
  <2>1. call[u] \in Calls
    BY <1>c
  <2>2. ResetAt(u) /\ UartTyped /\ Fits /\ Modes
    BY <1>c, <2>1 DEF Good, Working, Resetting
  <2>3. \A w \in work : w.kept /\ dma_ch[w.dir] # Nobody
    BY <1>c, <2>1, SafeUse, Undisturbed DEF Good, Modes, Working, Numbers
  <2> QED
    BY <1>c, <2>2, <2>3, ResetProgress
<1>1. ASSUME scm_uart_init PROVE ResetAt(u)'
  BY <1>1 DEF scm_uart_init, Good, Usable
<1>2. ASSUME NEW t \in Tasks, scm_uart_deinit(t) PROVE ResetAt(u)'
  <2>1. pc'[t] # "idle" /\ call'[t].dir = "deinit"
    BY <1>2, CallKinds DEF scm_uart_deinit, Goto, Good, UartTyped
  <2> QED
    BY <2>1 DEF Usable
<1>3. ASSUME NEW t \in Tasks, scm_uart_reset(t) PROVE ResetAt(u)'
  BY <1>3
  DEF scm_uart_reset, Goto, intf, record, dma, Good, Working, UartTyped, ResetAt,
      Still
<1>4. ASSUME NEW t \in Tasks, read_ier(t, "reset", "rx_off") PROVE ResetAt(u)'
  <2>1. atcuart_reset(t)
    BY <1>4 DEF atcuart_reset, reset_irqs
  <2>2. pc[t] \in Resetting /\ call' = call /\ (u # t => pc'[u] = pc[u])
    BY <1>4 DEF read_ier, Goto, intf, record, dma, Resetting, Good, UartTyped
  <2> QED
    BY <1>b, <1>c, <2>1, <2>2 DEF Resetting
<1>5. ASSUME NEW t \in Tasks, write_ier(t, "rx", "rx_off", "rx_is_off") PROVE ResetAt(u)'
  <2>1. atcuart_reset(t)
    BY <1>5 DEF atcuart_reset, reset_irqs
  <2>2. pc[t] \in Resetting /\ call' = call /\ (u # t => pc'[u] = pc[u])
    BY <1>5 DEF write_ier, Goto, intf, dma, Resetting, Good, UartTyped
  <2> QED
    BY <1>b, <1>c, <2>1, <2>2 DEF Resetting
<1>6. ASSUME NEW t \in Tasks, read_ier(t, "rx_is_off", "tx_off") PROVE ResetAt(u)'
  <2>1. atcuart_reset(t)
    BY <1>6 DEF atcuart_reset, reset_irqs
  <2>2. pc[t] \in Resetting /\ call' = call /\ (u # t => pc'[u] = pc[u])
    BY <1>6 DEF read_ier, Goto, intf, record, dma, Resetting, Good, UartTyped
  <2> QED
    BY <1>b, <1>c, <2>1, <2>2 DEF Resetting
<1>7. ASSUME NEW t \in Tasks, write_ier(t, "tx", "tx_off", "forget") PROVE ResetAt(u)'
  <2>1. atcuart_reset(t)
    BY <1>7 DEF atcuart_reset, reset_irqs
  <2>2. pc[t] \in Resetting /\ call' = call /\ (u # t => pc'[u] = pc[u])
    BY <1>7 DEF write_ier, Goto, intf, dma, Resetting, Good, UartTyped
  <2> QED
    BY <1>b, <1>c, <2>1, <2>2 DEF Resetting
<1>8. ASSUME NEW t \in Tasks, reset_tr(t) PROVE ResetAt(u)'
  <2>1. atcuart_reset(t)
    BY <1>8 DEF atcuart_reset, reset_irqs
  <2>2. pc[t] \in Resetting /\ call' = call /\ (u # t => pc'[u] = pc[u])
    BY <1>8 DEF reset_tr, Goto, intf, dma, Resetting, Good, UartTyped
  <2> QED
    BY <1>b, <1>c, <2>1, <2>2 DEF Resetting
<1>9. ASSUME NEW t \in Tasks, reset_check(t) PROVE ResetAt(u)'
  <2>1. atcuart_reset(t)
    BY <1>9 DEF atcuart_reset, reset_irqs
  <2>2. pc[t] \in Resetting /\ call' = call /\ (u # t => pc'[u] = pc[u])
    BY <1>9
    DEF reset_check, NextChannel, Goto, intf, record, dma, Resetting, Good, UartTyped
  <2> QED
    BY <1>b, <1>c, <2>1, <2>2 DEF Resetting
<1>10. ASSUME NEW t \in Tasks, reset_abort(t) PROVE ResetAt(u)'
  <2>1. atcuart_reset(t)
    BY <1>10 DEF atcuart_reset, reset_irqs
  <2>2. pc[t] \in Resetting /\ call' = call /\ (u # t => pc'[u] = pc[u])
    BY <1>10 DEF reset_abort, Aborted, Goto, intf, record, Resetting, Good, UartTyped
  <2> QED
    BY <1>b, <1>c, <2>1, <2>2 DEF Resetting
<1>11. ASSUME NEW t \in Tasks, reset_drop(t) PROVE ResetAt(u)'
  <2>1. atcuart_reset(t)
    BY <1>11 DEF atcuart_reset, reset_irqs
  <2>2. pc[t] \in Resetting /\ call' = call /\ (u # t => pc'[u] = pc[u])
    BY <1>11
    DEF reset_drop, Dropped, NextChannel, Goto, intf, record, Resetting, Good,
        UartTyped
  <2> QED
    BY <1>b, <1>c, <2>1, <2>2 DEF Resetting
<1>12. ASSUME NEW t \in Tasks, reset_returns(t) PROVE ResetAt(u)'
  BY <1>12
  DEF reset_returns, Return, Goto, intf, record, dma, Good, Working, UartTyped,
      ResetAt, Still
<1>13. ASSUME NEW t \in Tasks, deinit_returns(t) PROVE ResetAt(u)'
  BY <1>13 DEF deinit_returns, Usable
<1>14. ASSUME NEW t \in Tasks, request(t) PROVE ResetAt(u)'
  BY <1>14
  DEF request, Goto, intf, record, dma, Good, Working, UartTyped, ResetAt, Still
<1>15. ASSUME NEW t \in Tasks, scm_uart_lock(t) PROVE ResetAt(u)'
  BY <1>15
  DEF scm_uart_lock, Goto, record, dma, Good, Working, UartTyped, ResetAt, Still
<1>16. ASSUME NEW t \in Tasks, transfer_fails(t) PROVE ResetAt(u)'
  BY <1>16
  DEF transfer_fails, Return, Goto, record, dma, Good, Working, UartTyped, ResetAt,
      Still
<1>17. ASSUME NEW t \in Tasks, transfer_dma(t) PROVE ResetAt(u)'
  <2>1. CASE u = t
    BY <1>17, <2>1, <1>a
    DEF transfer_dma, Goto, intf, record, Good, UartTyped, Resetting
  <2>2. CASE u # t
    BY <1>17, <2>2, <1>b DEF transfer_dma, Goto, intf, record, Good, UartTyped
  <2> QED
    BY <2>1, <2>2
<1>18. ASSUME NEW t \in Tasks, transfer_kick(t) PROVE ResetAt(u)'
  <2>1. CASE u = t
    BY <1>18, <2>1, <1>a
    DEF transfer_kick, For, Begun, Return, Goto, intf, record, Good, UartTyped,
        Resetting
  <2>2. CASE u # t
    BY <1>18, <2>2, <1>b
    DEF transfer_kick, For, Begun, Return, Goto, intf, record, Good, UartTyped
  <2> QED
    BY <2>1, <2>2
<1>19. ASSUME NEW t \in Tasks, atcuart_transmit(t) PROVE ResetAt(u)'
  <2>1. CASE u = t
    BY <1>19, <2>1, <1>a
    DEF atcuart_transmit, For, Begun, Return, Goto, intf, dma, Good, UartTyped,
        Resetting
  <2>2. CASE u # t
    BY <1>19, <2>2, <1>b
    DEF atcuart_transmit, For, Begun, Return, Goto, intf, dma, Good, UartTyped
  <2> QED
    BY <2>1, <2>2
<1>20. ASSUME NEW t \in Tasks, atcuart_recevie(t) PROVE ResetAt(u)'
  <2>1. CASE u = t
    BY <1>20, <2>1, <1>a
    DEF atcuart_recevie, For, Goto, intf, dma, Good, UartTyped, Resetting
  <2>2. CASE u # t
    BY <1>20, <2>2, <1>b DEF atcuart_recevie, For, Goto, intf, dma, Good, UartTyped
  <2> QED
    BY <2>1, <2>2
<1>21. ASSUME NEW t \in Tasks, atcuart_rx_enable(t) PROVE ResetAt(u)'
  <2>1. CASE u = t
    BY <1>21, <2>1, <1>a
    DEF atcuart_rx_enable, Begun, Return, Goto, intf, dma, Good, UartTyped, Resetting
  <2>2. CASE u # t
    BY <1>21, <2>2, <1>b
    DEF atcuart_rx_enable, Begun, Return, Goto, intf, dma, Good, UartTyped
  <2> QED
    BY <2>1, <2>2
<1>22. ASSUME NEW t \in Tasks, wait_ok(t) PROVE ResetAt(u)'
  BY <1>22 DEF wait_ok, Goto, record, dma, Good, Working, UartTyped, ResetAt, Still
<1>23. ASSUME NEW t \in Tasks, wait_timeout(t) PROVE ResetAt(u)'
  BY <1>23
  DEF wait_timeout, Goto, intf, record, dma, Good, Working, UartTyped, ResetAt, Still
<1>24. ASSUME NEW t \in Tasks, scm_uart_unlock(t) PROVE ResetAt(u)'
  BY <1>24
  DEF scm_uart_unlock, Return, Goto, record, dma, Good, Working, UartTyped, ResetAt,
      Still
<1>25. ASSUME NEW e \in Dirs, atcuart_dma_done_handler(e) PROVE ResetAt(u)'
  <2>1. PICK w \in work : /\ w.dir = e /\ InTime(e) /\ dma_ch' = [dma_ch EXCEPT ![e] = Nobody]
                           /\ work' = Dropped(work \ {w}, e)
                           /\ UNCHANGED <<pc, call, left, owner, ier, v, side>>
    BY <1>25 DEF atcuart_dma_done_handler, record
  <2>2. CASE pc[u] \in Resetting \cup {"end"}
    <3>1. call[u] \in Calls
      BY <2>1
    <3>2. e = call[u].dir
      BY <2>1, <2>2, <3>1, Undisturbed DEF Rest, Still
    <3>3. pc[u] = "end"
      BY <2>1, <2>2, <3>1, <3>2, Undisturbed DEF InTime
    <3> QED
      BY <2>1, <3>1, <3>2, <3>3 DEF Good, Working, ResetAt, Still, Dirs
  <2> QED
    BY <1>a, <2>1, <2>2
<1>26. ASSUME irq_thr_fill PROVE ResetAt(u)'
  BY <1>26 DEF irq_thr_fill, intf, dma, Good, Working, UartTyped, ResetAt, Still
<1>27. ASSUME irq_thr_done PROVE ResetAt(u)'
  BY <1>27
  DEF irq_thr_done, Completed, uart_notify, dma, Good, Working, UartTyped, ResetAt,
      Still
<1>28. ASSUME irq_rbr PROVE ResetAt(u)'
  BY <1>28
  DEF irq_rbr, Completed, uart_notify, dma, Good, Working, UartTyped, ResetAt, Still
<1>29. ASSUME irq_lsr PROVE ResetAt(u)'
  <2>1. CASE pc[u] \in Resetting \cup {"end"}
    <3>1. call[u] \in Calls
      BY <1>29 DEF irq_lsr
    <3>2. ~dma_en
      BY <1>29, <2>1, <3>1, Undisturbed DEF irq_lsr
    <3> QED
      BY <1>29, <3>1, <3>2 DEF irq_lsr, dma, Good, Working, ResetAt, Still
  <2> QED
    BY <1>29, <1>a, <2>1 DEF irq_lsr
<1>30. CASE UNCHANGED vars
  BY <1>30 DEF vars, intf, record, dma, Good, Working, UartTyped, ResetAt, Still
<1> QED
  BY <1>1, <1>2, <1>3, <1>4, <1>5, <1>6, <1>7, <1>8, <1>9, <1>10, <1>11, <1>12, <1>13,
     <1>14, <1>15, <1>16, <1>17, <1>18, <1>19, <1>20, <1>21, <1>22, <1>23, <1>24,
     <1>25, <1>26, <1>27, <1>28, <1>29, <1>30
  DEF Next, proceed, atcuart_reset, reset_irqs, Interrupt

(* The steps of a reset, of whatever call, leave no more to do in a        *)
(* direction than there was.                                               *)
LEMMA ResetCalms ==
  ASSUME Good, NEW t \in Tasks, NEW d \in Dirs, atcuart_reset(t)
  PROVE  /\ Rest(d) => Rest(d)'
         /\ Still(d) => Still(d)'
         /\ Active(d)' => Active(d)
<1>1. ASSUME read_ier(t, "reset", "rx_off") \/ read_ier(t, "rx_is_off", "tx_off")
      PROVE  UNCHANGED <<left, owner, ier, dma_ch, work>>
  BY <1>1 DEF read_ier, record, dma
<1>2. ASSUME write_ier(t, "rx", "rx_off", "rx_is_off")
             \/ write_ier(t, "tx", "tx_off", "forget")
      PROVE  ier' \subseteq ier /\ UNCHANGED <<left, owner, dma_ch, work>>
  <2>1. CASE dma_en
    BY <1>2, <2>1 DEF write_ier, dma, Good, Modes
  <2>2. CASE ~dma_en
    <3>1. "duplex" \notin use /\ "reset" \notin use
      BY <2>2, SafeUse DEF Good
    <3>2. pc[t] \in {"rx_off", "tx_off"} /\ pc[t] \in Resetting /\ pc[t] # "idle"
      BY <1>2 DEF write_ier, Resetting
    <3>3. call[t] \in Calls
      BY <3>1, <3>2 DEF Good, UartTyped, Fits, Usable, DeinitCall
    <3>4. /\ pc[t] = "rx_off" => v[t] \subseteq ier \cup {"rx"}
          /\ pc[t] = "tx_off" => "rx" \notin v[t]
      BY <3>1, <3>2, <3>3 DEF Good, Working, OneWay, ResetAt
    <3> QED
      BY <1>2, <3>4 DEF write_ier, dma, Good, UartTyped, Dirs
  <2> QED
    BY <2>1, <2>2
<1>3. ASSUME reset_tr(t)
      PROVE  left'[d] = 0 /\ owner'[d] = Nobody /\ UNCHANGED <<ier, dma_ch, work>>
  BY <1>3 DEF reset_tr, dma
<1>4. ASSUME reset_check(t) PROVE UNCHANGED <<left, owner, ier, dma_ch, work>>
  BY <1>4 DEF reset_check, record, dma
<1>5. ASSUME reset_abort(t)
      PROVE  work' \subseteq work /\ UNCHANGED <<left, owner, ier, dma_ch>>
  BY <1>5 DEF reset_abort, Aborted, record
<1>6. ASSUME reset_drop(t)
      PROVE  /\ UNCHANGED <<left, owner, ier>> /\ (dma_ch[d] = Nobody => dma_ch'[d] = Nobody)
             /\ \A x \in work' : \E w \in work : x.dir = w.dir
  BY <1>6, DroppedWork DEF reset_drop, record, Good, UartTyped
<1> QED
  BY <1>1, <1>2, <1>3, <1>4, <1>5, <1>6
  DEF atcuart_reset, reset_irqs, Rest, Still, Active

(* A reset keeps the lock of a direction. *)
LEMMA ResetLocked ==
  ASSUME Good, [Next]_vars, Usable', NEW d \in Dirs, NEW t \in Tasks, atcuart_reset(t)
  PROVE  Locked(d)'
<1>1. /\ UNCHANGED <<use, prot, done, sync, call>>
      /\ pc[t] \in Resetting /\ pc'[t] \in Resetting \cup {"end"}
      /\ \A s \in Tasks : s # t => pc'[s] = pc[s]
  BY DEF atcuart_reset, reset_irqs, read_ier, write_ier, reset_tr, reset_check,
         reset_abort, reset_drop, NextChannel, Goto, intf, Resetting, Good, UartTyped
<1>2. (Rest(d) => Rest(d)') /\ (Still(d) => Still(d)') /\ (Active(d)' => Active(d))
  BY ResetCalms
<1>3. ASSUME Holder(t, d), pc'[t] = "end" PROVE Rest(d)' /\ ~Active(d)'
  <2>1. call[t] \in Calls
    BY <1>3, CallKinds DEF Holder, Good, UartTyped
  <2>2. ResetAt(t)'
    BY <1>1, <1>3, <2>1, ResetStep
  <2> QED
    BY <1>3, <2>2 DEF ResetAt, Rest, Active, Still, Dirs
<1>4. \A s \in Tasks : Holder(s, d)' = Holder(s, d)
  BY <1>1 DEF Holder, Resetting
<1>5. /\ prot'[d] = 1 => Rest(d)' /\ done'[d] = 0 /\ \A s \in Tasks : ~Holder(s, d)'
      /\ \A r, s \in Tasks : Holder(r, d)' /\ Holder(s, d)' => r = s
      /\ \A s \in Tasks : Holder(s, d)' => sync'[d] = call'[s].sync
  BY <1>1, <1>2, <1>4 DEF Good, Working, Locked
<1>6. /\ \A s \in Tasks : Holder(s, d)' /\ pc'[s] \in {"ioctl", "ok", "end"} => Rest(d)'
      /\ \A s \in Tasks : Holder(s, d)' /\ pc'[s] = "kick" => Still(d)'
  BY <1>1, <1>2, <1>3, <1>4 DEF Good, Working, Locked, Resetting
<1>7. done'[d] = 1 => Rest(d)' /\ \E s \in Tasks : Holder(s, d)' /\ pc'[s] = "wait"
  BY <1>1, <1>2, <1>4 DEF Good, Working, Locked, Resetting
<1>8. /\ Active(d)' /\ sync'[d] =>
           \E s \in Tasks : Holder(s, d)' /\ pc'[s] \in Resetting \cup {"wait"}
      /\ Active(d)' /\ ~sync'[d] => \A s \in Tasks : ~Holder(s, d)'
  BY <1>1, <1>2, <1>3, <1>4 DEF Good, Working, Locked
<1> QED
  BY <1>5, <1>6, <1>7, <1>8 DEF Locked

(* The end of a transfer: the call that waits for it gets the permit, or   *)
(* the lock is free.                                                       *)
LEMMA CompletedStep ==
  ASSUME Good, NEW d \in Dirs, NEW e \in Dirs, Active(e), InTime(e), uart_notify(e),
         UNCHANGED <<use, sync, pc, call>>, Rest(e)', ~Active(e)',
         d # e => /\ Rest(d)' = Rest(d) /\ Still(d)' = Still(d) /\ Active(d)' = Active(d)
  PROVE  Locked(d)'
<1>1. \A t \in Tasks : Holder(t, d)' = Holder(t, d)
  BY DEF Holder
<1>2. CASE d # e
  <2>1. prot'[d] = prot[d] /\ done'[d] = done[d]
    BY <1>2 DEF uart_notify, Good, UartTyped
  <2> QED
    BY <1>1, <1>2, <2>1 DEF Good, Working, Locked
<1>3. CASE d = e /\ sync[e]
  <2>1. PICK t \in Tasks : Holder(t, e) /\ pc[t] \in Resetting \cup {"wait"}
    BY <1>3 DEF Good, Working, Locked
  <2>2. pc[t] = "wait"
    BY <2>1, SafeUse DEF InTime, Good, Holder
  <2>3. prot' = prot /\ prot[e] = 0 /\ done'[e] = 1
    BY <1>3, <2>1 DEF uart_notify, Good, Working, Locked, UartTyped
  <2>4. Still(e)'
    BY DEF Rest
  <2> QED
    BY <1>1, <1>3, <2>1, <2>2, <2>3, <2>4 DEF Good, Working, Locked
<1>4. CASE d = e /\ ~sync[e]
  <2>1. \A t \in Tasks : ~Holder(t, e)
    BY <1>4 DEF Good, Working, Locked
  <2>2. done' = done /\ done[e] = 0
    BY <1>4, <2>1 DEF uart_notify, Good, Working, Locked, UartTyped
  <2> QED
    BY <1>1, <1>4, <2>1, <2>2 DEF Locked
<1> QED
  BY <1>2, <1>3, <1>4

(* The start of a transfer: who started it waits for it, or it has the     *)
(* lock itself.                                                            *)
LEMMA BegunStep ==
  ASSUME Good, NEW d \in Dirs, NEW t \in Tasks, pc[t] \in {"ioctl", "kick", "enable"},
         Begun(t), UNCHANGED <<use, prot, done, sync>>,
         d # call[t].dir => /\ Rest(d)' = Rest(d) /\ Still(d)' = Still(d)
                            /\ Active(d)' = Active(d)
  PROVE  Locked(d)'
<1> DEFINE c == call[t].dir
<1>1. call[t] \in Calls /\ c \in Dirs /\ Holder(t, c) /\ prot[c] = 0 /\ sync[c] = call[t].sync
  <2>1. call[t] \in Calls /\ c \in Dirs /\ Holder(t, c)
    BY CallKinds DEF Good, Fits, Waiting, Holder
  <2> QED
    BY <2>1 DEF Good, Working, Locked, UartTyped
<1>a. done[c] = 0
  BY <1>1 DEF Good, Working, Locked, UartTyped
<1>2. \A s \in Tasks : s # t => pc'[s] = pc[s] /\ call'[s] = call[s]
  BY DEF Begun, Return, Goto, Good, UartTyped
<1>3. IF call[t].sync THEN pc'[t] = "wait" /\ call'[t] = call[t] ELSE pc'[t] = "idle"
  BY DEF Begun, Return, Goto, Good, UartTyped
<1>4. CASE d # c
  <2>1. \A s \in Tasks : Holder(s, d)' = Holder(s, d) /\ (Holder(s, d) => s # t)
    BY <1>2, <1>3, <1>4 DEF Holder
  <2> QED
    BY <1>2, <1>4, <2>1 DEF Good, Working, Locked
<1>5. CASE d = c
  <2>1. \A s \in Tasks : Holder(s, d)' => s = t
    BY <1>1, <1>2, <1>5 DEF Good, Working, Locked, Holder
  <2>2. Holder(t, d)' <=> sync[d]
    BY <1>1, <1>3, <1>5 DEF Holder
  <2> QED
    BY <1>1, <1>a, <1>2, <1>3, <1>5, <2>1, <2>2 DEF Locked
<1> QED
  BY <1>4, <1>5

(* Every step keeps the lock of a direction. *)
LEMMA LockedStep ==
  ASSUME Good, [Next]_vars, Usable', NEW d \in Dirs
  PROVE  Locked(d)'
<1> USE UartAssumption
<1>1. ASSUME scm_uart_init PROVE Locked(d)'
  BY <1>1 DEF scm_uart_init, Good, Usable
<1>2. ASSUME NEW t \in Tasks, scm_uart_deinit(t) PROVE Locked(d)'
  <2>1. pc'[t] # "idle" /\ call'[t].dir = "deinit"
    BY <1>2, CallKinds DEF scm_uart_deinit, Goto, Good, UartTyped
  <2> QED
    BY <2>1 DEF Usable
<1>3. ASSUME NEW t \in Tasks, scm_uart_reset(t) PROVE Locked(d)'
  <2>1. \A s \in Tasks : /\ Holder(s, d)' = Holder(s, d)
                         /\ Holder(s, d) => pc'[s] = pc[s] /\ call'[s] = call[s]
    BY <1>3, CallKinds DEF scm_uart_reset, Goto, Holder, Good, UartTyped
  <2>2. Rest(d)' = Rest(d) /\ Still(d)' = Still(d) /\ Active(d)' = Active(d)
    BY <1>3 DEF scm_uart_reset, record, dma, Rest, Still, Active
  <2> QED
    BY <1>3, <2>1, <2>2 DEF scm_uart_reset, intf, Good, Working, Locked
<1>4. ASSUME NEW t \in Tasks, read_ier(t, "reset", "rx_off") PROVE Locked(d)'
  BY <1>4, ResetLocked DEF atcuart_reset, reset_irqs
<1>5. ASSUME NEW t \in Tasks, write_ier(t, "rx", "rx_off", "rx_is_off") PROVE Locked(d)'
  BY <1>5, ResetLocked DEF atcuart_reset, reset_irqs
<1>6. ASSUME NEW t \in Tasks, read_ier(t, "rx_is_off", "tx_off") PROVE Locked(d)'
  BY <1>6, ResetLocked DEF atcuart_reset, reset_irqs
<1>7. ASSUME NEW t \in Tasks, write_ier(t, "tx", "tx_off", "forget") PROVE Locked(d)'
  BY <1>7, ResetLocked DEF atcuart_reset, reset_irqs
<1>8. ASSUME NEW t \in Tasks, reset_tr(t) PROVE Locked(d)'
  BY <1>8, ResetLocked DEF atcuart_reset, reset_irqs
<1>9. ASSUME NEW t \in Tasks, reset_check(t) PROVE Locked(d)'
  BY <1>9, ResetLocked DEF atcuart_reset, reset_irqs
<1>10. ASSUME NEW t \in Tasks, reset_abort(t) PROVE Locked(d)'
  BY <1>10, ResetLocked DEF atcuart_reset, reset_irqs
<1>11. ASSUME NEW t \in Tasks, reset_drop(t) PROVE Locked(d)'
  BY <1>11, ResetLocked DEF atcuart_reset, reset_irqs
<1>12. ASSUME NEW t \in Tasks, reset_returns(t) PROVE Locked(d)'
  BY <1>12
  DEF reset_returns, Return, Goto, intf, record, dma, Good, Working, UartTyped,
      Locked, Holder, Rest, Active, Still
<1>13. ASSUME NEW t \in Tasks, deinit_returns(t) PROVE Locked(d)'
  BY <1>13 DEF deinit_returns, Usable
<1>14. ASSUME NEW t \in Tasks, request(t) PROVE Locked(d)'
  BY <1>14
  DEF request, Goto, intf, record, dma, Good, Working, UartTyped, Locked, Holder,
      Rest, Active, Still
<1>15. ASSUME NEW t \in Tasks, scm_uart_lock(t) PROVE Locked(d)'
  BY <1>15
  DEF scm_uart_lock, Goto, record, dma, Good, Working, UartTyped, Locked, Holder,
      Rest, Active, Still
<1>16. ASSUME NEW t \in Tasks, transfer_fails(t) PROVE Locked(d)'
  <2>1. /\ pc[t] = "ioctl" /\ prot' = [prot EXCEPT ![call[t].dir] = 1]
        /\ pc'[t] = "idle" /\ \A s \in Tasks : s # t => pc'[s] = pc[s] /\ call'[s] = call[s]
        /\ UNCHANGED <<done, sync, left, owner, ier, dma_ch, work>>
    BY <1>16 DEF transfer_fails, Return, Goto, record, dma, Good, UartTyped
  <2>2. /\ Rest(d)' = Rest(d) /\ Active(d)' = Active(d) /\ Still(d)' = Still(d)
        /\ ~Holder(t, d)' /\ \A s \in Tasks : s # t => (Holder(s, d)' <=> Holder(s, d))
    BY <2>1 DEF Rest, Active, Still, Holder
  <2>3. CASE call[t].dir # d
    <3>1. /\ prot'[d] = prot[d] /\ ~Holder(t, d)
          /\ \A s \in Tasks : Holder(s, d)' => s # t /\ pc'[s] = pc[s] /\ call'[s] = call[s]
      BY <2>1, <2>2, <2>3 DEF Good, UartTyped, Holder
    <3>2. Locked(d)
      BY DEF Good, Working
    <3>3. done[d] = 1 => \E s \in Tasks : Holder(s, d)' /\ pc'[s] = "wait"
      BY <2>1, <2>2, <3>1, <3>2 DEF Locked
    <3>4. Active(d) /\ sync[d] =>
            \E s \in Tasks : Holder(s, d)' /\ pc'[s] \in Resetting \cup {"wait"}
      BY <2>1, <2>2, <3>1, <3>2 DEF Locked
    <3>5. \A s \in Tasks : Holder(s, d)' => Holder(s, d)
      BY <2>2, <3>1
    <3> QED
      BY <2>1, <2>2, <3>1, <3>2, <3>3, <3>4, <3>5 DEF Locked
  <2>4. CASE call[t].dir = d
    <3>1. Holder(t, d) /\ Rest(d)
      BY <2>1, <2>4 DEF Good, Working, Locked, Holder
    <3>2. done[d] = 0 /\ \A s \in Tasks : s # t => ~Holder(s, d)
      BY <2>1, <3>1 DEF Good, Working, UartTyped, Locked
    <3>3. ~Active(d)
      BY <3>1 DEF Rest, Active
    <3> QED
      BY <2>1, <2>2, <2>4, <3>1, <3>2, <3>3 DEF Good, UartTyped, Locked
  <2> QED
    BY <2>3, <2>4
<1>17. ASSUME NEW t \in Tasks, transfer_dma(t) PROVE Locked(d)'
  BY <1>17
  DEF transfer_dma, Goto, intf, record, Good, Working, UartTyped, Locked, Holder,
      Rest, Active, Still
<1>18. ASSUME NEW t \in Tasks, transfer_kick(t) PROVE Locked(d)'
  <2> DEFINE c == call[t].dir
  <2>1. /\ pc[t] = "kick" /\ Begun(t) /\ UNCHANGED <<use, prot, done, sync, left, owner, ier, dma_ch>>
        /\ \A w : w \in work' <=> w \in work
               \/ w = [dir |-> c, owner |-> For(t), kept |-> dma_ch[c] = t]
    BY <1>18 DEF transfer_kick, intf, record
  <2>3. ASSUME d # c
        PROVE  Rest(d)' = Rest(d) /\ Still(d)' = Still(d) /\ Active(d)' = Active(d)
    BY <2>1, <2>3 DEF Rest, Still, Active
  <2> QED
    BY <2>1, <2>3, BegunStep
<1>19. ASSUME NEW t \in Tasks, atcuart_transmit(t) PROVE Locked(d)'
  <2>1. /\ pc[t] = "ioctl" /\ Begun(t) /\ UNCHANGED <<use, prot, done, sync>>
        /\ call[t].dir \in Dirs /\ Holder(t, call[t].dir)
    BY <1>19 DEF atcuart_transmit, intf, Holder, Dirs
  <2>3. ASSUME d # call[t].dir
        PROVE  Rest(d)' = Rest(d) /\ Still(d)' = Still(d) /\ Active(d)' = Active(d)
    BY <1>19, <2>3 DEF atcuart_transmit, dma, Rest, Still, Active, Good, UartTyped
  <2> QED
    BY <2>1, <2>3, BegunStep
<1>20. ASSUME NEW t \in Tasks, atcuart_recevie(t) PROVE Locked(d)'
  BY <1>20
  DEF atcuart_recevie, For, Goto, intf, dma, Good, Working, UartTyped, Locked, Holder,
      Rest, Active, Still
<1>21. ASSUME NEW t \in Tasks, atcuart_rx_enable(t) PROVE Locked(d)'
  <2>1. /\ pc[t] = "enable" /\ Begun(t) /\ UNCHANGED <<use, prot, done, sync>>
        /\ call[t] \in Calls /\ call[t].dir = "rx" /\ Holder(t, call[t].dir)
    BY <1>21 DEF atcuart_rx_enable, intf, Holder, Good, Fits, Waiting, Modes
  <2>3. ier' = {"rx"} /\ Rest("tx")
    BY <1>21, <2>1, SafeUse
    DEF atcuart_rx_enable, Good, Modes, Working, OneWay, Locked, Dirs
  <2>4. ASSUME d # call[t].dir
        PROVE  Rest(d)' = Rest(d) /\ Still(d)' = Still(d) /\ Active(d)' = Active(d)
    BY <1>21, <2>1, <2>3, <2>4 DEF atcuart_rx_enable, dma, Rest, Still, Active, Dirs
  <2> QED
    BY <2>1, <2>4, BegunStep
<1>22. ASSUME NEW t \in Tasks, wait_ok(t) PROVE Locked(d)'
  BY <1>22
  DEF wait_ok, Goto, record, dma, Good, Working, UartTyped, Locked, Holder, Rest,
      Active, Still
<1>23. ASSUME NEW t \in Tasks, wait_timeout(t) PROVE Locked(d)'
  <2>1. /\ UNCHANGED <<use, prot, done, sync, call>>
        /\ pc[t] = "wait" /\ pc'[t] = "reset" /\ done[call[t].dir] = 0
        /\ \A s \in Tasks : s # t => pc'[s] = pc[s]
    BY <1>23 DEF wait_timeout, Goto, intf, Good, UartTyped
  <2>2. Rest(d)' = Rest(d) /\ Still(d)' = Still(d) /\ Active(d)' = Active(d)
    BY <1>23 DEF wait_timeout, record, dma, Rest, Still, Active
  <2>3. \A s \in Tasks : Holder(s, d)' = Holder(s, d)
    BY <2>1 DEF Holder
  <2> QED
    BY <2>1, <2>2, <2>3 DEF Good, Working, Locked, Holder, Resetting
<1>24. ASSUME NEW t \in Tasks, scm_uart_unlock(t) PROVE Locked(d)'
  BY <1>24
  DEF scm_uart_unlock, Return, Goto, record, dma, Good, Working, UartTyped, Locked,
      Holder, Rest, Active, Still
<1>25. ASSUME NEW e \in Dirs, atcuart_dma_done_handler(e) PROVE Locked(d)'
  <2>1. PICK w \in work : /\ w.dir = e /\ InTime(e) /\ dma_ch' = [dma_ch EXCEPT ![e] = Nobody]
                           /\ work' = Dropped(work \ {w}, e) /\ uart_notify(e)
                           /\ UNCHANGED <<use, sync, pc, call, left, owner, ier>>
    BY <1>25 DEF atcuart_dma_done_handler, record
  <2>2. work' = work \ {w} /\ \A x \in work' : x.dir # e
    <3>1. work \ {w} \in SUBSET Running /\ \A x \in work \ {w} : x.dir # e
      BY <2>1 DEF Good, Working, UartTyped, Numbers
    <3> QED
      BY <2>1, <3>1, DroppedNone
  <2>3. dma_en
    BY DEF Good, Modes
  <2>4. Rest(e)' /\ ~Active(e)' /\ Active(e)
    BY <2>1, <2>2, <2>3 DEF Rest, Active, Still, Good, Modes, UartTyped
  <2>5. ASSUME d # e
        PROVE  Rest(d)' = Rest(d) /\ Still(d)' = Still(d) /\ Active(d)' = Active(d)
    BY <2>1, <2>2, <2>5 DEF Rest, Active, Still, Good, UartTyped
  <2> QED
    BY <2>1, <2>4, <2>5, CompletedStep
<1>26. ASSUME irq_thr_fill PROVE Locked(d)'
  BY <1>26
  DEF irq_thr_fill, intf, dma, Good, Working, UartTyped, Locked, Holder, Rest, Active,
      Still
<1>27. ASSUME irq_thr_done PROVE Locked(d)'
  <2>1. /\ InTime("tx") /\ uart_notify("tx") /\ UNCHANGED <<use, sync, pc, call, dma_ch, work>>
        /\ "tx" \in ier /\ ier' = ier \ {"tx"} /\ left'["tx"] = 0
        /\ owner' = [owner EXCEPT !["tx"] = Nobody]
        /\ \A f \in Dirs : f # "tx" => left'[f] = left[f]
    BY <1>27 DEF irq_thr_done, Completed, dma, Good, UartTyped, Dirs
  <2>2. work = {} /\ \A f \in Dirs : dma_ch[f] = Nobody
    BY <2>1 DEF Good, Modes
  <2>3. Rest("tx")' /\ ~Active("tx")' /\ Active("tx") /\ "tx" \in Dirs
    BY <2>1, <2>2 DEF Rest, Active, Still, Good, UartTyped, Dirs
  <2>4. ASSUME d # "tx"
        PROVE  Rest(d)' = Rest(d) /\ Still(d)' = Still(d) /\ Active(d)' = Active(d)
    BY <2>1, <2>2, <2>4 DEF Rest, Active, Still, Good, UartTyped
  <2> QED
    BY <2>1, <2>3, <2>4, CompletedStep
<1>28. ASSUME irq_rbr PROVE Locked(d)'
  <2>1. /\ InTime("rx") /\ uart_notify("rx") /\ UNCHANGED <<use, sync, pc, call, dma_ch, work>>
        /\ "rx" \in ier /\ ier' = ier \ {"rx"} /\ left'["rx"] = 0
        /\ owner' = [owner EXCEPT !["rx"] = Nobody]
        /\ \A f \in Dirs : f # "rx" => left'[f] = left[f]
    BY <1>28 DEF irq_rbr, Completed, dma, Good, UartTyped, Dirs
  <2>2. work = {} /\ \A f \in Dirs : dma_ch[f] = Nobody
    BY <2>1 DEF Good, Modes
  <2>3. Rest("rx")' /\ ~Active("rx")' /\ Active("rx") /\ "rx" \in Dirs
    BY <2>1, <2>2 DEF Rest, Active, Still, Good, UartTyped, Dirs
  <2>4. ASSUME d # "rx"
        PROVE  Rest(d)' = Rest(d) /\ Still(d)' = Still(d) /\ Active(d)' = Active(d)
    BY <2>1, <2>2, <2>4 DEF Rest, Active, Still, Good, UartTyped
  <2> QED
    BY <2>1, <2>3, <2>4, CompletedStep
<1>29. ASSUME irq_lsr PROVE Locked(d)'
  BY <1>29
  DEF irq_lsr, Aborted, intf, dma, Good, Working, UartTyped, Locked, Holder, Rest,
      Active, Still
<1>30. CASE UNCHANGED vars
  BY <1>30
  DEF vars, intf, record, dma, Good, Working, UartTyped, Locked, Holder, Rest, Active,
      Still
<1> QED
  BY <1>1, <1>2, <1>3, <1>4, <1>5, <1>6, <1>7, <1>8, <1>9, <1>10, <1>11, <1>12, <1>13,
     <1>14, <1>15, <1>16, <1>17, <1>18, <1>19, <1>20, <1>21, <1>22, <1>23, <1>24,
     <1>25, <1>26, <1>27, <1>28, <1>29, <1>30
  DEF Next, proceed, atcuart_reset, reset_irqs, Interrupt

(* Every step of a port in use keeps it in use, or begins to close it. *)
LEMMA WorkingStep ==
  ASSUME Good, [Next]_vars, Usable'
  PROVE  Working'
<1>1. \A d \in Dirs : Locked(d)'
  BY LockedStep
<1>2. OneWay' /\ Numbers'
  BY OneWayStep, NumbersStep
<1>3. \A t \in Tasks : (pc[t] # "idle" /\ call[t] \in Calls)' => ResetAt(t)'
  BY ResetStep
<1> QED
  BY <1>1, <1>2, <1>3 DEF Working

(* scm_uart_deinit finds every channel that runs on record. *)
LEMMA ClosingBegins ==
  ASSUME Good, NEW t \in Tasks, scm_uart_deinit(t)
  PROVE  Closing(t)'
<1>1. /\ pc'[t] = "reset" /\ call'[t] = DeinitCall /\ \A s \in Tasks : s # t => pc'[s] = pc[s]
      /\ UNCHANGED <<use, dma_ch, work>> /\ \A s \in Tasks : pc[s] = "idle"
  BY DEF scm_uart_deinit, Idle, Goto, dma, Good, UartTyped
<1>2. \A w \in work : w.kept
  BY SafeUse DEF scm_uart_deinit, Good, Modes, Working, Numbers
<1>3. Numbers'
  BY <1>1 DEF Good, Working, Numbers
<1>4. ResetAt(t)'
  BY <1>1 DEF ResetAt
<1> QED
  BY <1>1, <1>2, <1>3, <1>4 DEF Closing, Resetting

(* No other step closes a port in use. *)
LEMMA UsableStep ==
  ASSUME Good, [Next]_vars, ~\E t \in Tasks : scm_uart_deinit(t)
  PROVE  Usable'
<1> USE UartAssumption
<1>1. ASSUME scm_uart_init PROVE Usable'
  BY <1>1 DEF scm_uart_init, Good, UartTyped, Usable
<1>2. ASSUME NEW t \in Tasks, scm_uart_deinit(t) PROVE Usable'
  BY <1>2
<1>3. ASSUME NEW t \in Tasks, scm_uart_reset(t) PROVE Usable'
  BY <1>3, CallKinds DEF scm_uart_reset, Goto, Good, UartTyped, Usable
<1>4. ASSUME NEW t \in Tasks, read_ier(t, "reset", "rx_off") PROVE Usable'
  BY <1>4 DEF read_ier, Goto, intf, record, dma, Good, UartTyped, Usable
<1>5. ASSUME NEW t \in Tasks, write_ier(t, "rx", "rx_off", "rx_is_off") PROVE Usable'
  BY <1>5 DEF write_ier, Goto, intf, dma, Good, UartTyped, Usable
<1>6. ASSUME NEW t \in Tasks, read_ier(t, "rx_is_off", "tx_off") PROVE Usable'
  BY <1>6 DEF read_ier, Goto, intf, record, dma, Good, UartTyped, Usable
<1>7. ASSUME NEW t \in Tasks, write_ier(t, "tx", "tx_off", "forget") PROVE Usable'
  BY <1>7 DEF write_ier, Goto, intf, dma, Good, UartTyped, Usable
<1>8. ASSUME NEW t \in Tasks, reset_tr(t) PROVE Usable'
  BY <1>8 DEF reset_tr, Goto, intf, dma, Good, UartTyped, Usable
<1>9. ASSUME NEW t \in Tasks, reset_check(t) PROVE Usable'
  BY <1>9 DEF reset_check, NextChannel, Goto, intf, record, dma, Good, UartTyped, Usable
<1>10. ASSUME NEW t \in Tasks, reset_abort(t) PROVE Usable'
  BY <1>10 DEF reset_abort, Aborted, Goto, intf, record, Good, UartTyped, Usable
<1>11. ASSUME NEW t \in Tasks, reset_drop(t) PROVE Usable'
  BY <1>11
  DEF reset_drop, Dropped, NextChannel, Goto, intf, record, Good, UartTyped, Usable
<1>12. ASSUME NEW t \in Tasks, reset_returns(t) PROVE Usable'
  BY <1>12 DEF reset_returns, Return, Goto, intf, record, dma, Good, UartTyped, Usable
<1>13. ASSUME NEW t \in Tasks, deinit_returns(t) PROVE Usable'
  BY <1>13, CallKinds DEF deinit_returns, Good, Usable
<1>14. ASSUME NEW t \in Tasks, request(t) PROVE Usable'
  BY <1>14, CallKinds DEF request, Goto, Good, UartTyped, Usable
<1>15. ASSUME NEW t \in Tasks, scm_uart_lock(t) PROVE Usable'
  BY <1>15 DEF scm_uart_lock, Goto, record, dma, Good, UartTyped, Usable
<1>16. ASSUME NEW t \in Tasks, transfer_fails(t) PROVE Usable'
  BY <1>16 DEF transfer_fails, Return, Goto, record, dma, Good, UartTyped, Usable
<1>17. ASSUME NEW t \in Tasks, transfer_dma(t) PROVE Usable'
  BY <1>17 DEF transfer_dma, Goto, intf, record, Good, UartTyped, Usable
<1>18. ASSUME NEW t \in Tasks, transfer_kick(t) PROVE Usable'
  BY <1>18
  DEF transfer_kick, For, Begun, Return, Goto, intf, record, Good, UartTyped, Usable
<1>19. ASSUME NEW t \in Tasks, atcuart_transmit(t) PROVE Usable'
  BY <1>19
  DEF atcuart_transmit, For, Begun, Return, Goto, intf, dma, Good, UartTyped, Usable
<1>20. ASSUME NEW t \in Tasks, atcuart_recevie(t) PROVE Usable'
  BY <1>20 DEF atcuart_recevie, For, Goto, intf, dma, Good, UartTyped, Usable
<1>21. ASSUME NEW t \in Tasks, atcuart_rx_enable(t) PROVE Usable'
  BY <1>21
  DEF atcuart_rx_enable, Begun, Return, Goto, intf, dma, Good, UartTyped, Usable
<1>22. ASSUME NEW t \in Tasks, wait_ok(t) PROVE Usable'
  BY <1>22 DEF wait_ok, Goto, record, dma, Good, UartTyped, Usable
<1>23. ASSUME NEW t \in Tasks, wait_timeout(t) PROVE Usable'
  BY <1>23 DEF wait_timeout, Goto, intf, record, dma, Good, UartTyped, Usable
<1>24. ASSUME NEW t \in Tasks, scm_uart_unlock(t) PROVE Usable'
  BY <1>24 DEF scm_uart_unlock, Return, Goto, record, dma, Good, UartTyped, Usable
<1>25. ASSUME NEW e \in Dirs, atcuart_dma_done_handler(e) PROVE Usable'
  BY <1>25
  DEF atcuart_dma_done_handler, Dropped, uart_notify, record, Good, UartTyped, Usable
<1>26. ASSUME irq_thr_fill PROVE Usable'
  BY <1>26 DEF irq_thr_fill, intf, dma, Good, UartTyped, Usable
<1>27. ASSUME irq_thr_done PROVE Usable'
  BY <1>27 DEF irq_thr_done, Completed, uart_notify, dma, Good, UartTyped, Usable
<1>28. ASSUME irq_rbr PROVE Usable'
  BY <1>28 DEF irq_rbr, Completed, uart_notify, dma, Good, UartTyped, Usable
<1>29. ASSUME irq_lsr PROVE Usable'
  BY <1>29 DEF irq_lsr, Aborted, intf, dma, Good, UartTyped, Usable
<1>30. CASE UNCHANGED vars
  BY <1>30 DEF vars, intf, record, dma, Good, UartTyped, Usable
<1> QED
  BY <1>1, <1>2, <1>3, <1>4, <1>5, <1>6, <1>7, <1>8, <1>9, <1>10, <1>11, <1>12, <1>13,
     <1>14, <1>15, <1>16, <1>17, <1>18, <1>19, <1>20, <1>21, <1>22, <1>23, <1>24,
     <1>25, <1>26, <1>27, <1>28, <1>29, <1>30
  DEF Next, proceed, atcuart_reset, reset_irqs, Interrupt

(* A closing port makes progress, whatever the interrupts do, and is at    *)
(* rest once it is closed.                                                 *)
LEMMA ClosingStep ==
  ASSUME UartTyped, Fits, Modes, Safe, open, NEW t \in Tasks, Closing(t), [Next]_vars
  PROVE  \/ open' /\ Closing(t)'
         \/ ~open' /\ Idle' /\ \A d \in Dirs : Rest(d)'
<1>1. /\ pc[t] \in Resetting \cup {"end"} /\ call[t] = DeinitCall /\ ResetAt(t) /\ Numbers
      /\ \A w \in work : w.kept /\ dma_ch[w.dir] # Nobody
      /\ \A s \in Tasks : s # t => pc[s] = "idle"
  BY DEF Closing, Numbers
<1>2. pc[t] # "idle" /\ ~Usable /\ ~Idle /\ call[t] \notin Calls /\ call[t].dir \notin Dirs
      /\ call[t] # ResetCall
  BY <1>1, CallKinds DEF Resetting, Usable, Idle
<1>3. \/ atcuart_reset(t) \/ deinit_returns(t) \/ Interrupt \/ irq_lsr
      \/ UNCHANGED vars
  <2>1. ~scm_uart_init /\ \A s \in Tasks : /\ ~scm_uart_deinit(s) /\ ~scm_uart_reset(s)
                                            /\ ~request(s)
    BY <1>2 DEF scm_uart_init, scm_uart_deinit, scm_uart_reset, request
  <2>2. \A s \in Tasks : pc[s] \notin {"lock", "ioctl", "kick", "enable", "wait", "ok"}
    BY <1>1 DEF Resetting
  <2>3. \A s \in Tasks : ~scm_uart_lock(s) /\ ~wait_timeout(s) /\ ~scm_uart_unlock(s)
                         /\ ~wait_ok(s) /\ ~reset_returns(s)
    BY <1>1, <1>2, <2>2
    DEF scm_uart_lock, wait_timeout, scm_uart_unlock, wait_ok, reset_returns
  <2>4. \A s \in Tasks : /\ ~transfer_dma(s) /\ ~transfer_kick(s) /\ ~atcuart_transmit(s)
                         /\ ~atcuart_recevie(s) /\ ~transfer_fails(s) /\ ~atcuart_rx_enable(s)
    BY <2>2 DEF transfer_dma, transfer_kick, atcuart_transmit, atcuart_recevie,
                transfer_fails, atcuart_rx_enable
  <2>5. \A s \in Tasks : s # t => ~atcuart_reset(s) /\ ~deinit_returns(s)
    BY <1>1 DEF atcuart_reset, reset_irqs, read_ier, write_ier, reset_tr, reset_check,
                reset_abort, reset_drop, deinit_returns
  <2> QED
    BY <2>1, <2>3, <2>4, <2>5 DEF Next, proceed
<1>4. CASE atcuart_reset(t)
  <2>1. ResetAt(t)'
    BY <1>1, <1>4, ResetProgress
  <2>2. /\ UNCHANGED <<use, open, call>> /\ pc'[t] \in Resetting \cup {"end"}
        /\ \A s \in Tasks : s # t => pc'[s] = pc[s]
    BY <1>4 DEF atcuart_reset, reset_irqs, read_ier, write_ier, reset_tr, reset_check,
                reset_abort, reset_drop, NextChannel, Goto, Resetting, UartTyped
  <2>3. /\ \A w \in work' : w \in work
        /\ \A w \in work' : dma_ch'[w.dir] = dma_ch[w.dir]
    <3>1. CASE reset_drop(t)
      <4>1. /\ pc[t] = "drop" /\ side[t] \in Dirs /\ work' = Dropped(work, side[t])
            /\ dma_ch' = [dma_ch EXCEPT ![side[t]] = Nobody]
        BY <3>1 DEF reset_drop, UartTyped
      <4>2. \A w \in work : w.dir # side[t]
        BY <1>1, <4>1 DEF ResetAt, Still
      <4>3. work' = work
        <5>1. work \in SUBSET Running
          BY DEF UartTyped
        <5> QED
          BY <4>1, <4>2, <5>1, DroppedNone
      <4> QED
        BY <4>1, <4>2, <4>3 DEF UartTyped, Running
    <3>2. CASE ~reset_drop(t)
      BY <1>4, <3>2 DEF atcuart_reset, reset_irqs, read_ier, write_ier, reset_tr,
                        reset_check, reset_abort, Aborted, dma
    <3> QED
      BY <3>1, <3>2
  <2>4. \A s \in Tasks : pc'[s] # "kick"
    BY <1>1, <2>2 DEF Resetting
  <2>5. Numbers'
    BY <1>1, <2>2, <2>3, <2>4 DEF Numbers
  <2> QED
    BY <1>1, <2>1, <2>2, <2>3, <2>5 DEF Closing
<1>5. CASE deinit_returns(t)
  <2>1. /\ pc[t] = "end" /\ ~open' /\ UNCHANGED <<left, owner, ier, dma_ch, work>>
        /\ pc'[t] = "idle" /\ \A s \in Tasks : s # t => pc'[s] = pc[s]
    BY <1>5 DEF deinit_returns, Return, Goto, record, dma, UartTyped
  <2>2. \A d \in Dirs : Rest(d)'
    BY <1>1, <2>1 DEF ResetAt, Rest, Still, Dirs
  <2> QED
    BY <1>1, <2>1, <2>2 DEF Idle
<1>6. ASSUME NEW e \in Dirs, atcuart_dma_done_handler(e) PROVE open' /\ Closing(t)'
  <2>1. PICK w \in work : /\ w.dir = e /\ dma_ch' = [dma_ch EXCEPT ![e] = Nobody]
                           /\ work' = Dropped(work \ {w}, e)
                           /\ UNCHANGED <<use, open, pc, call, left, owner, ier, v, side>>
    BY <1>6 DEF atcuart_dma_done_handler, record
  <2>2. work' = work \ {w} /\ \A x \in work' : x.dir # e
    <3>1. work \ {w} \in SUBSET Running /\ \A x \in work \ {w} : x.dir # e
      BY <1>1, <2>1 DEF UartTyped, Numbers
    <3> QED
      BY <2>1, <3>1, DroppedNone
  <2>3. \A x \in work' : x \in work /\ dma_ch'[x.dir] = dma_ch[x.dir]
    BY <2>1, <2>2 DEF UartTyped, Running
  <2>4. \A d \in Dirs : dma_ch[d] = Nobody => dma_ch'[d] = Nobody
    BY <2>1 DEF UartTyped
  <2>5. Numbers'
    BY <1>1, <2>1, <2>3 DEF Numbers, Resetting
  <2>6. ResetAt(t)'
    BY <1>1, <2>1, <2>3, <2>4 DEF ResetAt, Still, Dirs
  <2> QED
    BY <1>1, <2>1, <2>3, <2>5, <2>6 DEF Closing
<1>7. CASE irq_thr_fill
  BY <1>1, <1>7 DEF irq_thr_fill, dma, UartTyped, Closing, Numbers, ResetAt, Still
<1>8. CASE irq_thr_done
  BY <1>1, <1>8
  DEF irq_thr_done, Completed, dma, UartTyped, Closing, Numbers, ResetAt, Still
<1>9. CASE irq_rbr
  BY <1>1, <1>9 DEF irq_rbr, Completed, dma, UartTyped, Closing, Numbers, ResetAt, Still
<1>10. CASE irq_lsr
  <2>1. /\ \A w \in work' : w \in work /\ dma_ch'[w.dir] = dma_ch[w.dir]
        /\ \A d \in Dirs : dma_ch[d] = Nobody => dma_ch'[d] = Nobody
        /\ UNCHANGED <<use, open, pc, call, left, owner, v, side>> /\ ier' \subseteq ier
    <3>1. CASE dma_en
      BY <1>1, <1>10, <3>1 DEF irq_lsr, Aborted, UartTyped, Running
    <3>2. CASE ~dma_en
      BY <1>10, <3>2 DEF irq_lsr, dma
    <3> QED
      BY <3>1, <3>2
  <2>2. Numbers'
    BY <1>1, <2>1 DEF Numbers, Resetting
  <2>3. ResetAt(t)'
    BY <1>1, <2>1 DEF ResetAt, Still, Dirs
  <2> QED
    BY <1>1, <2>1, <2>2, <2>3 DEF Closing
<1>11. CASE UNCHANGED vars
  BY <1>1, <1>11 DEF vars, dma, record, Closing, Numbers, ResetAt, Still
<1> QED
  BY <1>3, <1>4, <1>5, <1>6, <1>7, <1>8, <1>9, <1>10, <1>11 DEF Interrupt

(* Nothing happens to a closed port but scm_uart_init. *)
LEMMA ClosedStep ==
  ASSUME UartTyped, ~open, Idle, \A d \in Dirs : Rest(d), [Next]_vars, ~scm_uart_init
  PROVE  UNCHANGED vars
<1>1. \A t \in Tasks : pc[t] = "idle"
  BY DEF Idle
<1>2. ier = {} /\ work = {}
  BY DEF Rest, Still, UartTyped, Running
<1>3. \A t \in Tasks : ~scm_uart_deinit(t) /\ ~scm_uart_reset(t) /\ ~request(t)
  BY DEF scm_uart_deinit, scm_uart_reset, request, Usable
<1>4. \A t \in Tasks : ~scm_uart_lock(t) /\ ~wait_timeout(t) /\ ~proceed(t)
  BY <1>1 DEF scm_uart_lock, wait_timeout, proceed, transfer_dma, transfer_kick,
              atcuart_transmit, atcuart_recevie, transfer_fails, atcuart_rx_enable,
              wait_ok, scm_uart_unlock, reset_returns, deinit_returns, atcuart_reset,
              reset_irqs, read_ier, write_ier, reset_tr, reset_check, reset_abort,
              reset_drop
<1>5. ~Interrupt /\ ~irq_lsr
  BY <1>2 DEF Interrupt, atcuart_dma_done_handler, irq_thr_fill, irq_thr_done, irq_rbr,
              irq_lsr
<1> QED
  BY <1>3, <1>4, <1>5 DEF Next

(* scm_uart_init finds a port at rest and makes the two locks free. *)
LEMMA OpenStep ==
  ASSUME UartTyped, Idle, \A d \in Dirs : Rest(d), scm_uart_init
  PROVE  Usable' /\ Working'
<1>1. \A t \in Tasks : pc'[t] = "idle"
  BY DEF scm_uart_init, Idle
<1>2. /\ work' = {} /\ open'
      /\ \A d \in Dirs : /\ prot'[d] = 1 /\ done'[d] = 0 /\ left'[d] = 0
                         /\ owner'[d] = Nobody /\ d \notin ier' /\ dma_ch'[d] = Nobody
  <2>1. work = {}
    BY DEF Rest, Still, UartTyped, Running
  <2> QED
    BY <2>1 DEF scm_uart_init, Rest
<1>3. ASSUME NEW d \in Dirs PROVE Locked(d)'
  <2>1. Rest(d)' /\ ~Active(d)' /\ \A t \in Tasks : ~Holder(t, d)'
    BY <1>1, <1>2 DEF Rest, Active, Holder, Still
  <2> QED
    BY <1>2, <2>1 DEF Locked
<1>4. OneWay' /\ Numbers' /\ Usable'
  BY <1>1, <1>2 DEF OneWay, Numbers, Usable
<1> QED
  BY <1>1, <1>3, <1>4 DEF Working

(* A task that is in a call is in one of a port in use. *)
LEMMA UsedOpen ==
  ASSUME UartInv, Safe, NEW t \in Tasks, pc[t] \in Waiting
  PROVE  Usable
BY DEF UartInv, Closing, Waiting, Resetting, Idle

(* A port is closed at first. *)
LEMMA UartInvInit == Init => UartInv
<1> SUFFICES ASSUME Init PROVE UartInv
  OBVIOUS
<1>1. UartTyped
  <2>1. use \in SUBSET Oddities
    BY UartAssumption DEF Init
  <2>2. /\ prot \in [Dirs -> 0..1] /\ done \in [Dirs -> 0..1] /\ sync \in [Dirs -> BOOLEAN]
        /\ left \in [Dirs -> 0..1] /\ owner \in [Dirs -> Tasks \cup {App, Nobody}]
        /\ dma_ch \in [Dirs -> Tasks \cup {Nobody}]
    BY DEF Init
  <2>3. /\ pc \in [Tasks -> Labels] /\ call \in [Tasks -> Calls \cup {ResetCall, DeinitCall}]
        /\ v \in [Tasks -> SUBSET Dirs] /\ side \in [Tasks -> Dirs]
    BY DEF Init, Labels, Dirs
  <2> QED
    BY <2>1, <2>2, <2>3 DEF Init, UartTyped
<1>2. Fits /\ Modes
  BY DEF Init, Fits, Modes, Waiting, Resetting
<1>3. ~open /\ Idle /\ \A d \in Dirs : Rest(d)
  BY DEF Init, Idle, Rest, Still
<1> QED
  BY <1>1, <1>2, <1>3 DEF UartInv, Usable

(* Every step keeps the invariant of the port. *)
LEMMA UartInvStep == UartInv /\ [Next]_vars => UartInv'
<1> SUFFICES ASSUME UartInv, [Next]_vars PROVE UartInv'
  OBVIOUS
<1>1. UartTyped /\ Fits /\ Modes /\ UartTyped' /\ Fits' /\ Modes'
  BY UartTypedStep, FitsStep, ModesStep DEF UartInv
<1>2. use' = use
  BY DEF Next, proceed, Interrupt, vars, scm_uart_init, scm_uart_deinit, scm_uart_reset,
         request, scm_uart_lock, transfer_fails, transfer_dma, transfer_kick,
         atcuart_transmit, atcuart_recevie, atcuart_rx_enable, wait_ok, wait_timeout,
         atcuart_reset, reset_irqs, read_ier, write_ier, reset_tr, reset_check,
         reset_abort, reset_drop, scm_uart_unlock, reset_returns, deinit_returns,
         atcuart_dma_done_handler, Completed, irq_thr_fill, irq_thr_done, irq_rbr, irq_lsr
<1>3. Safe' = Safe
  BY <1>2 DEF Safe, dma_en
<1>4. CASE Safe /\ Usable
  <2>1. Good
    BY <1>1, <1>4 DEF UartInv, Good
  <2>2. Usable' => Working'
    BY <2>1, WorkingStep
  <2>3. CASE \E t \in Tasks : scm_uart_deinit(t)
    <3>1. PICK t \in Tasks : scm_uart_deinit(t)
      BY <2>3
    <3>2. Closing(t)' /\ open'
      BY <2>1, <3>1, ClosingBegins DEF scm_uart_deinit
    <3> QED
      BY <1>1, <2>2, <3>2 DEF UartInv
  <2>4. CASE ~\E t \in Tasks : scm_uart_deinit(t)
    <3>1. Usable'
      BY <2>1, <2>4, UsableStep
    <3> QED
      BY <1>1, <2>2, <3>1 DEF UartInv, Usable
  <2> QED
    BY <2>3, <2>4
<1>5. CASE Safe /\ open /\ ~Usable
  <2>1. PICK t \in Tasks : Closing(t)
    BY <1>5 DEF UartInv
  <2>2. \/ open' /\ Closing(t)'
        \/ ~open' /\ Idle' /\ \A d \in Dirs : Rest(d)'
    BY <1>1, <1>5, <2>1, ClosingStep
  <2>3. Closing(t)' => ~Usable'
    BY CallKinds DEF Closing, Usable, Resetting
  <2> QED
    BY <1>1, <2>2, <2>3 DEF UartInv, Usable
<1>6. CASE Safe /\ ~open
  <2>1. Idle /\ \A d \in Dirs : Rest(d)
    BY <1>6 DEF UartInv
  <2>2. CASE scm_uart_init
    BY <1>1, <2>1, <2>2, OpenStep DEF UartInv, Usable
  <2>3. CASE ~scm_uart_init
    <3>1. UNCHANGED vars
      BY <1>1, <1>6, <2>1, <2>3, ClosedStep
    <3>2. ~open' /\ Idle' /\ \A d \in Dirs : Rest(d)'
      BY <1>6, <2>1, <3>1 DEF vars, record, dma, Idle, Rest, Still
    <3> QED
      BY <1>1, <3>2 DEF UartInv, Usable
  <2> QED
    BY <2>2, <2>3
<1>7. CASE ~Safe
  BY <1>1, <1>3, <1>7 DEF UartInv
<1> QED
  BY <1>4, <1>5, <1>6, <1>7 DEF Usable

(* For every set of tasks: who has the lock of each direction, how far its *)
(* transfer is, which channel works for it, how far a reset or scm_uart_   *)
(* deinit has come, and that a closed port is at rest.                     *)
THEOREM UartInvariant == Spec => []UartInv
<1>1. UartInv /\ UNCHANGED vars => UartInv'
  BY UartInvStep
<1> QED
  BY UartInvInit, UartInvStep, PTL DEF Spec

(* OkMeansDone: a call that returns WISE_OK took the permit of its own     *)
(* transfer, and neither the driver nor a channel works on its buffer.     *)
THEOREM UartPermitIsOwn == Spec => []OkMeansDone
<1>1. UartInv => OkMeansDone
  <2> SUFFICES ASSUME UartInv, Safe, NEW t \in Tasks, pc[t] = "ok"
               PROVE  LET d == call[t].dir
                      IN  owner[d] # t /\ \A w \in work : w.dir = d => w.owner # t
    BY DEF OkMeansDone
  <2>1. Usable
    BY UsedOpen DEF Waiting
  <2>2. call[t] \in Calls /\ call[t].dir \in Dirs /\ Holder(t, call[t].dir)
    BY CallKinds DEF UartInv, Fits, Waiting, Holder
  <2>3. Rest(call[t].dir)
    BY <2>1, <2>2 DEF UartInv, Working, Locked
  <2> QED
    BY <2>3, UartAssumption DEF Rest, Still
<1> QED
  BY <1>1, UartInvariant, PTL

(* LockMeansIdle: who has just got the lock of a direction finds no        *)
(* transfer, no buffer and no channel in that direction.                   *)
THEOREM LockFindsRest == Spec => []LockMeansIdle
<1>1. UartInv => LockMeansIdle
  <2> SUFFICES ASSUME UartInv, Safe, NEW t \in Tasks, pc[t] = "ioctl"
               PROVE  LET d == call[t].dir
                      IN  ~InProgress(d) /\ owner[d] = Nobody /\ \A w \in work : w.dir # d
    BY DEF LockMeansIdle
  <2>1. Usable
    BY UsedOpen DEF Waiting
  <2>2. call[t] \in Calls /\ call[t].dir \in Dirs /\ Holder(t, call[t].dir)
    BY CallKinds DEF UartInv, Fits, Waiting, Holder
  <2>3. Rest(call[t].dir)
    BY <2>1, <2>2 DEF UartInv, Working, Locked
  <2> QED
    BY <2>3 DEF Rest, Still, InProgress
<1> QED
  BY <1>1, UartInvariant, PTL

-----------------------------------------------------------------------------

(* A driver that calls free_irq has its line for itself: on a shared line  *)
(* free_irq does not end, or takes the other handlers off.                 *)
Alone == \A d \in Leavers, e \in Drivers : Line[e] = Line[d] => e = d

(* d is on the chain s once. *)
Once(d, s) == \E i \in DOMAIN s : \A j \in DOMAIN s : s[j] = d <=> j = i

PlicTyped ==
  /\ irq_table \in [Irqs -> Seq(Drivers)]
  /\ enabled \in SUBSET Irqs
  /\ asserted \in SUBSET Drivers
  /\ at \in [Drivers -> DriverPoints]

(* What request_irq and free_irq have done so far for each driver. *)
Linked ==
  \A d \in Drivers :
    /\ at[d] = "out" => d \notin Chain(Line[d])
    /\ at[d] # "out" => Once(d, irq_table[Line[d]])
    /\ at[d] = "in" => Line[d] \in enabled
    /\ at[d] \in {"search", "found"} => d \in Leavers
    /\ at[d] # "spin"
    /\ d \in asserted => at[d] = "in"

(* The handlers on a chain are those of the line's drivers. *)
OwnLine == \A l \in Irqs : \A i \in DOMAIN irq_table[l] : Line[irq_table[l][i]] = l

PlicInv == PlicTyped /\ Linked /\ OwnLine

(* An entry put at the end of a chain. *)
LEMMA AppendOnce ==
  ASSUME NEW S, NEW s \in Seq(S), NEW d \in S, \A i \in DOMAIN s : s[i] # d
  PROVE  /\ Append(s, d) \in Seq(S)
         /\ Once(d, Append(s, d))
         /\ \A e : e # d /\ Once(e, s) => Once(e, Append(s, d))
         /\ \A j \in DOMAIN Append(s, d) :
              Append(s, d)[j] = d \/ (j \in DOMAIN s /\ Append(s, d)[j] = s[j])
<1> DEFINE a == Append(s, d)
<1>1. /\ a \in Seq(S) /\ Len(s) \in Nat /\ DOMAIN s = 1..Len(s)
      /\ DOMAIN a = 1..(Len(s) + 1)
      /\ a[Len(s) + 1] = d
      /\ \A j \in 1..Len(s) : a[j] = s[j]
  OBVIOUS
<1> HIDE DEF a
<1>2. Once(d, a)
  <2>1. \A j \in DOMAIN a : a[j] = d <=> j = Len(s) + 1
    BY <1>1
  <2>2. Len(s) + 1 \in DOMAIN a
    BY <1>1
  <2> QED
    BY <2>1, <2>2 DEF Once
<1>3. ASSUME NEW e, e # d, Once(e, s) PROVE Once(e, a)
  <2>1. PICK i \in DOMAIN s : \A j \in DOMAIN s : s[j] = e <=> j = i
    BY <1>3 DEF Once
  <2>2. i \in DOMAIN a /\ \A j \in DOMAIN a : a[j] = e <=> j = i
    BY <1>1, <1>3, <2>1
  <2> QED
    BY <2>2 DEF Once
<1>4. \A j \in DOMAIN a : a[j] = d \/ (j \in DOMAIN s /\ a[j] = s[j])
  BY <1>1
<1> QED
  BY <1>1, <1>2, <1>3, <1>4 DEF a

(* No driver is on a chain before the first request_irq. *)
LEMMA PlicInvInit == PlicInit => PlicInv
  BY LineAssumption
  DEF PlicInit, PlicInv, PlicTyped, Linked, OwnLine, Chain, DriverPoints

(* Every step keeps the invariant of the interrupt lines. *)
LEMMA PlicInvStep ==
  ASSUME Alone, PlicInv, [PlicNext]_plic
  PROVE  PlicInv'
<1> USE LineAssumption DEF PlicInv
<1>1. ASSUME NEW d \in Drivers, request_irq_link(d) PROVE PlicInv'
  <2> DEFINE s == irq_table[Line[d]]
  <2>1. s \in Seq(Drivers) /\ Line[d] \in Irqs /\ \A i \in DOMAIN s : s[i] # d
    BY <1>1 DEF request_irq_link, PlicTyped, Linked, Chain
  <2>2. irq_table' = [irq_table EXCEPT ![Line[d]] = Append(s, d)]
    BY <1>1 DEF request_irq_link, Linked
  <2>3. PlicTyped'
    BY <1>1, <2>1, <2>2, AppendOnce DEF request_irq_link, PlicTyped, DriverPoints
  <2>4. ASSUME NEW e \in Drivers, e # d
        PROVE  /\ Once(e, irq_table[Line[e]]) => Once(e, irq_table'[Line[e]])
               /\ e \notin Chain(Line[e]) => e \notin Chain(Line[e])'
    BY <2>1, <2>2, <2>4, AppendOnce DEF PlicTyped, Chain
  <2>5. Once(d, irq_table'[Line[d]])
    BY <2>1, <2>2, AppendOnce DEF PlicTyped
  <2>6. Linked'
    BY <1>1, <2>4, <2>5 DEF request_irq_link, PlicTyped, Linked
  <2>7. OwnLine'
    BY <2>1, <2>2, AppendOnce DEF PlicTyped, OwnLine
  <2> QED
    BY <2>3, <2>6, <2>7
<1>2. ASSUME NEW d \in Drivers, request_irq_enable(d) PROVE PlicInv'
  BY <1>2 DEF request_irq_enable, PlicTyped, Linked, OwnLine, Chain, DriverPoints
<1>3. ASSUME NEW d \in Drivers, free_irq_disable(d) PROVE PlicInv'
  BY <1>3 DEF free_irq_disable, PlicTyped, Linked, OwnLine, Chain, DriverPoints, Alone
<1>4. ASSUME NEW d \in Drivers, free_irq_search(d) PROVE PlicInv'
  <2> DEFINE s == irq_table[Line[d]]
  <2>1. s \in Seq(Drivers) /\ Once(d, s)
    BY <1>4 DEF free_irq_search, PlicTyped, Linked
  <2>2. s # <<>>
    BY <2>1 DEF Once
  <2>3. 1 \in DOMAIN s /\ Head(s) = s[1] /\ s[1] \in Drivers
    BY <2>1, <2>2
  <2>4. Head(s) = d
    BY <1>4, <2>3 DEF free_irq_search, PlicTyped, Linked, OwnLine, Alone
  <2>5. at' = [at EXCEPT ![d] = "found"]
    BY <1>4, <2>2, <2>4 DEF free_irq_search
  <2> QED
    BY <1>4, <2>5 DEF free_irq_search, PlicTyped, Linked, OwnLine, Chain, DriverPoints
<1>5. ASSUME NEW d \in Drivers, free_irq_unlink(d) PROVE PlicInv'
  <2>1. \A e \in Drivers : Line[e] = Line[d] => e = d
    BY <1>5 DEF free_irq_unlink, Linked, Alone
  <2>2. \A e \in Drivers : e # d => irq_table'[Line[e]] = irq_table[Line[e]]
    BY <1>5, <2>1 DEF free_irq_unlink, PlicTyped
  <2>3. irq_table'[Line[d]] = <<>>
    BY <1>5 DEF free_irq_unlink, PlicTyped
  <2> QED
    BY <1>5, <2>2, <2>3
    DEF free_irq_unlink, PlicTyped, Linked, OwnLine, Chain, DriverPoints
<1>6. ASSUME NEW d \in Drivers, raise(d) PROVE PlicInv'
  BY <1>6 DEF raise, PlicTyped, Linked, OwnLine, Chain
<1>7. ASSUME NEW l \in Irqs, mext_interrupt(l) PROVE PlicInv'
  BY <1>7 DEF mext_interrupt, PlicTyped, Linked, OwnLine, Chain
<1>8. CASE UNCHANGED plic
  BY <1>8 DEF plic, PlicTyped, Linked, OwnLine, Chain
<1> QED
  BY <1>1, <1>2, <1>3, <1>4, <1>5, <1>6, <1>7, <1>8 DEF PlicNext

(* The inductive invariant of plic.c. *)
THEOREM PlicInvariant ==
  ASSUME Alone
  PROVE  PlicSpec => []PlicInv
<1>1. PlicInv /\ [PlicNext]_plic => PlicInv'
  BY PlicInvStep
<1> QED
  BY <1>1, PlicInvInit, PTL DEF PlicSpec

(* StillHandled for any number of lines and drivers, however many share a  *)
(* line for good: request_irq and free_irq of one driver leave the others' *)
(* handlers and lines alone.                                               *)
THEOREM HandlersStay ==
  ASSUME Alone
  PROVE  PlicSpec => []StillHandled
<1>1. PlicInv => StillHandled
  <2> SUFFICES ASSUME PlicInv, NEW d \in Drivers, at[d] = "in"
               PROVE  Cardinality({i \in DOMAIN irq_table[Line[d]] :
                                     irq_table[Line[d]][i] = d}) = 1
    BY DEF PlicInv, Linked, StillHandled
  <2>1. PICK i \in DOMAIN irq_table[Line[d]] :
          \A j \in DOMAIN irq_table[Line[d]] : irq_table[Line[d]][j] = d <=> j = i
    BY DEF PlicInv, Linked, Once
  <2>2. {j \in DOMAIN irq_table[Line[d]] : irq_table[Line[d]][j] = d} = {i}
    BY <2>1
  <2> QED
    BY <2>2, FS_Singleton
<1> QED
  BY <1>1, PlicInvariant, PTL

(* free_irq is not caught in its loop. *)
NoSpin == \A d \in Drivers : at[d] # "spin"

(* After mext_interrupt no device of the line holds it: the interrupt does *)
(* not come again for a device that no handler has served.                 *)
ServedAtOnce ==
  [][\A l \in Irqs : mext_interrupt(l) =>
       \A d \in Drivers : Line[d] = l => d \notin asserted']_plic

(* The loop of free_irq ends, and every handler that is needed is called,  *)
(* for any number of lines and drivers.                                    *)
THEOREM LinesServed ==
  ASSUME Alone
  PROVE  PlicSpec => []NoSpin /\ ServedAtOnce
<1> DEFINE Serves == \A l \in Irqs : mext_interrupt(l) =>
                       \A d \in Drivers : Line[d] = l => d \notin asserted'
<1>1. PlicInv => NoSpin
  BY DEF PlicInv, Linked, NoSpin
<1>2. PlicInv => Serves
  <2> SUFFICES ASSUME PlicInv, NEW l \in Irqs, mext_interrupt(l),
                      NEW d \in Drivers, Line[d] = l, d \in asserted
               PROVE  d \in Chain(l)
    BY DEF mext_interrupt
  <2>1. Once(d, irq_table[l])
    BY DEF PlicInv, Linked
  <2> QED
    BY <2>1 DEF Once, Chain
<1> QED
  BY <1>1, <1>2, PlicInvariant, PTL DEF ServedAtOnce

=============================================================================
