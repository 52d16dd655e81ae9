-------------------------------- MODULE Dma --------------------------------
(***************************************************************************)
(* One DMA controller of hal/drivers/dma/dma-scm2010.c and the drivers     *)
(* that share its channels.  The users are of four kinds:                  *)
(*                                                                         *)
(*   Pollers   SPI (one user per direction) and I2C: no handler, the TC    *)
(*             and ABT interrupts masked; their own interrupt handler      *)
(*             releases the channel when the bus transfer is over;         *)
(*   Handlers  UART: a handler, ABT masked;                                *)
(*   Keepers   I2S streams: a handler, nothing masked, channel kept and    *)
(*             reloaded from the handler until the stream stops;           *)
(*   Copiers   dma_copy from memory to memory: polls the channel.          *)
(*                                                                         *)
(* Interrupts do not nest (see the comment above mext_interrupt in         *)
(* hal/soc/scm2010/plic.c), so an interrupt handler is one step, and so is *)
(* what runs between local_irq_save and local_irq_restore.  Task code      *)
(* outside such a section can be interrupted: dma_copy_hw between the      *)
(* allocation and the kick, and a driver's reset between reading its       *)
(* channel number and the end of dma_ch_abort.                             *)
(***************************************************************************)
EXTENDS Integers, FiniteSets

CONSTANTS NumChans,   \* DMAC0_CH_NUM or DMAC1_CH_NUM
          Pollers, Handlers, Keepers, Copiers,
          NoUser,     \* stands for a NULL handler
          Faulty,     \* users whose transfers may end in a bus error
          CalmResets, \* TRUE: no interrupt or task gets in during a reset
          PromptAborts\* TRUE: an abort has been reported and served before
                      \* its channel is allocated again

Users == Pollers \cup Handlers \cup Keepers \cup Copiers

ASSUME NumChansAssumption == NumChans \in Nat \ {0}
ASSUME KindsAssumption ==
  /\ Pollers \cap (Handlers \cup Keepers \cup Copiers) = {}
  /\ Handlers \cap (Keepers \cup Copiers) = {}
  /\ Keepers \cap Copiers = {}
  /\ NoUser \notin Users
  /\ Faulty \subseteq Users
  /\ CalmResets \in BOOLEAN /\ PromptAborts \in BOOLEAN

Chans == 0..(NumChans - 1)
NoChan == -1

VARIABLES
  ch_status,   \* the busy channels
  ch_aborted,  \* the channels whose abort was reported
  ch_keep,     \* the channels subject to reload
  cb,          \* the handler of each channel, by its user
  enabled,     \* CTRL bit 0 of each channel: the transfer runs
  masked,      \* the interrupts each channel's CTRL masks
  tc, abt, err,\* DMAC_INT_STATUS
  fading,      \* aborted channels whose abort the controller still has to report
  dma_ch,      \* the channel number each driver remembers
  pc,          \* where each user is
  arg          \* the channel number a reset has passed to dma_ch_abort

driver == <<ch_status, ch_aborted, ch_keep, cb>>
hw == <<enabled, masked, tc, abt, err, fading>>
user == <<dma_ch, pc, arg>>
vars == <<driver, hw, user>>

Points == {"idle", "setup", "active", "resetting"}

Init ==
  /\ ch_status = {} /\ ch_aborted = {} /\ ch_keep = {}
  /\ cb = [c \in Chans |-> NoUser]
  /\ enabled = {}
  /\ masked = [c \in Chans |-> {}]
  /\ tc = {} /\ abt = {} /\ err = {} /\ fading = {}
  /\ dma_ch = [u \in Users |-> NoChan]
  /\ pc = [u \in Users |-> "idle"]
  /\ arg = [u \in Users |-> NoChan]

(* The interrupts a user asks to mask: dma_ctrl.intr_mask, int_mask. *)
intr_mask(u) ==
  CASE u \in Pollers  -> {"tc", "abt"}
    [] u \in Handlers -> {"abt"}
    [] u \in Copiers  -> {"tc"}
    [] OTHER          -> {}

(* The channels with a bit set in DMAC_INT_STATUS. *)
Pending == tc \cup abt \cup err

Calm == CalmResets => \A u \in Users : pc[u] # "resetting"

(* Reading DMAC_INT_STATUS and writing the value back clears all of it. *)
ClearStatus == tc' = {} /\ abt' = {} /\ err' = {}

-----------------------------------------------------------------------------
(* Allocation and start *)

(* The channel alloc_ch takes: the lowest idle one (none if all are busy). *)
LowestIdle ==
  {c \in Chans \ ch_status : \A d \in Chans \ ch_status : c <= d}

(* scm2010_dma_alloc_ch, called first by dma_copy and dma_copy_hw. *)
scm2010_dma_alloc_ch(u) ==
  /\ pc[u] = "idle"
  /\ \E c \in LowestIdle :
       /\ PromptAborts => c \notin fading \cup Pending
       /\ ch_status' = ch_status \cup {c}
       /\ ch_aborted' = ch_aborted \ {c}
       /\ ch_keep' = ch_keep \ {c}
       /\ dma_ch' = [dma_ch EXCEPT ![u] = c]
  /\ pc' = [pc EXCEPT ![u] = "setup"]
  /\ UNCHANGED <<cb, hw, arg>>

(* Mutant: dma_copy_hw ignores its keep argument. *)
Kick_ForgetsKeep(u) ==
  LET c == dma_ch[u]
  IN  /\ pc[u] = "setup"
      /\ ch_keep' = ch_keep \ {c}
      /\ cb' = [cb EXCEPT ![c] = IF u \in Handlers \cup Keepers THEN u
                                 ELSE IF u \in Copiers THEN NoUser ELSE @]
      /\ masked' = [masked EXCEPT ![c] = intr_mask(u)]
      /\ enabled' = enabled \cup {c}
      /\ pc' = [pc EXCEPT ![u] = "active"]
      /\ UNCHANGED <<ch_status, ch_aborted, tc, abt, err, fading, dma_ch, arg>>

(* The rest of dma_copy_hw and of dma_copy, up to the kick.  dma_copy_hw   *)
(* leaves the handler of the former user in place when it gets none;       *)
(* dma_copy stores the NULL it gets.                                       *)
scm2010_dma_kick(u) ==
  LET c == dma_ch[u]
  IN  /\ pc[u] = "setup"
      /\ ch_keep' = IF u \in Keepers THEN ch_keep \cup {c} ELSE ch_keep \ {c}
      /\ cb' = [cb EXCEPT ![c] = IF u \in Handlers \cup Keepers THEN u
                                 ELSE IF u \in Copiers THEN NoUser ELSE @]
      /\ masked' = [masked EXCEPT ![c] = intr_mask(u)]
      /\ enabled' = enabled \cup {c}
      /\ pc' = [pc EXCEPT ![u] = "active"]
      /\ UNCHANGED <<ch_status, ch_aborted, tc, abt, err, fading, dma_ch, arg>>

(* The end of dma_copy: the channel is no longer busy and is released. *)
scm2010_dma_ch_release(u) ==
  /\ u \in Copiers
  /\ pc[u] = "active"
  /\ dma_ch[u] \notin enabled
  /\ ch_status' = ch_status \ {dma_ch[u]}
  /\ dma_ch' = [dma_ch EXCEPT ![u] = NoChan]
  /\ pc' = [pc EXCEPT ![u] = "idle"]
  /\ UNCHANGED <<ch_aborted, ch_keep, cb, hw, arg>>

-----------------------------------------------------------------------------
(* Release and abort *)

(* dma_ch_rel, called by the interrupt handlers of SPI and I2C at the end  *)
(* of the bus transfer.  A slave's transfer may end before its DMA does.   *)
scm2010_dma_ch_rel(u) ==
  /\ u \in Pollers
  /\ pc[u] \in {"active", "resetting"}
  /\ dma_ch[u] # NoChan
  /\ ch_status' = ch_status \ {dma_ch[u]}
  /\ ClearStatus
  /\ dma_ch' = [dma_ch EXCEPT ![u] = NoChan]
  /\ pc' = [pc EXCEPT ![u] = IF @ = "active" THEN "idle" ELSE @]
  /\ UNCHANGED <<ch_aborted, ch_keep, cb, enabled, masked, fading, arg>>

(* Mutant: an abort leaves the channel busy. *)
Abort_KeepsBusy(c) ==
  /\ enabled' = enabled \ {c}
  /\ fading' = IF c \in enabled THEN fading \cup {c} ELSE fading
  /\ ch_status' = ch_status
  /\ ClearStatus

(* dma_ch_abort. *)
scm2010_dma_ch_abort(c) ==
  /\ enabled' = enabled \ {c}
  /\ fading' = IF c \in enabled THEN fading \cup {c} ELSE fading
  /\ ch_status' = IF c \in ch_keep THEN ch_status ELSE ch_status \ {c}
  /\ ClearStatus

(* atcspi_reset called by the SPI interrupt handler when a slave transfer  *)
(* failed, and the line error path of the UART interrupt handler.          *)
irq_abort(u) ==
  /\ u \in Pollers \cup Handlers
  /\ pc[u] = "active"
  /\ scm2010_dma_ch_abort(dma_ch[u])
  /\ dma_ch' = [dma_ch EXCEPT ![u] = NoChan]
  /\ pc' = [pc EXCEPT ![u] = "idle"]
  /\ UNCHANGED <<ch_aborted, ch_keep, cb, masked, arg>>

(* A reset called by a task (atcspi_reset, atcuart_reset) finds a channel  *)
(* number and passes it on.                                                *)
reset_begin(u) ==
  /\ u \in Pollers \cup Handlers
  /\ pc[u] = "active"
  /\ Pending = {}
  /\ arg' = [arg EXCEPT ![u] = dma_ch[u]]
  /\ pc' = [pc EXCEPT ![u] = "resetting"]
  /\ UNCHANGED <<driver, hw, dma_ch>>

(* The reset calls dma_ch_abort, and forgets the channel number.           *)
(* Interrupts are on, so those that were raised have been served.          *)
reset_end(u) ==
  /\ pc[u] = "resetting"
  /\ Pending = {}
  /\ scm2010_dma_ch_abort(arg[u])
  /\ dma_ch' = [dma_ch EXCEPT ![u] = NoChan]
  /\ arg' = [arg EXCEPT ![u] = NoChan]
  /\ pc' = [pc EXCEPT ![u] = "idle"]
  /\ UNCHANGED <<ch_aborted, ch_keep, cb, masked>>

(* stream_disable of the I2S driver, called by a trigger with interrupts   *)
(* off: dma_ch_abort, then dma_ch_rel.                                     *)
stream_disable(u) ==
  /\ u \in Keepers
  /\ pc[u] = "active"
  /\ enabled' = enabled \ {dma_ch[u]}
  /\ fading' = IF dma_ch[u] \in enabled THEN fading \cup {dma_ch[u]} ELSE fading
  /\ ch_status' = ch_status \ {dma_ch[u]}
  /\ ClearStatus
  /\ dma_ch' = [dma_ch EXCEPT ![u] = NoChan]
  /\ pc' = [pc EXCEPT ![u] = "idle"]
  /\ UNCHANGED <<ch_aborted, ch_keep, cb, masked, arg>>

-----------------------------------------------------------------------------
(* The interrupt *)

(* The status the interrupt handler derives for a channel. *)
status(c) ==
  IF c \in err THEN "error" ELSE IF c \in abt THEN "aborted" ELSE "complete"

(* Mutant: ch_aborted is not consulted. *)
Spurious_Never(c) == FALSE

(* What ends the loop over the channels early. *)
Spurious(c) == cb[c] # NoUser /\ status(c) # "aborted" /\ c \in ch_aborted

(* The channels the loop, which runs downwards, gets to serve. *)
Served == {c \in Pending : \A d \in Pending : d >= c => ~Spurious(d)}

(* The users whose handlers are called with status st. *)
Told(st) == {cb[c] : c \in {d \in Served : cb[d] # NoUser /\ status(d) = st}}

(* scm2010_dmac_isr with the handlers it calls: the UART handler forgets   *)
(* its channel when the transfer is complete; the I2S handlers reload the  *)
(* channel, or disable the stream (no data, stop requested, or an error);  *)
(* all of them ignore ABORTED.                                             *)
scm2010_dmac_isr ==
  /\ Pending # {}
  /\ \E more \in SUBSET (Told("complete") \cap Keepers) :
       LET stop == ((Told("complete") \cup Told("error")) \cap Keepers) \ more
           done == (Told("complete") \cap Handlers) \cup stop
           reloaded == {dma_ch[u] : u \in more}
           stopped == {dma_ch[u] : u \in stop}
       IN  /\ ch_aborted' =
                (ch_aborted \cup {c \in Served : cb[c] # NoUser /\ status(c) = "aborted"})
                  \ reloaded
           /\ ch_status' = ((ch_status \cup reloaded) \ stopped) \ (Served \ ch_keep)
           /\ enabled' = (enabled \cup reloaded) \ stopped
           /\ dma_ch' = [u \in Users |-> IF u \in done THEN NoChan ELSE dma_ch[u]]
           /\ pc' = [u \in Users |-> IF u \in done /\ pc[u] = "active" THEN "idle"
                                     ELSE pc[u]]
  /\ ClearStatus
  /\ UNCHANGED <<ch_keep, cb, masked, fading, arg>>

-----------------------------------------------------------------------------
(* The controller (external) *)

(* A transfer ends. *)
TransferDone(c) ==
  /\ c \in enabled
  /\ enabled' = enabled \ {c}
  /\ tc' = IF "tc" \in masked[c] THEN tc ELSE tc \cup {c}
  /\ UNCHANGED <<driver, masked, abt, err, fading, user>>

(* A bus error stops a transfer. *)
TransferError(c) ==
  /\ c \in enabled
  /\ \E u \in Faulty : dma_ch[u] = c /\ pc[u] # "setup"
  /\ enabled' = enabled \ {c}
  /\ err' = err \cup {c}
  /\ UNCHANGED <<driver, masked, tc, abt, fading, user>>

(* The controller reports an abort, some time after it was asked for it. *)
AbortReported(c) ==
  /\ c \in fading \ abt
  /\ "abt" \notin masked[c]
  /\ abt' = abt \cup {c}
  /\ UNCHANGED <<driver, enabled, masked, tc, err, fading, user>>

(* An aborted channel comes to rest. *)
AbortOver(c) ==
  /\ c \in fading
  /\ fading' = fading \ {c}
  /\ UNCHANGED <<driver, enabled, masked, tc, abt, err, user>>

(* The spurious completion of an aborted channel. *)
SpuriousDone(c) ==
  /\ c \in fading
  /\ c \in ch_aborted
  /\ c \notin abt
  /\ "tc" \notin masked[c]
  /\ fading' = fading \ {c}
  /\ tc' = tc \cup {c}
  /\ UNCHANGED <<driver, enabled, masked, abt, err, user>>

Next ==
  \/ \E u \in Users : reset_end(u)
  \/ /\ Calm
     /\ \/ \E u \in Users :
             \/ scm2010_dma_alloc_ch(u) \/ scm2010_dma_kick(u)
             \/ scm2010_dma_ch_release(u) \/ scm2010_dma_ch_rel(u)
             \/ irq_abort(u) \/ reset_begin(u) \/ stream_disable(u)
        \/ scm2010_dmac_isr
        \/ \E c \in Chans : \/ TransferDone(c) \/ TransferError(c)
                            \/ AbortReported(c) \/ AbortOver(c)
                            \/ SpuriousDone(c)

Spec == Init /\ [][Next]_vars

(***************************************************************************)
(* The controller finishes what it runs, an interrupt that is raised is    *)
(* taken, and a task that runs a driver's code is scheduled again.  Nobody *)
(* need start, stop or reset anything.                                     *)
(***************************************************************************)
Fairness ==
  /\ \A c \in Chans : WF_vars(TransferDone(c))
  /\ WF_vars(scm2010_dmac_isr)
  /\ \A u \in Users :
       /\ WF_vars(scm2010_dma_kick(u)) /\ WF_vars(scm2010_dma_ch_release(u))
       /\ WF_vars(scm2010_dma_ch_rel(u)) /\ WF_vars(reset_end(u))

FairSpec == Spec /\ Fairness

-----------------------------------------------------------------------------
(* Properties *)

(* alloc_ch never gives a channel to two users, and no path of release,    *)
(* abort or interrupt leaves a channel busy for nobody, or free while its  *)
(* user still counts on it.                                                *)
ChannelsAccounted ==
  /\ \A u, v \in Users : dma_ch[u] = dma_ch[v] /\ dma_ch[u] # NoChan => u = v
  /\ ch_status = {dma_ch[u] : u \in Users} \ {NoChan}

(* "a spurious COMPLETED interrupt from an aborted channel ... should be   *)
(* ignored not to confuse the upper layer": the handler that would be told *)
(* COMPLETE now has a transfer on that very channel.                       *)
CompleteToOwner ==
  \A c \in Served :
    (cb[c] # NoUser /\ status(c) = "complete") =>
      dma_ch[cb[c]] = c /\ pc[cb[c]] \in {"active", "resetting"}

(* assert(dmac->ch_keep & BIT(dma_ch)) in dma_reload holds whenever an I2S *)
(* stream that runs is told that its block is complete.                    *)
ReloadAllowed == \A u \in Keepers : pc[u] = "active" => dma_ch[u] \in ch_keep

(* "a user must wait for completion using dma_ch_is_busy probing when      *)
(* int_tc_mask is set": when it is not set, a user whose transfer has      *)
(* ended is told so (or it resets, or reloads the channel).                *)
CompletionReported ==
  \A u \in Handlers \cup Keepers :
    (pc[u] = "active" /\ dma_ch[u] \notin enabled)
      ~> (pc[u] # "active" \/ dma_ch[u] \in enabled)
=============================================================================
