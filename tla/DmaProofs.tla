----------------------------- MODULE DmaProofs -----------------------------
(***************************************************************************)
(* Safety of the DMA driver, for every number of channels and of users of  *)
(* each kind.                                                              *)
(***************************************************************************)
EXTENDS Dma, TLAPS

(* The use the properties are about: a task's reset is not interrupted, an *)
(* abort has been served before its channel is used again, and only the    *)
(* streams, whose handlers deal with it, meet bus errors.                  *)
Quiet == CalmResets /\ PromptAborts /\ Faulty \subseteq Keepers

Typed ==
  /\ ch_status \subseteq Chans /\ ch_aborted \subseteq Chans /\ ch_keep \subseteq Chans
  /\ cb \in [Chans -> Users \cup {NoUser}]
  /\ enabled \subseteq Chans
  /\ masked \in [Chans -> SUBSET {"tc", "abt"}]
  /\ tc \subseteq Chans /\ abt \subseteq Chans
  /\ err \subseteq Chans /\ fading \subseteq Chans
  /\ dma_ch \in [Users -> Chans \cup {NoChan}]
  /\ pc \in [Users -> Points]
  /\ arg \in [Users -> Chans \cup {NoChan}]

(* A user whose transfer has been kicked, and the user of a channel. *)
Busy(u) == pc[u] \in {"active", "resetting"}
Runs(u, c) == dma_ch[u] = c /\ Busy(u)

(* Each user has its channel from the allocation to the end of its use,    *)
(* nobody else has it, and the busy channels are those.                    *)
Places ==
  /\ \A u \in Users : dma_ch[u] = NoChan <=> pc[u] = "idle"
  /\ \A u \in Users : pc[u] = "resetting" =>
       u \in Pollers \cup Handlers /\ arg[u] = dma_ch[u]
  /\ \A u, v \in Users : dma_ch[u] = dma_ch[v] /\ dma_ch[u] # NoChan => u = v
  /\ \A c \in Chans : c \in ch_status <=> \E u \in Users : dma_ch[u] = c

(* What the driver keeps for a channel is its user's. *)
Marked ==
  /\ \A u \in Keepers : Busy(u) => dma_ch[u] \in ch_keep
  /\ \A u \in Users \ Keepers : dma_ch[u] \notin ch_keep
  /\ \A u \in Handlers \cup Keepers : Busy(u) => cb[dma_ch[u]] = u

(* An interrupt that is raised, or may be, is for a user with a handler;   *)
(* or it is of an abort, whose channel nobody has yet.                     *)
Raised ==
  /\ \A c \in enabled : "tc" \notin masked[c] =>
       \E u \in Handlers \cup Keepers : Runs(u, c)
  /\ \A c \in tc : \/ \E u \in Handlers \cup Keepers : Runs(u, c)
                   \/ c \notin ch_status /\ c \in ch_aborted
  /\ \A c \in err : \E u \in Keepers : Runs(u, c)
  /\ (fading \cup abt) \cap ch_status = {}
  /\ (fading \cup tc) \cap enabled = {}

DmaInv == Quiet => Typed /\ Places /\ Marked /\ Raised

-----------------------------------------------------------------------------
(* The number of no channel is not that of one. *)
LEMMA NoChanNotChan == NoChan \notin Chans
  BY NumChansAssumption DEF NoChan, Chans

(* Whom scm2010_dmac_isr serves: a channel that somebody has is that of    *)
(* the user whose handler it is, which is told COMPLETE, or ERROR if it is *)
(* a stream.  A spurious completion is not served.                         *)
LEMMA ServedOwner ==
  ASSUME Quiet, Typed, Places, Marked, Raised, NEW c \in Served
  PROVE  /\ c \in ch_status \/ status(c) = "error" =>
              cb[c] \in Handlers \cup Keepers /\ Runs(cb[c], c)
         /\ cb[c] # NoUser /\ status(c) = "complete" =>
              cb[c] \in Handlers \cup Keepers /\ Runs(cb[c], c)
         /\ status(c) = "error" => cb[c] \in Keepers
         /\ c \in ch_status /\ cb[c] \in Handlers => status(c) = "complete"
<1> USE KindsAssumption, NoChanNotChan
<1>1. c \in Chans /\ c \in Pending /\ ~Spurious(c)
  <2>1. c \in Pending /\ \A d \in Pending : d >= c => ~Spurious(d)
    BY DEF Served
  <2>2. c \in Chans /\ c >= c
    BY <2>1, NumChansAssumption DEF Pending, Typed, Chans
  <2> QED
    BY <2>1, <2>2
<1>2. ASSUME NEW u \in Handlers \cup Keepers, Runs(u, c)
      PROVE  cb[c] = u /\ c \in ch_status
  BY <1>1, <1>2 DEF Runs, Marked, Places, Users
<1>3. c \in err => \E u \in Keepers : Runs(u, c)
  BY DEF Raised
<1>4. c \in tc => \/ \E u \in Handlers \cup Keepers : Runs(u, c)
                  \/ c \notin ch_status /\ c \in ch_aborted
  BY DEF Raised
<1>5. c \in abt => c \notin ch_status
  BY DEF Raised
<1>6. status(c) = "error" <=> c \in err
  BY DEF status
<1>7. status(c) = "complete" <=> c \notin err /\ c \notin abt
  BY DEF status
<1>8. status(c) = "complete" => c \in tc
  BY <1>1, <1>7 DEF Pending
<1>9. c \in ch_status => c \in err \/ c \in tc
  BY <1>1, <1>5 DEF Pending
<1>10. cb[c] # NoUser /\ status(c) = "complete" => c \notin ch_aborted
  BY <1>1 DEF Spurious
<1>11. c \in err => cb[c] \in Keepers /\ Runs(cb[c], c)
  BY <1>2, <1>3
<1>12. c \in tc => \/ cb[c] \in Handlers \cup Keepers /\ Runs(cb[c], c)
                   \/ c \notin ch_status /\ c \in ch_aborted
  BY <1>2, <1>4
<1>13. cb[c] \in Handlers => c \notin err
  BY <1>11
<1> QED
  BY <1>5, <1>6, <1>7, <1>8, <1>9, <1>10, <1>11, <1>12, <1>13

(* What scm2010_dmac_isr does to the users whose use of a channel it ends. *)
Ended(done) ==
  /\ \A u \in done : pc[u] = "active" /\ dma_ch[u] \in Chans
  /\ dma_ch' = [u \in Users |-> IF u \in done THEN NoChan ELSE dma_ch[u]]
  /\ pc' = [u \in Users |-> IF u \in done THEN "idle" ELSE pc[u]]
  /\ \A c \in Chans : c \in ch_status' <=>
       c \in ch_status /\ \A u \in done : dma_ch[u] # c
  /\ ch_status' \subseteq ch_status
  /\ \A c \in enabled' : c \in enabled \/ \E u \in Keepers \ done : Runs(u, c)
  /\ \A u \in done \cap Keepers : dma_ch[u] \notin enabled'
  /\ \A u \in done \cap Handlers : dma_ch[u] \in tc
  /\ ch_aborted' \subseteq Chans

(* What the interrupt does to the users and the busy channels: those it    *)
(* tells, and only those, lose their channels.                             *)
LEMMA IsrEffect ==
  ASSUME Quiet, Typed, Places, Marked, Raised, Calm, scm2010_dmac_isr
  PROVE  \E done \in SUBSET (Handlers \cup Keepers) : Ended(done)
<1> USE KindsAssumption, NoChanNotChan
<1>1. PICK more \in SUBSET (Told("complete") \cap Keepers) :
       LET stop == ((Told("complete") \cup Told("error")) \cap Keepers) \ more
           done == (Told("complete") \cap Handlers) \cup stop
           reloaded == {dma_ch[u] : u \in more}
           stopped == {dma_ch[u] : u \in stop}
       IN  /\ ch_aborted' =
                (ch_aborted \cup {c \in Served : cb[c] # NoUser /\ status(c) = "aborted"})
                  \ reloaded
           /\ ch_status' = ((ch_status \cup reloaded) \ stopped) \ (Served \ ch_keep)
           /\ enabled' = (enabled \cup reloaded) \ stopped
           /\ dma_ch' = [u \in Users |-> IF u \in done THEN NoChan ELSE dma_ch[u]]
           /\ pc' = [u \in Users |-> IF u \in done /\ pc[u] = "active" THEN "idle"
                                     ELSE pc[u]]
  BY DEF scm2010_dmac_isr
<1> DEFINE stop == ((Told("complete") \cup Told("error")) \cap Keepers) \ more
           done == (Told("complete") \cap Handlers) \cup stop
           reloaded == {dma_ch[u] : u \in more}
           stopped == {dma_ch[u] : u \in stop}
<1>2. \A u \in Users : pc[u] # "resetting"
  BY DEF Calm, Quiet
<1>3. ASSUME NEW u \in Told("complete")
      PROVE  u \in Handlers \cup Keepers /\ Runs(u, dma_ch[u]) /\ dma_ch[u] \in Served
             /\ status(dma_ch[u]) = "complete"
  <2>1. PICK c \in Served : cb[c] # NoUser /\ status(c) = "complete" /\ u = cb[c]
    BY <1>3 DEF Told
  <2>2. u \in Handlers \cup Keepers /\ Runs(u, c)
    BY <2>1, ServedOwner
  <2> QED
    BY <2>1, <2>2 DEF Runs
<1>4. ASSUME NEW u \in Told("error")
      PROVE  u \in Keepers /\ Runs(u, dma_ch[u]) /\ dma_ch[u] \in Served
  <2>1. PICK c \in Served : cb[c] # NoUser /\ status(c) = "error" /\ u = cb[c]
    BY <1>4 DEF Told
  <2>2. u \in Keepers /\ Runs(u, c)
    BY <2>1, ServedOwner
  <2> QED
    BY <2>1, <2>2 DEF Runs
<1>5. /\ done \subseteq Handlers \cup Keepers
      /\ more \subseteq Keepers /\ stop \subseteq Keepers
  BY <1>1, <1>3
<1>6. \A u \in done \cup more : u \in Users /\ pc[u] = "active" /\ dma_ch[u] \in ch_status
  <2> SUFFICES ASSUME NEW u \in done \cup more
               PROVE  u \in Users /\ pc[u] = "active" /\ dma_ch[u] \in ch_status
    OBVIOUS
  <2>1. u \in Told("complete") \/ u \in Told("error")
    BY <1>1
  <2>2. u \in Handlers \cup Keepers /\ Busy(u)
    BY <2>1, <1>3, <1>4 DEF Runs
  <2>3. u \in Users /\ pc[u] = "active"
    BY <2>2, <1>2 DEF Busy, Users
  <2> QED
    BY <2>3 DEF Places, Typed
<1>7. \A u \in more : dma_ch[u] \in ch_keep
  BY <1>5, <1>6 DEF Marked, Busy
<1>8. \A u \in Handlers \cap done : u \in Told("complete")
  BY <1>5
<1>9. ASSUME NEW c \in ch_status, c \in Served, c \notin ch_keep
      PROVE  \E u \in done : dma_ch[u] = c
  <2>1. cb[c] \in Handlers \cup Keepers /\ Runs(cb[c], c)
    BY <1>9, ServedOwner
  <2>2. cb[c] \in Handlers
    BY <1>9, <2>1 DEF Marked, Runs
  <2>3. status(c) = "complete" /\ cb[c] # NoUser
    BY <1>9, <2>2, ServedOwner DEF Users
  <2>4. cb[c] \in Told("complete")
    BY <1>9, <2>3 DEF Told
  <2> QED
    BY <2>1, <2>2, <2>4 DEF Runs
<1>10. ch_status' = ((ch_status \cup reloaded) \ stopped) \ (Served \ ch_keep)
  BY <1>1
<1>11. reloaded \subseteq ch_status
  BY <1>6
<1>12. ASSUME NEW c \in ch_status'
       PROVE  c \in ch_status /\ \A u \in done : dma_ch[u] # c
  <2>1. c \in ch_status /\ c \notin stopped /\ (c \in Served => c \in ch_keep)
    BY <1>10, <1>11, <1>12
  <2>2. ASSUME NEW u \in done, dma_ch[u] = c PROVE FALSE
    <3>1. u \in Handlers
      BY <2>1, <2>2, <1>5
    <3>2. c \in Served
      BY <3>1, <1>3, <1>8, <2>2
    <3>3. c \notin ch_keep
      BY <3>1, <2>2 DEF Marked, Users
    <3> QED
      BY <2>1, <3>2, <3>3
  <2> QED
    BY <2>1, <2>2
<1>13. ASSUME NEW c \in ch_status, \A u \in done : dma_ch[u] # c PROVE c \in ch_status'
  <2>1. c \notin stopped
    BY <1>13
  <2>2. c \in Served => c \in ch_keep
    BY <1>9, <1>13
  <2> QED
    BY <1>10, <2>1, <2>2
<1>14. enabled' = (enabled \cup reloaded) \ stopped
  BY <1>1
<1>15. \A u \in done \cap Keepers : dma_ch[u] \in stopped
  BY <1>5
<1>16. ASSUME NEW u \in done \cap Handlers PROVE dma_ch[u] \in tc
  <2>1. u \in Told("complete")
    BY <1>8
  <2>2. dma_ch[u] \in Pending /\ status(dma_ch[u]) = "complete"
    BY <2>1, <1>3 DEF Served
  <2> QED
    BY <2>2 DEF status, Pending
<1>17. ASSUME NEW c \in enabled'
       PROVE  c \in enabled \/ \E u \in Keepers \ done : Runs(u, c)
  <2>1. c \in enabled \/ \E u \in more : dma_ch[u] = c
    BY <1>14, <1>17
  <2>2. ASSUME NEW u \in more, dma_ch[u] = c PROVE u \in Keepers \ done /\ Runs(u, c)
    BY <1>5, <1>6, <2>2 DEF Runs, Busy
  <2> QED
    BY <2>1, <2>2
<1>18. /\ dma_ch' = [u \in Users |-> IF u \in done THEN NoChan ELSE dma_ch[u]]
       /\ pc' = [u \in Users |-> IF u \in done THEN "idle" ELSE pc[u]]
  <2>1. /\ dma_ch' = [u \in Users |-> IF u \in done THEN NoChan ELSE dma_ch[u]]
        /\ pc' = [u \in Users |-> IF u \in done /\ pc[u] = "active" THEN "idle"
                                  ELSE pc[u]]
    BY <1>1
  <2> HIDE DEF done
  <2> QED
    BY <2>1, <1>6
<1>19. ch_aborted' \subseteq Chans
  <2>1. Served \subseteq Chans
    BY DEF Served, Pending, Typed
  <2> QED
    BY <1>1, <2>1 DEF Typed
<1>20. \A u \in done : pc[u] = "active" /\ dma_ch[u] \in Chans
  BY <1>6 DEF Typed
<1> HIDE DEF done, stopped
<1>21. ch_status' \subseteq ch_status
  BY <1>12
<1>22. \A c \in Chans : c \in ch_status' <=>
         c \in ch_status /\ \A u \in done : dma_ch[u] # c
  BY <1>12, <1>13
<1>23. \A u \in done \cap Keepers : dma_ch[u] \notin enabled'
  BY <1>14, <1>15
<1>24. done \in SUBSET (Handlers \cup Keepers)
  BY <1>5
<1> QED
  BY <1>16, <1>17, <1>18, <1>19, <1>20, <1>21, <1>22, <1>23, <1>24 DEF Ended

(* Every step keeps the types. *)
LEMMA TypedStep ==
  ASSUME Quiet, Typed, Places, Marked, Raised, [Next]_vars
  PROVE  Typed'
<1> USE KindsAssumption, NoChanNotChan
<1>1. ASSUME NEW u \in Users, Calm, scm2010_dma_alloc_ch(u) PROVE Typed'
  BY <1>1 DEF scm2010_dma_alloc_ch, LowestIdle, hw, Typed, Places, Busy, Users, Points
<1>2. ASSUME NEW u \in Users, Calm, scm2010_dma_kick(u) PROVE Typed'
  <2>1. dma_ch[u] \in Chans /\ u \in Users
    BY <1>2 DEF scm2010_dma_kick, Typed, Places
  <2>2. cb' \in [Chans -> Users \cup {NoUser}]
    BY <1>2, <2>1 DEF scm2010_dma_kick, Typed
  <2>3. intr_mask(u) \subseteq {"tc", "abt"}
    BY DEF intr_mask
  <2>4. masked' \in [Chans -> SUBSET {"tc", "abt"}]
    BY <1>2, <2>1, <2>3 DEF scm2010_dma_kick, Typed
  <2> QED
    BY <1>2, <2>1, <2>2, <2>4 DEF scm2010_dma_kick, Typed, Points
<1>3. ASSUME NEW u \in Users, Calm, scm2010_dma_ch_release(u) PROVE Typed'
  BY <1>3 DEF scm2010_dma_ch_release, hw, Typed, Places, Busy, Users, Points
<1>4. ASSUME NEW u \in Users, Calm, scm2010_dma_ch_rel(u) PROVE Typed'
  BY <1>4 DEF scm2010_dma_ch_rel, ClearStatus, Typed, Places, Busy, Users, Points
<1>5. ASSUME NEW u \in Users, Calm, irq_abort(u) PROVE Typed'
  BY <1>5
  DEF irq_abort, scm2010_dma_ch_abort, ClearStatus, Typed, Places, Busy, Users, Points
<1>6. ASSUME NEW u \in Users, Calm, reset_begin(u) PROVE Typed'
  BY <1>6 DEF reset_begin, driver, hw, Typed, Places, Busy, Users, Points
<1>7. ASSUME NEW u \in Users, Calm, stream_disable(u) PROVE Typed'
  BY <1>7 DEF stream_disable, ClearStatus, Typed, Places, Busy, Users, Points
<1>8. ASSUME NEW u \in Users, reset_end(u) PROVE Typed'
  BY <1>8
  DEF reset_end, scm2010_dma_ch_abort, ClearStatus, Typed, Places, Busy, Users, Points
<1>9. ASSUME NEW c \in Chans, Calm, TransferDone(c) PROVE Typed'
  BY <1>9 DEF TransferDone, driver, user, Typed, Places, Busy, Users, Points
<1>10. ASSUME NEW c \in Chans, Calm, TransferError(c) PROVE Typed'
  BY <1>10 DEF TransferError, driver, user, Typed, Places, Busy, Users, Points
<1>11. ASSUME NEW c \in Chans, Calm, AbortReported(c) PROVE Typed'
  BY <1>11 DEF AbortReported, driver, user, Typed, Places, Busy, Users, Points
<1>12. ASSUME NEW c \in Chans, Calm, AbortOver(c) PROVE Typed'
  BY <1>12 DEF AbortOver, driver, user, Typed, Places, Busy, Users, Points
<1>13. ASSUME NEW c \in Chans, Calm, SpuriousDone(c) PROVE Typed'
  BY <1>13 DEF SpuriousDone, driver, user, Typed, Places, Busy, Users, Points
<1>14. ASSUME Calm, scm2010_dmac_isr PROVE Typed'
  <2>1. PICK done \in SUBSET (Handlers \cup Keepers) : Ended(done)
    BY <1>14, IsrEffect
  <2>2. /\ ch_keep' = ch_keep /\ cb' = cb /\ masked' = masked /\ fading' = fading
        /\ arg' = arg /\ tc' = {} /\ abt' = {} /\ err' = {}
    BY <1>14 DEF scm2010_dmac_isr, ClearStatus
  <2> USE DEF Ended
  <2>3. enabled' \subseteq Chans
    BY <2>1 DEF Runs, Busy, Typed, Places, Users
  <2> QED
    BY <2>1, <2>2, <2>3 DEF Typed, Points
<1>15. CASE UNCHANGED vars
  BY <1>15 DEF vars, driver, hw, user, Typed, Places, Busy, Users, Points
<1> QED
  BY <1>1, <1>2, <1>3, <1>4, <1>5, <1>6, <1>7, <1>8, <1>9, <1>10, <1>11, <1>12, <1>13,
     <1>14, <1>15
  DEF Next

(* Every step keeps each user's channel its own. *)
LEMMA PlacesStep ==
  ASSUME Quiet, Typed, Places, Marked, Raised, [Next]_vars
  PROVE  Places'
<1> USE KindsAssumption, NoChanNotChan
<1>1. ASSUME NEW u \in Users, Calm, scm2010_dma_alloc_ch(u) PROVE Places'
  BY <1>1
  DEF scm2010_dma_alloc_ch, LowestIdle, hw, Quiet, Typed, Places, Marked, Busy, Calm,
      Users
<1>2. ASSUME NEW u \in Users, Calm, scm2010_dma_kick(u) PROVE Places'
  BY <1>2 DEF scm2010_dma_kick, Quiet, Typed, Places, Marked, Busy, Calm, Users
<1>3. ASSUME NEW u \in Users, Calm, scm2010_dma_ch_release(u) PROVE Places'
  BY <1>3
  DEF scm2010_dma_ch_release, hw, Quiet, Typed, Places, Marked, Busy, Calm, Users
<1>4. ASSUME NEW u \in Users, Calm, scm2010_dma_ch_rel(u) PROVE Places'
  BY <1>4
  DEF scm2010_dma_ch_rel, ClearStatus, Quiet, Typed, Places, Marked, Busy, Calm, Users
<1>5. ASSUME NEW u \in Users, Calm, irq_abort(u) PROVE Places'
  BY <1>5
  DEF irq_abort, scm2010_dma_ch_abort, ClearStatus, Quiet, Typed, Places, Marked,
      Busy, Calm, Users
<1>6. ASSUME NEW u \in Users, Calm, reset_begin(u) PROVE Places'
  BY <1>6 DEF reset_begin, driver, hw, Quiet, Typed, Places, Marked, Busy, Calm, Users
<1>7. ASSUME NEW u \in Users, Calm, stream_disable(u) PROVE Places'
  BY <1>7
  DEF stream_disable, ClearStatus, Quiet, Typed, Places, Marked, Busy, Calm, Users
<1>8. ASSUME NEW u \in Users, reset_end(u) PROVE Places'
  BY <1>8
  DEF reset_end, scm2010_dma_ch_abort, ClearStatus, Quiet, Typed, Places, Marked,
      Busy, Calm, Users
<1>9. ASSUME NEW c \in Chans, Calm, TransferDone(c) PROVE Places'
  BY <1>9
  DEF TransferDone, driver, user, Quiet, Typed, Places, Marked, Busy, Calm, Users
<1>10. ASSUME NEW c \in Chans, Calm, TransferError(c) PROVE Places'
  BY <1>10
  DEF TransferError, driver, user, Quiet, Typed, Places, Marked, Busy, Calm, Users
<1>11. ASSUME NEW c \in Chans, Calm, AbortReported(c) PROVE Places'
  BY <1>11
  DEF AbortReported, driver, user, Quiet, Typed, Places, Marked, Busy, Calm, Users
<1>12. ASSUME NEW c \in Chans, Calm, AbortOver(c) PROVE Places'
  BY <1>12 DEF AbortOver, driver, user, Quiet, Typed, Places, Marked, Busy, Calm, Users
<1>13. ASSUME NEW c \in Chans, Calm, SpuriousDone(c) PROVE Places'
  BY <1>13
  DEF SpuriousDone, driver, user, Quiet, Typed, Places, Marked, Busy, Calm, Users
<1>14. ASSUME Calm, scm2010_dmac_isr PROVE Places'
  <2>1. PICK done \in SUBSET (Handlers \cup Keepers) : Ended(done)
    BY <1>14, IsrEffect
  <2>2. /\ ch_keep' = ch_keep /\ cb' = cb /\ masked' = masked /\ fading' = fading
        /\ arg' = arg /\ tc' = {} /\ abt' = {} /\ err' = {}
    BY <1>14 DEF scm2010_dmac_isr, ClearStatus
  <2> USE DEF Ended
  <2>3. \A u \in Users : /\ dma_ch'[u] = IF u \in done THEN NoChan ELSE dma_ch[u]
                         /\ pc'[u] = IF u \in done THEN "idle" ELSE pc[u]
    BY <2>1
  <2> QED
    <3>1. \A c \in Chans : c \in ch_status' <=> \E u \in Users : dma_ch'[u] = c
      <4>1. ASSUME NEW c \in ch_status' PROVE \E u \in Users : dma_ch'[u] = c
        <5>1. c \in ch_status /\ c \in Chans /\ \A u \in done : dma_ch[u] # c
          BY <2>1 DEF Typed
        <5>2. PICK u \in Users : dma_ch[u] = c
          BY <5>1 DEF Places
        <5> QED
          BY <2>3, <5>1, <5>2
      <4>2. ASSUME NEW c \in Chans, NEW u \in Users, dma_ch'[u] = c PROVE c \in ch_status'
        <5>1. u \notin done /\ dma_ch[u] = c
          BY <2>3, <4>2
        <5>2. c \in ch_status
          BY <5>1 DEF Places
        <5>3. \A v \in done : dma_ch[v] # c
          BY <5>1 DEF Places, Users
        <5> QED
          BY <2>1, <5>2, <5>3
      <4> QED
        BY <4>1, <4>2
    <3>2. \A u \in Users : dma_ch'[u] = NoChan <=> pc'[u] = "idle"
      BY <2>3 DEF Places
    <3>3. \A u \in Users : pc'[u] = "resetting" =>
            u \in Pollers \cup Handlers /\ arg'[u] = dma_ch'[u]
      BY <2>2, <2>3 DEF Places
    <3>4. \A u, v \in Users : dma_ch'[u] = dma_ch'[v] /\ dma_ch'[u] # NoChan => u = v
      BY <2>3 DEF Places
    <3> QED
      BY <3>1, <3>2, <3>3, <3>4 DEF Places
<1>15. CASE UNCHANGED vars
  BY <1>15 DEF vars, driver, hw, user, Quiet, Typed, Places, Marked, Busy, Calm, Users
<1> QED
  BY <1>1, <1>2, <1>3, <1>4, <1>5, <1>6, <1>7, <1>8, <1>9, <1>10, <1>11, <1>12, <1>13,
     <1>14, <1>15
  DEF Next

(* Every step keeps what the driver has noted for a channel its user's. *)
LEMMA MarkedStep ==
  ASSUME Quiet, Typed, Places, Marked, Raised, [Next]_vars
  PROVE  Marked'
<1> USE KindsAssumption, NoChanNotChan
<1>1. ASSUME NEW u \in Users, Calm, scm2010_dma_alloc_ch(u) PROVE Marked'
  BY <1>1
  DEF scm2010_dma_alloc_ch, LowestIdle, hw, Quiet, Typed, Places, Marked, Busy, Calm,
      Users, Points
<1>2. ASSUME NEW u \in Users, Calm, scm2010_dma_kick(u) PROVE Marked'
  BY <1>2 DEF scm2010_dma_kick, Quiet, Typed, Places, Marked, Busy, Calm, Users, Points
<1>3. ASSUME NEW u \in Users, Calm, scm2010_dma_ch_release(u) PROVE Marked'
  BY <1>3
  DEF scm2010_dma_ch_release, hw, Quiet, Typed, Places, Marked, Busy, Calm, Users,
      Points
<1>4. ASSUME NEW u \in Users, Calm, scm2010_dma_ch_rel(u) PROVE Marked'
  BY <1>4
  DEF scm2010_dma_ch_rel, ClearStatus, Quiet, Typed, Places, Marked, Busy, Calm,
      Users, Points
<1>5. ASSUME NEW u \in Users, Calm, irq_abort(u) PROVE Marked'
  BY <1>5
  DEF irq_abort, scm2010_dma_ch_abort, ClearStatus, Quiet, Typed, Places, Marked,
      Busy, Calm, Users, Points
<1>6. ASSUME NEW u \in Users, Calm, reset_begin(u) PROVE Marked'
  BY <1>6
  DEF reset_begin, driver, hw, Quiet, Typed, Places, Marked, Busy, Calm, Users, Points
<1>7. ASSUME NEW u \in Users, Calm, stream_disable(u) PROVE Marked'
  BY <1>7
  DEF stream_disable, ClearStatus, Quiet, Typed, Places, Marked, Busy, Calm, Users,
      Points
<1>8. ASSUME NEW u \in Users, reset_end(u) PROVE Marked'
  BY <1>8
  DEF reset_end, scm2010_dma_ch_abort, ClearStatus, Quiet, Typed, Places, Marked,
      Busy, Calm, Users, Points
<1>9. ASSUME NEW c \in Chans, Calm, TransferDone(c) PROVE Marked'
  BY <1>9
  DEF TransferDone, driver, user, Quiet, Typed, Places, Marked, Busy, Calm, Users,
      Points
<1>10. ASSUME NEW c \in Chans, Calm, TransferError(c) PROVE Marked'
  BY <1>10
  DEF TransferError, driver, user, Quiet, Typed, Places, Marked, Busy, Calm, Users,
      Points
<1>11. ASSUME NEW c \in Chans, Calm, AbortReported(c) PROVE Marked'
  BY <1>11
  DEF AbortReported, driver, user, Quiet, Typed, Places, Marked, Busy, Calm, Users,
      Points
<1>12. ASSUME NEW c \in Chans, Calm, AbortOver(c) PROVE Marked'
  BY <1>12
  DEF AbortOver, driver, user, Quiet, Typed, Places, Marked, Busy, Calm, Users, Points
<1>13. ASSUME NEW c \in Chans, Calm, SpuriousDone(c) PROVE Marked'
  BY <1>13
  DEF SpuriousDone, driver, user, Quiet, Typed, Places, Marked, Busy, Calm, Users,
      Points
<1>14. ASSUME Calm, scm2010_dmac_isr PROVE Marked'
  <2>1. PICK done \in SUBSET (Handlers \cup Keepers) : Ended(done)
    BY <1>14, IsrEffect
  <2>2. /\ ch_keep' = ch_keep /\ cb' = cb /\ masked' = masked /\ fading' = fading
        /\ arg' = arg /\ tc' = {} /\ abt' = {} /\ err' = {}
    BY <1>14 DEF scm2010_dmac_isr, ClearStatus
  <2> USE DEF Ended
  <2>3. \A u \in Users : /\ dma_ch'[u] = IF u \in done THEN NoChan ELSE dma_ch[u]
                         /\ pc'[u] = IF u \in done THEN "idle" ELSE pc[u]
    BY <2>1
  <2> QED
    BY <2>2, <2>3 DEF Marked, Busy, Typed, Users
<1>15. CASE UNCHANGED vars
  BY <1>15
  DEF vars, driver, hw, user, Quiet, Typed, Places, Marked, Busy, Calm, Users, Points
<1> QED
  BY <1>1, <1>2, <1>3, <1>4, <1>5, <1>6, <1>7, <1>8, <1>9, <1>10, <1>11, <1>12, <1>13,
     <1>14, <1>15
  DEF Next

(* Every step keeps interrupts for users with a handler. *)
LEMMA RaisedStep ==
  ASSUME Quiet, Typed, Places, Marked, Raised, [Next]_vars
  PROVE  Raised'
<1> USE KindsAssumption, NoChanNotChan
<1>1. ASSUME NEW u \in Users, Calm, scm2010_dma_alloc_ch(u) PROVE Raised'
  <2>1. PICK c \in Chans \ ch_status :
          /\ c \notin fading \cup Pending /\ ch_status' = ch_status \cup {c}
          /\ ch_aborted' = ch_aborted \ {c} /\ dma_ch' = [dma_ch EXCEPT ![u] = c]
    BY <1>1 DEF scm2010_dma_alloc_ch, LowestIdle, Quiet
  <2>2. /\ pc' = [pc EXCEPT ![u] = "setup"] /\ pc[u] = "idle"
        /\ UNCHANGED <<enabled, masked, tc, abt, err, fading>>
    BY <1>1 DEF scm2010_dma_alloc_ch, hw
  <2>3. \A v \in Users : v # u => dma_ch'[v] = dma_ch[v] /\ pc'[v] = pc[v]
    BY <2>1, <2>2 DEF Typed
  <2>4. \A v \in Users, d \in Chans :
          Runs(v, d) => dma_ch'[v] = d /\ pc'[v] \in {"active", "resetting"}
    BY <2>2, <2>3 DEF Runs, Busy
  <2> QED
    BY <2>1, <2>2, <2>4 DEF Raised, Runs, Busy, Pending, Typed, Users
<1>2. ASSUME NEW u \in Users, Calm, scm2010_dma_kick(u) PROVE Raised'
  <2>1. /\ dma_ch[u] \in Chans /\ dma_ch[u] \in ch_status
        /\ dma_ch[u] \notin fading \cup tc
    BY <1>2 DEF scm2010_dma_kick, Typed, Places, Raised, Runs, Busy, Users
  <2>2. /\ pc' = [pc EXCEPT ![u] = "active"] /\ pc[u] = "setup"
        /\ UNCHANGED <<ch_status, ch_aborted, tc, abt, err, fading, dma_ch>>
        /\ enabled' = enabled \cup {dma_ch[u]}
        /\ masked' = [masked EXCEPT ![dma_ch[u]] = intr_mask(u)]
    BY <1>2 DEF scm2010_dma_kick
  <2>3. \A v \in Users : pc'[v] = IF v = u THEN "active" ELSE pc[v]
    BY <2>2 DEF Typed
  <2>4. \A v \in Users, d \in Chans :
          Runs(v, d) => dma_ch'[v] = d /\ pc'[v] \in {"active", "resetting"}
    BY <2>2, <2>3 DEF Runs, Busy
  <2>5. "tc" \notin intr_mask(u) => u \in Handlers \cup Keepers
    BY DEF intr_mask, Users
  <2>6. \A d \in Chans : masked'[d] = IF d = dma_ch[u] THEN intr_mask(u) ELSE masked[d]
    BY <2>1, <2>2 DEF Typed
  <2>7. \A d \in enabled' : "tc" \notin masked'[d] =>
          \E v \in Handlers \cup Keepers :
            dma_ch'[v] = d /\ pc'[v] \in {"active", "resetting"}
    <3> SUFFICES ASSUME NEW d \in enabled', "tc" \notin masked'[d]
                 PROVE  \E v \in Handlers \cup Keepers :
                          dma_ch'[v] = d /\ pc'[v] \in {"active", "resetting"}
      OBVIOUS
    <3>1. CASE d = dma_ch[u]
      BY <2>1, <2>2, <2>3, <2>5, <2>6, <3>1 DEF Users
    <3>2. CASE d # dma_ch[u]
      <4>1. d \in enabled /\ d \in Chans /\ "tc" \notin masked[d]
        BY <2>2, <2>6, <3>2 DEF Typed
      <4>2. PICK v \in Handlers \cup Keepers : Runs(v, d)
        BY <4>1 DEF Raised
      <4> QED
        BY <2>4, <4>1, <4>2 DEF Users
    <3> QED
      BY <3>1, <3>2
  <2> QED
    BY <2>1, <2>2, <2>4, <2>7 DEF Raised, Runs, Busy, Typed, Users
<1>3. ASSUME NEW u \in Users, Calm, scm2010_dma_ch_release(u) PROVE Raised'
  BY <1>3
  DEF scm2010_dma_ch_release, hw, Quiet, Typed, Places, Marked, Raised, Runs, Busy,
      Calm, Users, Points
<1>4. ASSUME NEW u \in Users, Calm, scm2010_dma_ch_rel(u) PROVE Raised'
  BY <1>4
  DEF scm2010_dma_ch_rel, ClearStatus, Quiet, Typed, Places, Marked, Raised, Runs,
      Busy, Calm, Users, Points
<1>5. ASSUME NEW u \in Users, Calm, irq_abort(u) PROVE Raised'
  BY <1>5
  DEF irq_abort, scm2010_dma_ch_abort, ClearStatus, Quiet, Typed, Places, Marked,
      Raised, Runs, Busy, Calm, Users, Points
<1>6. ASSUME NEW u \in Users, Calm, reset_begin(u) PROVE Raised'
  BY <1>6
  DEF reset_begin, driver, hw, Quiet, Typed, Places, Marked, Raised, Runs, Busy, Calm,
      Users, Points
<1>7. ASSUME NEW u \in Users, Calm, stream_disable(u) PROVE Raised'
  BY <1>7
  DEF stream_disable, ClearStatus, Quiet, Typed, Places, Marked, Raised, Runs, Busy,
      Calm, Users, Points
<1>8. ASSUME NEW u \in Users, reset_end(u) PROVE Raised'
  BY <1>8
  DEF reset_end, scm2010_dma_ch_abort, ClearStatus, Quiet, Typed, Places, Marked,
      Raised, Runs, Busy, Calm, Users, Points
<1>9. ASSUME NEW c \in Chans, Calm, TransferDone(c) PROVE Raised'
  BY <1>9
  DEF TransferDone, driver, user, Quiet, Typed, Places, Marked, Raised, Runs, Busy,
      Calm, Users, Points
<1>10. ASSUME NEW c \in Chans, Calm, TransferError(c) PROVE Raised'
  BY <1>10
  DEF TransferError, driver, user, Quiet, Typed, Places, Marked, Raised, Runs, Busy,
      Calm, Users, Points
<1>11. ASSUME NEW c \in Chans, Calm, AbortReported(c) PROVE Raised'
  BY <1>11
  DEF AbortReported, driver, user, Quiet, Typed, Places, Marked, Raised, Runs, Busy,
      Calm, Users, Points
<1>12. ASSUME NEW c \in Chans, Calm, AbortOver(c) PROVE Raised'
  BY <1>12
  DEF AbortOver, driver, user, Quiet, Typed, Places, Marked, Raised, Runs, Busy, Calm,
      Users, Points
<1>13. ASSUME NEW c \in Chans, Calm, SpuriousDone(c) PROVE Raised'
  BY <1>13
  DEF SpuriousDone, driver, user, Quiet, Typed, Places, Marked, Raised, Runs, Busy,
      Calm, Users, Points
<1>14. ASSUME Calm, scm2010_dmac_isr PROVE Raised'
  <2>1. PICK done \in SUBSET (Handlers \cup Keepers) : Ended(done)
    BY <1>14, IsrEffect
  <2>2. /\ ch_keep' = ch_keep /\ cb' = cb /\ masked' = masked /\ fading' = fading
        /\ arg' = arg /\ tc' = {} /\ abt' = {} /\ err' = {}
    BY <1>14 DEF scm2010_dmac_isr, ClearStatus
  <2> USE DEF Ended
  <2>3. \A u \in Users : /\ dma_ch'[u] = IF u \in done THEN NoChan ELSE dma_ch[u]
                         /\ pc'[u] = IF u \in done THEN "idle" ELSE pc[u]
    BY <2>1
  <2>4. (fading' \cup abt') \cap ch_status' = {}
    BY <2>1, <2>2 DEF Raised
  <2>5. ASSUME NEW c \in enabled', "tc" \notin masked[c]
        PROVE  \E u \in (Handlers \cup Keepers) \ done : Runs(u, c)
    <3>1. CASE c \in enabled
      <4>1. PICK u \in Handlers \cup Keepers : Runs(u, c)
        BY <2>5, <3>1 DEF Raised
      <4>2. u \notin done
        BY <2>1, <3>1, <4>1 DEF Runs, Raised
      <4> QED
        BY <4>1, <4>2
    <3> QED
      BY <2>1, <3>1
  <2>6. ASSUME NEW u \in (Handlers \cup Keepers) \ done, NEW c, Runs(u, c)
        PROVE  dma_ch'[u] = c /\ pc'[u] \in {"active", "resetting"}
    BY <2>3, <2>6 DEF Runs, Busy, Users
  <2>7. \A c \in enabled' : "tc" \notin masked'[c] =>
          \E u \in Handlers \cup Keepers :
            dma_ch'[u] = c /\ pc'[u] \in {"active", "resetting"}
    BY <2>2, <2>5, <2>6
  <2>8. (fading' \cup tc') \cap enabled' = {}
    BY <2>1, <2>2 DEF Raised, Runs, Busy, Places, Typed, Users
  <2> QED
    BY <2>2, <2>4, <2>7, <2>8 DEF Raised, Runs, Busy
<1>15. CASE UNCHANGED vars
  BY <1>15
  DEF vars, driver, hw, user, Quiet, Typed, Places, Marked, Raised, Runs, Busy, Calm,
      Users, Points
<1> QED
  BY <1>1, <1>2, <1>3, <1>4, <1>5, <1>6, <1>7, <1>8, <1>9, <1>10, <1>11, <1>12, <1>13,
     <1>14, <1>15
  DEF Next

-----------------------------------------------------------------------------
(* A controller at rest satisfies the invariant. *)
LEMMA DmaInvInit == Init => DmaInv
<1> SUFFICES ASSUME Init PROVE DmaInv
  OBVIOUS
<1> USE NoChanNotChan
<1>1. Typed
  BY DEF Init, Typed, Points
<1>2. Places
  BY DEF Init, Places
<1>3. Marked /\ Raised
  BY DEF Init, Marked, Raised, Busy, Users
<1> QED
  BY <1>1, <1>2, <1>3 DEF DmaInv

(* Every step of the drivers, the interrupt and the controller keeps it. *)
LEMMA DmaInvStep == DmaInv /\ [Next]_vars => DmaInv'
<1> SUFFICES ASSUME DmaInv, [Next]_vars, Quiet PROVE DmaInv'
  BY DEF DmaInv, Quiet
<1>1. Typed /\ Places /\ Marked /\ Raised
  BY DEF DmaInv
<1> QED
  BY <1>1, TypedStep, PlacesStep, MarkedStep, RaisedStep DEF DmaInv

(* The inductive invariant of the DMA driver. *)
THEOREM DmaInvariant == Spec => []DmaInv
  BY DmaInvInit, DmaInvStep, PTL DEF Spec

(* ChannelsAccounted, for every number of channels and users of each kind: *)
(* alloc_ch, the release, abort and reload paths and scm2010_dmac_isr give *)
(* a channel to one user and leave none busy for nobody.                   *)
THEOREM ChannelsOwned == Spec => [](Quiet => ChannelsAccounted)
<1>1. DmaInv /\ Quiet => ChannelsAccounted
  <2> SUFFICES ASSUME Typed, Places PROVE ChannelsAccounted
    BY DEF DmaInv
  <2>1. ASSUME NEW c \in ch_status PROVE c \in {dma_ch[u] : u \in Users} \ {NoChan}
    BY <2>1, NoChanNotChan DEF Typed, Places
  <2>2. ASSUME NEW u \in Users, dma_ch[u] # NoChan PROVE dma_ch[u] \in ch_status
    BY <2>2 DEF Typed, Places
  <2>3. ch_status = {dma_ch[u] : u \in Users} \ {NoChan}
    BY <2>1, <2>2
  <2> QED
    BY <2>3 DEF Places, ChannelsAccounted
<1> QED
  BY <1>1, DmaInvariant, PTL

(* CompleteToOwner: the check of ch_aborted in scm2010_dmac_isr keeps every*)
(* spurious COMPLETED interrupt of an aborted channel from the handlers.   *)
THEOREM NoSpuriousComplete == Spec => [](Quiet => CompleteToOwner)
<1>1. DmaInv /\ Quiet => CompleteToOwner
  BY ServedOwner DEF DmaInv, CompleteToOwner, Runs, Busy
<1> QED
  BY <1>1, DmaInvariant, PTL

(* ReloadAllowed: the assertion on ch_keep in scm2010_dma_reload holds for *)
(* every stream that runs.                                                 *)
THEOREM ReloadAsserted == Spec => [](Quiet => ReloadAllowed)
<1>1. DmaInv /\ Quiet => ReloadAllowed
  BY DEF DmaInv, Marked, Busy, ReloadAllowed
<1> QED
  BY <1>1, DmaInvariant, PTL
=============================================================================
