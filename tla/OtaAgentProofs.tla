--------------------------- MODULE OtaAgentProofs ---------------------------
(***************************************************************************)
(* Safety of the boot loader and of the firmware update agent, for every   *)
(* size of the slots and of the images and any number of resets.           *)
(*                                                                         *)
(* The boot loader: what a reset leaves in the flash is an image that can  *)
(* be started, or a swap under way that the status in a trailer describes  *)
(* (FlashInv); the other parts of LoaderInv say how each step of the swap  *)
(* keeps that true.  The agent: an image that is marked as pending is      *)
(* complete, and the device is reset for nothing else.                     *)
(***************************************************************************)
EXTENDS OtaAgent, Integers, TLAPS

(* Types *)

Magics == {"unset", "bad", "good"}
Types == {"none", "test", "revert", "fail"}

AgentAt == {"idle", "trailer", "connect", "recv", "erase", "program", "flushed", "close",
            "closed", "pending", "empty", "expire"}

Trailers == [magic : {"unset", "good"}, info : {"none", "test", "revert"},
             size : 0..(2 * Sectors - 1), done : BOOLEAN, ok : BOOLEAN,
             idx : 0..Sectors, state : 0..2]

Statuses == [idx : 0..Sectors, state : 0..2, type : Types, size : 0..(2 * Sectors - 1),
             on : {"primary", "scratch"}, info : BOOLEAN]

LoaderTyped ==
  /\ pc \in LoaderAt \cup AgentAt
  /\ prim \in [1..Sectors -> Cells] /\ slot \in [1..Sectors -> Cells]
  /\ scratch \in Cells
  /\ magic \in Magics
  /\ tr \in [{"primary", "scratch"} -> Trailers]
  /\ bs \in Statuses
  /\ size \in [Images -> Nat]

-----------------------------------------------------------------------------
(* The flash *)

(* What boot_validate_slot finds of an area. *)
Whole(area, sz) ==
  /\ area[1] \in Images
  /\ sz[area[1]] \in 1..(2 * Sectors - 1)
  /\ \A s \in 1..Sectors : 2 * s - 1 <= sz[area[1]] => area[s] = area[1]

Fresh(t) == t.idx = 0 /\ t.state = 0

(* No swap is under way, as far as the boot loader can see. *)
Quiet == swap_status_source = "none" \/ Fresh(tr[swap_status_source])

(* The image l is on its way to the primary slot p from the secondary one  *)
(* q: i sectors, from the last of the n halves to be swapped, are there,   *)
(* the others in the secondary slot, and from state 1 on the next one in   *)
(* the scratch area c.                                                     *)
MovingImage(p, q, c, sz, l, i, st, n) ==
  /\ sz[l] \in 1..n
  /\ \A s \in 1..Sectors :
       2 * s - 1 <= sz[l] =>
         /\ s + i > CountOf(n) => p[s] = l
         /\ s + i < CountOf(n) => q[s] = l
         /\ s + i = CountOf(n) => (IF st = 0 THEN q[s] ELSE c) = l

Moving(p, q, c, sz, i, st, n) == \E l \in Images : MovingImage(p, q, c, sz, l, i, st, n)

(* A status: the swap of n halves is in state st of sector i. *)
Underway(i, st, n) ==
  /\ n \in 1..(2 * Sectors - 1)
  /\ i <= CountOf(n)
  /\ st > 0 => i < CountOf(n)
  /\ Moving(prim, slot, scratch, size, i, st, n)
  /\ (i > 0 \/ st = 2) => magic = "unset"

(* What the flash holds at every moment, so that a reset does no harm.     *)
FlashInv ==
  /\ Quiet => Whole(prim, size)
  /\ ~Quiet =>
       LET t == tr[swap_status_source] IN
       /\ t.magic = "good" /\ t.info \in {"test", "revert"}
       /\ Underway(t.idx, t.state, t.size)
       /\ IF swap_status_source = "scratch" THEN t.idx = 0 /\ CountOf(t.size) = Sectors
          ELSE t.idx = 0 => CountOf(t.size) # Sectors
  /\ (tr.scratch.magic = "good" /\ Fresh(tr.scratch)) =>
       tr.primary.done \/ Fresh(tr.primary)

-----------------------------------------------------------------------------
(* The boot loader at each of its steps *)

(* Where the status is: the trailer agrees with bs. *)
Recorded(t) ==
  /\ t.magic = "good" /\ t.info = bs.type /\ t.size = bs.size
  /\ t.idx = bs.idx /\ t.state = bs.state

InPrimary == Recorded(tr.primary) /\ ~tr.primary.done /\ tr.scratch.magic # "good"

Steps == {"swap", "info", "size", "magic", "clear0", "copy0", "status", "erase1", "copy1",
          "clear1", "erase2", "copy2", "bytes"}

Swapping ==
  \/ pc \in Steps \cup {"resume", "unscratch", "done"}
  \/ pc = "ok" /\ bs.type # "fail"

(* A trailer that is being written for the first status. *)
Begun(t) ==
  /\ t.magic = "unset" /\ ~t.done
  /\ pc \in {"size", "magic"} => t.info = bs.type
  /\ pc = "magic" => t.size = bs.size

InitSteps == {"info", "size", "magic"}

SwapInv ==
  /\ Swapping => bs.type \in {"test", "revert"} /\ Underway(bs.idx, bs.state, bs.size)
  /\ pc \in Steps => bs.idx < Count
  /\ (pc = "done" \/ (pc = "ok" /\ bs.type # "fail")) => bs.idx = Count
  /\ pc \in {"swap", "clear0", "copy0", "unscratch", "ok", "done"} => bs.state = 0
  /\ pc \in {"erase1", "copy1", "clear1"} => bs.state = 1
  /\ pc \in {"erase2", "copy2", "bytes"} => bs.state = 2
  /\ pc \in {"clear0", "clear1"} => bs.idx = 0 /\ ~use_scratch
  /\ pc = "bytes" => use_scratch
  /\ pc \in InitSteps => \/ bs.idx = 0 /\ bs.state = 0
                         \/ use_scratch /\ bs.state = 2 /\ bs.on = "primary"

(* The trailers. *)
RecordInv ==
  /\ (\/ pc \in {"resume", "copy0", "status", "erase1", "copy1", "clear1", "erase2", "copy2",
                 "bytes", "done"}
      \/ pc = "ok" /\ bs.type # "fail"
      \/ pc = "swap" /\ bs.idx > 0
      \/ pc \in InitSteps /\ bs.state = 2) =>
       IF use_scratch THEN Recorded(tr.scratch) ELSE InPrimary
  /\ (pc = "swap" /\ bs.idx = 0) => Quiet
  /\ (pc \in InitSteps /\ bs.state = 0 /\ bs.on = "scratch") =>
       /\ Begun(tr.scratch) /\ Fresh(tr.scratch)
       /\ tr.primary.done \/ Fresh(tr.primary)
  /\ pc = "clear0" => Recorded(tr.scratch)
  /\ (pc \in InitSteps /\ bs.state = 0 /\ bs.on = "primary") =>
       ~use_scratch /\ Recorded(tr.scratch) /\ Begun(tr.primary) /\ Fresh(tr.primary)
  /\ pc = "unscratch" =>
       /\ Recorded(tr.primary) /\ ~tr.primary.done
       /\ IF bs.idx = 0 THEN ~use_scratch /\ Recorded(tr.scratch)
          ELSE bs.idx = 1 /\ bs.idx < Count
  /\ pc = "bytes" => tr.primary.magic = "unset" /\ ~tr.primary.done
  /\ (pc = "copy2" /\ use_scratch) => tr.primary.magic = "unset" /\ ~tr.primary.done
  /\ (pc \in InitSteps /\ bs.state = 2) =>
       Begun(tr.primary) /\ tr.primary.idx = 0 /\ tr.primary.state = 2
  /\ (pc = "status" /\ bs.state = 2 /\ use_scratch) =>
       Recorded(tr.primary) /\ ~tr.primary.done

(* The sectors. *)
SectorInv ==
  /\ (pc = "bytes" \/ (pc \in InitSteps \cup {"status"} /\ bs.state = 2)) =>
       prim[Sector] = scratch
  /\ (pc = "status" /\ bs.state = 0) => scratch = slot[Sector]
  /\ (pc \in {"swap", "clear0"} \cup InitSteps /\ bs.idx = 0 /\ bs.state = 0) =>
       size[prim[1]] <= bs.size

(* The trailer of the secondary slot. *)
MagicInv ==
  /\ (pc = "copy1" /\ use_scratch) => magic = "unset"
  /\ (pc = "status" /\ bs.state = 1) => magic = "unset"
  /\ pc \in {"ok", "start"} => magic # "good"

(* No swap. *)
QuietInv ==
  /\ pc \in {"type", "validate", "wipe", "start"} \cup AgentAt => Quiet
  /\ (pc = "ok" /\ bs.type = "fail") => Quiet
  /\ pc = "type" => /\ bs.idx = 0 /\ bs.state = 0 /\ bs.on = "scratch" /\ ~bs.info
                    /\ bs.type # "fail"
  /\ pc \in {"validate", "wipe"} => /\ bs.idx = 0 /\ bs.state = 0
                                    /\ bs.type \in {"test", "revert"}
  /\ pc = "resume" => bs.idx + bs.state > 0
  /\ pc \in AgentAt => prim[1] = "run"
  /\ pc # "dead"

LoaderInv ==
  /\ LoaderTyped
  /\ FlashInv /\ SwapInv /\ RecordInv /\ SectorInv /\ MagicInv /\ QuietInv

-----------------------------------------------------------------------------
(* Counting sectors. *)
LEMMA CountFact ==
  ASSUME NEW n \in Nat
  PROVE  CountOf(n) \in Nat /\ 2 * CountOf(n) \in {n, n + 1}
  BY DEF CountOf

(* A swap of an image that is whole in the secondary slot can begin. *)
LEMMA MovesBegin ==
  ASSUME NEW p, NEW q, NEW c, NEW sz \in [Images -> Nat], NEW n \in Nat,
         Whole(q, sz), sz[q[1]] <= n
  PROVE  Moving(p, q, c, sz, 0, 0, n)
<1>1. MovingImage(p, q, c, sz, q[1], 0, 0, n)
  BY CountFact, OtaAssumption DEF MovingImage, Whole
<1> QED
  BY <1>1 DEF Moving, Whole

(* In state 0 the scratch area, and what has been moved from the secondary *)
(* slot, may hold anything.                                                *)
LEMMA MovesAt0 ==
  ASSUME NEW p, NEW q, NEW c, NEW d, NEW sz, NEW i, NEW n,
         Moving(p, q, c, sz, i, 0, n)
  PROVE  Moving(p, q, d, sz, i, 0, n)
  BY DEF Moving, MovingImage

(* The sector is in the scratch area as well. *)
LEMMA Moves01 ==
  ASSUME NEW p, NEW q, NEW c, NEW sz, NEW i \in Nat, NEW n \in Nat,
         Moving(p, q, c, sz, i, 0, n), i < CountOf(n), c = q[CountOf(n) - i]
  PROVE  Moving(p, q, c, sz, i, 1, n)
<1>1. PICK l \in Images : MovingImage(p, q, c, sz, l, i, 0, n)
  BY DEF Moving
<1>2. ASSUME NEW s \in 1..Sectors, s + i = CountOf(n)
      PROVE  s = CountOf(n) - i
  BY <1>2, CountFact, OtaAssumption
<1>3. MovingImage(p, q, c, sz, l, i, 1, n)
  BY <1>1, <1>2 DEF MovingImage
<1> QED
  BY <1>3 DEF Moving

(* From then on that sector of the secondary slot, and those after it, may *)
(* hold anything.                                                          *)
LEMMA MovesAt1 ==
  ASSUME NEW p, NEW q, NEW r, NEW c, NEW sz, NEW i \in Nat, NEW n \in Nat,
         NEW st \in {1, 2},
         Moving(p, q, c, sz, i, st, n),
         \A s \in 1..Sectors : s + i < CountOf(n) => r[s] = q[s]
  PROVE  Moving(p, r, c, sz, i, st, n)
<1>1. PICK l \in Images : MovingImage(p, q, c, sz, l, i, st, n)
  BY DEF Moving
<1>3. MovingImage(p, r, c, sz, l, i, st, n)
  BY <1>1, CountFact, OtaAssumption DEF MovingImage
<1> QED
  BY <1>3 DEF Moving

(* The state after the copy to the secondary slot. *)
LEMMA Moves12 ==
  ASSUME NEW p, NEW q, NEW c, NEW sz, NEW i, NEW n,
         Moving(p, q, c, sz, i, 1, n)
  PROVE  Moving(p, q, c, sz, i, 2, n)
  BY DEF Moving, MovingImage

(* That sector of the primary slot, and those before it, may hold anything. *)
LEMMA MovesAt2 ==
  ASSUME NEW p, NEW r, NEW q, NEW c, NEW sz, NEW i \in Nat, NEW n \in Nat,
         NEW st \in {0, 1, 2},
         Moving(p, q, c, sz, i, st, n),
         \A s \in 1..Sectors : s + i > CountOf(n) => r[s] = p[s]
  PROVE  Moving(r, q, c, sz, i, st, n)
<1>1. PICK l \in Images : MovingImage(p, q, c, sz, l, i, st, n)
  BY DEF Moving
<1>3. MovingImage(r, q, c, sz, l, i, st, n)
  BY <1>1, CountFact, OtaAssumption DEF MovingImage
<1> QED
  BY <1>3 DEF Moving

(* The sector is in the primary slot, and it is the turn of the next one. *)
LEMMA Moves20 ==
  ASSUME NEW p, NEW q, NEW c, NEW sz, NEW i \in Nat, NEW n \in Nat,
         Moving(p, q, c, sz, i, 2, n), i < CountOf(n), p[CountOf(n) - i] = c
  PROVE  Moving(p, q, c, sz, i + 1, 0, n)
<1>1. PICK l \in Images : MovingImage(p, q, c, sz, l, i, 2, n)
  BY DEF Moving
<1>2. ASSUME NEW s \in 1..Sectors, s + i = CountOf(n)
      PROVE  s = CountOf(n) - i
  BY <1>2, CountFact, OtaAssumption
<1>3. CountOf(n) \in Nat
  BY CountFact
<1>4. MovingImage(p, q, c, sz, l, i + 1, 0, n)
  <2>1. ASSUME NEW s \in 1..Sectors, 2 * s - 1 <= sz[l]
        PROVE  /\ s + (i + 1) > CountOf(n) => p[s] = l
               /\ s + (i + 1) < CountOf(n) => q[s] = l
               /\ s + (i + 1) = CountOf(n) => q[s] = l
    <3>1. s \in Int
      OBVIOUS
    <3>2. CASE s + i = CountOf(n)
      BY <1>1, <1>2, <2>1, <3>1, <3>2, <1>3 DEF MovingImage
    <3>3. CASE s + i > CountOf(n)
      BY <1>1, <2>1, <3>1, <3>3, <1>3 DEF MovingImage
    <3>4. CASE s + i < CountOf(n)
      BY <1>1, <2>1, <3>1, <3>4, <1>3 DEF MovingImage
    <3> QED
      BY <3>1, <3>2, <3>3, <3>4, <1>3
  <2> QED
    BY <1>1, <2>1 DEF MovingImage
<1> QED
  BY <1>4 DEF Moving

(* All sectors are in the primary slot. *)
LEMMA MovesEnd ==
  ASSUME NEW p, NEW q, NEW c, NEW sz \in [Images -> Nat], NEW n \in 1..(2 * Sectors - 1),
         Moving(p, q, c, sz, CountOf(n), 0, n)
  PROVE  Whole(p, sz)
<1>1. PICK l \in Images : MovingImage(p, q, c, sz, l, CountOf(n), 0, n)
  BY DEF Moving
<1>2. CountOf(n) \in Nat /\ sz[l] \in Nat /\ Sectors \in Nat
  BY CountFact, OtaAssumption
<1>3. ASSUME NEW s \in 1..Sectors, 2 * s - 1 <= sz[l]
      PROVE  p[s] = l
  BY <1>1, <1>2, <1>3 DEF MovingImage
<1>4. p[1] = l
  BY <1>1, <1>2, <1>3, OtaAssumption DEF MovingImage
<1> QED
  BY <1>1, <1>2, <1>3, <1>4, OtaAssumption DEF Whole, MovingImage

(* Before the first sector has been moved, nothing is asked of the primary *)
(* slot.                                                                   *)
LEMMA MovesFirst ==
  ASSUME NEW p, NEW r, NEW q, NEW c, NEW sz, NEW st, NEW n \in Nat,
         Moving(p, q, c, sz, 0, st, n)
  PROVE  Moving(r, q, c, sz, 0, st, n)
<1>1. PICK l \in Images : MovingImage(p, q, c, sz, l, 0, st, n)
  BY DEF Moving
<1>2. MovingImage(r, q, c, sz, l, 0, st, n)
  BY <1>1, CountFact, OtaAssumption DEF MovingImage
<1> QED
  BY <1>2 DEF Moving

(* The last sector of the primary slot does not matter to an image that is *)
(* shorter.                                                                *)
LEMMA WholeBut ==
  ASSUME NEW p \in [1..Sectors -> Cells], NEW sz \in [Images -> Nat], NEW n \in Nat, NEW c,
         Whole(p, sz), sz[p[1]] <= n, CountOf(n) < Sectors
  PROVE  Whole([p EXCEPT ![Sectors] = c], sz)
<1>1. 1 \in 1..Sectors /\ 1 # Sectors
  BY OtaAssumption
<1>2. [p EXCEPT ![Sectors] = c][1] = p[1]
  BY <1>1
<1>3. 2 * CountOf(n) \in {n, n + 1} /\ CountOf(n) \in Nat /\ sz[p[1]] \in Nat
  BY CountFact DEF Whole
<1>4. ASSUME NEW s \in 1..Sectors, 2 * s - 1 <= sz[p[1]]
      PROVE  [p EXCEPT ![Sectors] = c][s] = p[1]
  <2>1. s # Sectors
    BY <1>3, <1>4, OtaAssumption
  <2> QED
    BY <1>4, <2>1 DEF Whole
<1> QED
  BY <1>2, <1>4 DEF Whole

(* What the invariant says of the flash, while the flash does not change. *)
LEMMA FlashSame ==
  ASSUME FlashInv, UNCHANGED <<prim, slot, scratch, magic, tr, size>>
  PROVE  FlashInv'
  BY DEF FlashInv, Underway, Quiet, swap_status_source, Fresh

(* The fields of the two trailers and of the status. *)
LEMMA Fields ==
  ASSUME LoaderTyped
  PROVE  /\ \A a \in {"primary", "scratch"} :
              /\ tr[a].idx \in Nat /\ tr[a].state \in 0..2 /\ tr[a].size \in Nat
              /\ tr[a].magic \in {"unset", "good"}
              /\ tr[a].info \in {"none", "test", "revert"}
              /\ tr[a].done \in BOOLEAN /\ tr[a].ok \in BOOLEAN
         /\ bs.idx \in Nat /\ bs.state \in 0..2 /\ bs.size \in Nat /\ bs.type \in Types
         /\ Sectors \in Nat /\ Sectors > 1
         /\ \A n \in Nat : CountOf(n) \in Nat /\ 2 * CountOf(n) \in {n, n + 1}
<1>1. \A a \in {"primary", "scratch"} : tr[a] \in Trailers
  BY DEF LoaderTyped
<1>2. bs \in Statuses
  BY DEF LoaderTyped
<1> QED
  BY <1>1, <1>2, CountFact, OtaAssumption DEF Trailers, Statuses

(* The status is read. *)
LEMMA ReadStatus ==
  ASSUME LoaderInv, swap_read_status
  PROVE  LoaderInv'
<1> USE OtaAssumption DEF LoaderInv
<1> DEFINE t == tr[swap_status_source]
<1>1. UNCHANGED <<prim, slot, scratch, magic, tr, size>>
  BY DEF swap_read_status, GoTo, flash
<1>2. swap_status_source \in {"none", "primary", "scratch"}
  BY DEF swap_status_source
<1>3. CASE Quiet
  <2>1. PICK u \in Trailers :
          /\ u.idx = 0 /\ u.state = 0
          /\ pc' = IF u.idx + u.state > 0 THEN "resume" ELSE "type"
          /\ bs' = [NoStatus EXCEPT !.idx = u.idx, !.state = u.state, !.type = u.info,
                                    !.size = u.size]
    <3>1. CASE swap_status_source = "none"
      <4>1. Blank \in Trailers /\ Blank.idx = 0 /\ Blank.state = 0
        BY DEF Blank, Trailers
      <4> QED
        BY <3>1, <4>1 DEF swap_read_status, GoTo
    <3>2. CASE swap_status_source # "none"
      <4>1. t \in Trailers /\ t.idx = 0 /\ t.state = 0
        BY <1>2, <1>3, <3>2 DEF Quiet, Fresh, LoaderTyped
      <4> QED
        BY <3>2, <4>1 DEF swap_read_status, GoTo
    <3> QED
      BY <3>1, <3>2
  <2>6. /\ pc' = "type" /\ bs'.idx = 0 /\ bs'.state = 0 /\ bs'.on = "scratch" /\ ~bs'.info
        /\ bs' \in Statuses /\ bs'.type \in {"none", "test", "revert"}
    <3>1. pc' = "type"
      BY <2>1
    <3>2. u.info \in {"none", "test", "revert"} /\ u.size \in 0..(2 * Sectors - 1)
      BY DEF Trailers
    <3>3. bs' = [NoStatus EXCEPT !.idx = 0, !.state = 0, !.type = u.info, !.size = u.size]
      BY <2>1
    <3>4. bs'.idx = 0 /\ bs'.state = 0
      BY <3>3 DEF NoStatus
    <3>5. bs'.on = "scratch"
      BY <3>3 DEF NoStatus
    <3>6. ~bs'.info
      BY <3>3 DEF NoStatus
    <3>7. bs'.type \in {"none", "test", "revert"}
      BY <3>2, <3>3 DEF NoStatus
    <3>8. bs' \in Statuses
      <4>1. bs' = [idx |-> 0, state |-> 0, type |-> u.info, size |-> u.size, on |-> "scratch",
                   info |-> FALSE]
        BY <3>3 DEF NoStatus
      <4> QED
        BY <3>2, <4>1 DEF Statuses, Types
    <3> QED
      BY <3>1, <3>4, <3>5, <3>6, <3>7, <3>8
  <2>2. LoaderTyped'
    BY <1>1, <2>6 DEF LoaderTyped, LoaderAt
  <2>3. SwapInv' /\ RecordInv' /\ SectorInv' /\ MagicInv'
    BY <2>6 DEF SwapInv, Swapping, Steps, InitSteps, RecordInv, SectorInv, MagicInv
  <2>4. QuietInv'
    BY <1>1, <1>3, <2>6 DEF QuietInv, Quiet, swap_status_source, Fresh, AgentAt
  <2> QED
    BY <1>1, <2>2, <2>3, <2>4, FlashSame
<1>4. CASE ~Quiet
  <2>1. swap_status_source # "none" /\ t.idx + t.state > 0
    BY <1>2, <1>4, Fields DEF Quiet, Fresh
  <2>2. /\ pc' = "resume" /\ bs'.idx = t.idx /\ bs'.state = t.state /\ bs'.type = t.info
        /\ bs'.size = t.size
        /\ bs' \in Statuses
    BY <1>2, <2>1, Fields
    DEF swap_read_status, GoTo, NoStatus, Statuses, Trailers, LoaderTyped, Types
  <2>3. LoaderTyped'
    BY <1>1, <2>2 DEF LoaderTyped, LoaderAt
  <2>4. SwapInv'
    BY <1>1, <1>4, <2>2 DEF SwapInv, Swapping, Steps, InitSteps, FlashInv, Underway
  <2>5. RecordInv'
    BY <1>1, <1>2, <1>4, <2>1, <2>2
    DEF RecordInv, InitSteps, FlashInv, Recorded, InPrimary, use_scratch, Count,
        swap_status_source
  <2>6. SectorInv' /\ MagicInv' /\ QuietInv'
    BY <2>1, <2>2 DEF SectorInv, MagicInv, InitSteps, QuietInv, AgentAt
  <2> QED
    BY <1>1, <2>3, <2>4, <2>5, <2>6, FlashSame
<1> QED
  BY <1>3, <1>4

(* The type of the swap is decided. *)
LEMMA SwapType ==
  ASSUME LoaderInv, boot_validated_swap_type
  PROVE  LoaderInv'
<1> USE OtaAssumption DEF LoaderInv
<1>1. UNCHANGED <<prim, slot, scratch, magic, tr, size>> /\ pc = "type"
  BY DEF boot_validated_swap_type, GoTo, flash
<1>2. bs.idx = 0 /\ bs.state = 0 /\ bs.type \in {"none", "test", "revert"} /\ Quiet
  BY <1>1, Fields DEF QuietInv, Types
<1>3. /\ bs'.idx = 0 /\ bs'.state = 0 /\ bs' \in Statuses
      /\ bs'.type \in {"none", "test", "revert"}
      /\ pc' = IF bs'.type = "none" THEN "start" ELSE "validate"
      /\ pc' = "start" => magic # "good"
  BY <1>1, <1>2
  DEF boot_validated_swap_type, boot_swap_type_multi, GoTo, LoaderTyped, Statuses,
      Types
<1>4. LoaderTyped'
  BY <1>1, <1>3 DEF LoaderTyped, LoaderAt
<1>5. SwapInv' /\ RecordInv' /\ SectorInv' /\ MagicInv'
  BY <1>1, <1>3 DEF SwapInv, Swapping, Steps, InitSteps, RecordInv, SectorInv, MagicInv
<1>6. QuietInv'
  BY <1>1, <1>2, <1>3 DEF QuietInv, Quiet, swap_status_source, Fresh, AgentAt
<1> QED
  BY <1>1, <1>4, <1>5, <1>6, FlashSame

(* Without a swap under way only the primary slot and the trailers matter. *)
LEMMA FlashQuiet ==
  ASSUME FlashInv, Quiet, UNCHANGED <<prim, tr, size>>
  PROVE  FlashInv' /\ Quiet'
  BY DEF FlashInv, Quiet, swap_status_source, Fresh

(* What a write to the secondary slot changes. *)
LEMMA WriteSecondary ==
  ASSUME LoaderTyped, "torn" \notin use,
         NEW s \in 1..Sectors, NEW c \in Cells, NEW m \in Magics, NEW l, NEW b,
         aligned_write("secondary", s, c, [Blank EXCEPT !.magic = m], l, b)
  PROVE  /\ slot' = [slot EXCEPT ![s] = c]
         /\ slot' \in [1..Sectors -> Cells]
         /\ magic' = IF s = Sectors THEN m ELSE magic
         /\ magic' \in Magics
         /\ UNCHANGED <<prim, scratch, tr, size>>
         /\ pc' = l /\ bs' = b
  BY DEF aligned_write, Put, Fault, LoaderTyped, Blank

(* The image in the secondary slot is looked at. *)
LEMMA ValidateSlot ==
  ASSUME LoaderInv, "torn" \notin use, boot_validate_slot
  PROVE  LoaderInv'
<1> USE OtaAssumption DEF LoaderInv
<1>1. /\ pc = "validate" /\ bs.idx = 0 /\ bs.state = 0 /\ bs.type \in {"test", "revert"}
      /\ Quiet /\ bs \in Statuses
  BY DEF boot_validate_slot, QuietInv, LoaderTyped
<1>2. CASE slot[1] = "erased"
           /\ aligned_write("secondary", Sectors, "erased", Blank, NoSwap, Failed)
  <2>1. Blank = [Blank EXCEPT !.magic = "unset"]
    BY DEF Blank
  <2>2. /\ aligned_write("secondary", Sectors, "erased", [Blank EXCEPT !.magic = "unset"],
                         NoSwap, Failed)
        /\ Sectors \in 1..Sectors /\ "erased" \in Cells /\ "unset" \in Magics
    BY <1>2, <2>1 DEF Cells, Magics
  <2>3. /\ UNCHANGED <<prim, scratch, tr, size>>
        /\ slot' \in [1..Sectors -> Cells] /\ magic' = "unset"
        /\ pc' = NoSwap /\ bs' = Failed
    BY <2>2, WriteSecondary
  <2>4. /\ bs'.idx = 0 /\ bs'.state = 0 /\ bs'.type = "fail" /\ bs' \in Statuses
        /\ pc' \in {"ok", "start"}
    BY <1>1, <2>3 DEF Failed, NoSwap, Statuses, Types
  <2>5. LoaderTyped'
    BY <2>3, <2>4 DEF LoaderTyped, LoaderAt, Magics
  <2>6. FlashInv' /\ Quiet'
    BY <1>1, <2>3, FlashQuiet
  <2>7. SwapInv' /\ RecordInv' /\ SectorInv' /\ MagicInv'
    BY <2>3, <2>4
    DEF SwapInv, Swapping, Steps, InitSteps, RecordInv, SectorInv, MagicInv
  <2>8. QuietInv'
    BY <2>4, <2>6 DEF QuietInv, AgentAt
  <2> QED
    BY <2>5, <2>6, <2>7, <2>8
<1>3. CASE GoTo("wipe", bs)
  <2>1. UNCHANGED <<prim, slot, scratch, magic, tr, size, bs>> /\ pc' = "wipe"
    BY <1>3 DEF GoTo, flash
  <2>2. LoaderTyped'
    BY <2>1 DEF LoaderTyped, LoaderAt
  <2>3. FlashInv' /\ Quiet'
    BY <1>1, <2>1, FlashQuiet
  <2>4. SwapInv' /\ RecordInv' /\ SectorInv' /\ MagicInv'
    BY <2>1 DEF SwapInv, Swapping, Steps, InitSteps, RecordInv, SectorInv, MagicInv
  <2>5. QuietInv'
    BY <1>1, <2>1, <2>3 DEF QuietInv, AgentAt
  <2> QED
    BY <2>2, <2>3, <2>4, <2>5
<1>4. CASE Valid(slot) /\ GoTo("swap", [bs EXCEPT !.size = SwapSize])
  <2>1. /\ UNCHANGED <<prim, slot, scratch, magic, tr, size>> /\ pc' = "swap"
        /\ bs' = [bs EXCEPT !.size = SwapSize]
    BY <1>4 DEF GoTo, flash
  <2>2. Whole(slot, size)
    BY <1>4 DEF Valid, Whole
  <2>3. Whole(prim, size)
    BY <1>1 DEF FlashInv
  <2>4. /\ SwapSize \in 1..(2 * Sectors - 1)
        /\ size[slot[1]] <= SwapSize /\ size[prim[1]] <= SwapSize
    BY <2>2, <2>3 DEF Whole, SwapSize, SizeOf
  <2>5. /\ bs'.idx = 0 /\ bs'.state = 0 /\ bs'.type \in {"test", "revert"}
        /\ bs'.size = SwapSize /\ bs' \in Statuses
    BY <1>1, <2>1, <2>4 DEF Statuses
  <2>6. Moving(prim, slot, scratch, size, 0, 0, SwapSize)
    <3> DEFINE n == SwapSize
    <3>1. n \in Nat /\ size[slot[1]] <= n /\ size \in [Images -> Nat]
      BY <2>4 DEF LoaderTyped
    <3> HIDE DEF n
    <3>2. Moving(prim, slot, scratch, size, 0, 0, n)
      BY <2>2, <3>1, MovesBegin
    <3> QED
      BY <3>2 DEF n
  <2>7. CountOf(SwapSize) \in Nat /\ CountOf(SwapSize) > 0
    BY <2>4, CountFact
  <2>8. LoaderTyped'
    BY <2>1, <2>5 DEF LoaderTyped, LoaderAt
  <2>9. FlashInv' /\ Quiet'
    BY <1>1, <2>1, FlashQuiet
  <2>10. SwapInv'
    BY <2>1, <2>4, <2>5, <2>6, <2>7
    DEF SwapInv, Swapping, Steps, InitSteps, Underway, Count
  <2>11. RecordInv'
    BY <2>1, <2>5, <2>9 DEF RecordInv, InitSteps
  <2>12. SectorInv'
    BY <2>1, <2>4, <2>5 DEF SectorInv, InitSteps
  <2>13. MagicInv' /\ QuietInv'
    BY <2>1 DEF MagicInv, QuietInv, AgentAt
  <2> QED
    BY <2>8, <2>9, <2>10, <2>11, <2>12, <2>13
<1> QED
  BY <1>2, <1>3, <1>4 DEF boot_validate_slot

(* The secondary slot is erased. *)
LEMMA EraseSlot ==
  ASSUME LoaderInv, "torn" \notin use, flash_area_erase
  PROVE  LoaderInv'
<1> USE OtaAssumption DEF LoaderInv
<1>1. /\ pc = "wipe" /\ bs.idx = 0 /\ bs.state = 0 /\ bs.type \in {"test", "revert"}
      /\ Quiet /\ bs \in Statuses
  BY DEF flash_area_erase, QuietInv, LoaderTyped
<1>2. ASSUME NEW s \in Dirty,
             aligned_write("secondary", s, "erased", Blank, "wipe", bs)
      PROVE  LoaderInv'
  <2>1. Blank = [Blank EXCEPT !.magic = "unset"]
    BY DEF Blank
  <2>2. /\ aligned_write("secondary", s, "erased", [Blank EXCEPT !.magic = "unset"],
                         "wipe", bs)
        /\ s \in 1..Sectors /\ "erased" \in Cells /\ "unset" \in Magics
    BY <1>2, <2>1 DEF Cells, Magics, Dirty
  <2>3. /\ UNCHANGED <<prim, scratch, tr, size, bs>>
        /\ slot' \in [1..Sectors -> Cells] /\ magic' \in Magics
        /\ pc' = "wipe"
    BY <2>2, WriteSecondary
  <2>5. LoaderTyped'
    BY <2>3 DEF LoaderTyped, LoaderAt
  <2>6. FlashInv' /\ Quiet'
    BY <1>1, <2>3, FlashQuiet
  <2>7. SwapInv' /\ RecordInv' /\ SectorInv' /\ MagicInv'
    BY <2>3 DEF SwapInv, Swapping, Steps, InitSteps, RecordInv, SectorInv, MagicInv
  <2>8. QuietInv'
    BY <1>1, <2>3, <2>6 DEF QuietInv, AgentAt
  <2> QED
    BY <2>5, <2>6, <2>7, <2>8
<1>3. CASE Dirty = {} /\ GoTo(NoSwap, Failed)
  <2>1. UNCHANGED <<prim, slot, scratch, magic, tr, size>> /\ pc' = NoSwap /\ bs' = Failed
    BY <1>3 DEF GoTo, flash
  <2>2. magic = "unset"
    BY <1>3 DEF Dirty
  <2>4. /\ bs'.idx = 0 /\ bs'.state = 0 /\ bs'.type = "fail" /\ bs' \in Statuses
        /\ pc' \in {"ok", "start"}
    BY <1>1, <2>1 DEF Failed, NoSwap, Statuses, Types
  <2>5. LoaderTyped'
    BY <2>1, <2>4 DEF LoaderTyped, LoaderAt
  <2>6. FlashInv' /\ Quiet'
    BY <1>1, <2>1, FlashQuiet
  <2>7. SwapInv' /\ RecordInv' /\ SectorInv' /\ MagicInv'
    BY <2>1, <2>2, <2>4
    DEF SwapInv, Swapping, Steps, InitSteps, RecordInv, SectorInv, MagicInv
  <2>8. QuietInv'
    BY <2>4, <2>6 DEF QuietInv, AgentAt
  <2> QED
    BY <2>5, <2>6, <2>7, <2>8
<1> QED
  BY <1>2, <1>3 DEF flash_area_erase

(* A swap is resumed. *)
LEMMA SwapRun ==
  ASSUME LoaderInv, swap_run
  PROVE  LoaderInv'
<1> USE OtaAssumption DEF LoaderInv
<1>1. UNCHANGED <<prim, slot, scratch, magic, tr, size, bs>> /\ pc = "resume"
  BY DEF swap_run, GoTo, flash
<1>2. /\ bs.type \in {"test", "revert"} /\ Underway(bs.idx, bs.state, bs.size)
      /\ IF use_scratch THEN Recorded(tr.scratch) ELSE InPrimary
  BY <1>1 DEF SwapInv, Swapping, RecordInv
<1>3. /\ bs.idx \in Nat /\ bs.state \in 0..2 /\ CountOf(bs.size) \in Nat
      /\ bs.idx <= CountOf(bs.size) /\ (bs.state > 0 => bs.idx < CountOf(bs.size))
  BY <1>2, Fields DEF Underway
<1>4. pc' = CASE bs.state = 0 -> Turn(bs) [] bs.state = 1 -> "erase1" [] OTHER -> "erase2"
  BY DEF swap_run, GoTo
<1>5. bs.idx + bs.state > 0
  BY <1>1 DEF QuietInv
<1>6. /\ pc' \in {"swap", "ok", "done", "erase1", "erase2"}
      /\ pc' \in {"swap", "ok", "done"} => bs.state = 0 /\ bs.idx > 0 /\ magic = "unset"
      /\ pc' = "erase1" => bs.state = 1
      /\ pc' = "erase2" => bs.state = 2
      /\ pc' \in {"swap", "erase1", "erase2"} => bs.idx < Count
      /\ pc' \in {"ok", "done"} => bs.idx = Count
  BY <1>2, <1>3, <1>4, <1>5 DEF Turn, Count, Underway
<1>7. LoaderTyped'
  BY <1>1, <1>6 DEF LoaderTyped, LoaderAt
<1>8. SwapInv'
  BY <1>1, <1>2, <1>6 DEF SwapInv, Swapping, Steps, InitSteps, Underway, Count
<1>9. RecordInv'
  BY <1>1, <1>2, <1>3, <1>6
  DEF RecordInv, InitSteps, InPrimary, Recorded, use_scratch, Count
<1>10. SectorInv' /\ MagicInv' /\ QuietInv'
  BY <1>1, <1>2, <1>3, <1>6 DEF SectorInv, InitSteps, MagicInv, QuietInv, AgentAt
<1> QED
  BY <1>1, <1>7, <1>8, <1>9, <1>10, FlashSame

(* What a write to the scratch area changes. *)
LEMMA WriteScratch ==
  ASSUME LoaderTyped, "torn" \notin use,
         NEW c \in Cells, NEW t \in Trailers, NEW l, NEW b,
         aligned_write("scratch", Sectors, c, t, l, b)
  PROVE  /\ scratch' = c /\ scratch' \in Cells
         /\ tr'.scratch = t /\ tr'.primary = tr.primary
         /\ tr' \in [{"primary", "scratch"} -> Trailers]
         /\ UNCHANGED <<prim, slot, magic, size>>
         /\ pc' = l /\ bs' = b
  BY DEF aligned_write, Put, Fault, LoaderTyped

(* What a write to the primary slot changes. *)
LEMMA WritePrimary ==
  ASSUME LoaderTyped, "torn" \notin use,
         NEW s \in 1..Sectors, NEW c \in Cells, NEW t \in Trailers, NEW l, NEW b,
         aligned_write("primary", s, c, t, l, b)
  PROVE  /\ prim' = [prim EXCEPT ![s] = c] /\ prim' \in [1..Sectors -> Cells]
         /\ tr'.primary = (IF s = Sectors THEN t ELSE tr.primary)
         /\ tr'.scratch = tr.scratch
         /\ tr' \in [{"primary", "scratch"} -> Trailers]
         /\ UNCHANGED <<slot, scratch, magic, size>>
         /\ pc' = l /\ bs' = b
  BY DEF aligned_write, Put, Fault, LoaderTyped

(* The sector that is moved is one of the slot. *)
LEMMA SectorIn ==
  ASSUME LoaderInv, pc \in Steps
  PROVE  /\ Sector \in 1..Sectors
         /\ bs.idx \in Nat /\ bs.state \in 0..2 /\ bs.size \in 1..(2 * Sectors - 1)
         /\ CountOf(bs.size) \in 1..Sectors /\ bs.idx < CountOf(bs.size)
         /\ Moving(prim, slot, scratch, size, bs.idx, bs.state, bs.size)
         /\ (bs.idx > 0 \/ bs.state = 2) => magic = "unset"
         /\ bs.type \in {"test", "revert"}
         /\ bs \in Statuses
<1>1. /\ Underway(bs.idx, bs.state, bs.size) /\ bs.idx < Count
      /\ bs.type \in {"test", "revert"} /\ bs \in Statuses
  BY DEF LoaderInv, SwapInv, Swapping, LoaderTyped
<1>2. bs.idx \in Nat /\ bs.state \in 0..2 /\ bs.size \in 1..(2 * Sectors - 1)
  BY <1>1, Fields DEF LoaderInv, Underway
<1> DEFINE n == CountOf(bs.size)
<1>3. n \in Nat /\ 2 * n \in {bs.size, bs.size + 1}
  BY <1>2, CountFact
<1>4. bs.idx < n /\ Sector = n - bs.idx
  BY <1>1 DEF Count, Sector
<1> HIDE DEF n
<1>5. n \in 1..Sectors /\ Sector \in 1..Sectors
  BY <1>2, <1>3, <1>4, OtaAssumption
<1> QED
  BY <1>1, <1>2, <1>4, <1>5 DEF n, Underway

(* State 0 of a sector. *)
LEMMA SwapSectors0 ==
  ASSUME LoaderInv, "torn" \notin use, boot_swap_sectors_0
  PROVE  LoaderInv'
<1> USE OtaAssumption DEF LoaderInv
<1>0. pc \in {"swap", "clear0", "copy0"}
  BY DEF boot_swap_sectors_0
<1>1. /\ Sector \in 1..Sectors
      /\ bs.idx \in Nat /\ bs.state = 0 /\ bs.size \in 1..(2 * Sectors - 1)
      /\ CountOf(bs.size) \in 1..Sectors /\ bs.idx < CountOf(bs.size)
      /\ Moving(prim, slot, scratch, size, bs.idx, 0, bs.size)
      /\ bs.idx > 0 => magic = "unset"
      /\ bs.type \in {"test", "revert"}
      /\ bs \in Statuses
  BY <1>0, SectorIn DEF Steps, SwapInv
<1>2. "erased" \in Cells /\ Blank \in Trailers /\ Sectors \in 1..Sectors
  BY DEF Cells, Blank, Trailers
<1>3. CASE pc = "swap"
  <2> DEFINE b == [bs EXCEPT !.on = "scratch"]
  <2> DEFINE l == IF bs.idx = 0 THEN "info" ELSE "copy0"
  <2>1. aligned_write("scratch", Sectors, "erased", Blank, l, b)
    BY <1>3 DEF boot_swap_sectors_0
  <2> HIDE DEF b, l
  <2>2. /\ scratch' \in Cells /\ tr'.scratch = Blank /\ tr'.primary = tr.primary
        /\ tr' \in [{"primary", "scratch"} -> Trailers]
        /\ UNCHANGED <<prim, slot, magic, size>> /\ pc' = l /\ bs' = b
    BY <1>2, <2>1, WriteScratch
  <2>3. /\ bs' \in Statuses /\ bs'.idx = bs.idx /\ bs'.state = 0 /\ bs'.size = bs.size
        /\ bs'.type = bs.type /\ bs'.on = "scratch"
        /\ pc' = IF bs.idx = 0 THEN "info" ELSE "copy0"
    BY <1>1, <2>2 DEF b, l, Statuses
  <2>4. Moving(prim', slot', scratch', size', bs'.idx, bs'.state, bs'.size)
    BY <1>1, <2>2, <2>3, MovesAt0
  <2>5. LoaderTyped'
    BY <2>2, <2>3 DEF LoaderTyped, LoaderAt
  <2>6. /\ bs.idx = 0 => tr.primary.done \/ Fresh(tr.primary)
        /\ bs.idx = 0 => Whole(prim, size)
        /\ bs.idx > 0 => InPrimary /\ ~use_scratch
    BY <1>1, <1>3 DEF RecordInv, FlashInv, Quiet, swap_status_source, Fresh, use_scratch
  <2>7. Blank.magic = "unset" /\ Blank.idx = 0 /\ Blank.state = 0 /\ ~Blank.done
    BY DEF Blank
  <2>8. FlashInv'
    <3>1. CASE bs.idx = 0
      BY <2>2, <2>6, <2>7, <3>1 DEF FlashInv, Quiet, swap_status_source, Fresh
    <3>2. CASE bs.idx > 0
      <4>1. /\ swap_status_source' = "primary" /\ tr'.primary.idx = bs.idx
            /\ tr'.primary.state = 0 /\ tr'.primary.size = bs.size
            /\ tr'.primary.magic = "good" /\ tr'.primary.info = bs.type
            /\ tr'.scratch.magic # "good"
        BY <1>1, <2>2, <2>6, <2>7, <3>2 DEF InPrimary, Recorded, swap_status_source
      <4>2. ~Quiet'
        BY <3>2, <4>1 DEF Quiet, Fresh
      <4> QED
        BY <1>1, <2>2, <2>3, <2>4, <3>2, <4>1, <4>2 DEF FlashInv, Underway
    <3> QED
      BY <1>1, <3>1, <3>2
  <2>9. SwapInv'
    BY <1>1, <2>2, <2>3, <2>4 DEF SwapInv, Swapping, Steps, InitSteps, Underway, Count
  <2>10. RecordInv'
    BY <1>1, <2>2, <2>3, <2>6, <2>7
    DEF RecordInv, InitSteps, InPrimary, Recorded, Begun, Fresh, use_scratch
  <2>11. SectorInv'
    BY <1>1, <1>3, <2>2, <2>3 DEF SectorInv, InitSteps
  <2>12. MagicInv' /\ QuietInv'
    BY <2>2, <2>3 DEF MagicInv, QuietInv, AgentAt
  <2> QED
    BY <2>5, <2>8, <2>9, <2>10, <2>11, <2>12
<1>4. CASE pc = "clear0"
  <2> DEFINE b == [bs EXCEPT !.on = "primary"]
  <2>1. aligned_write("primary", Sectors, "erased", Blank, "info", b)
    BY <1>4 DEF boot_swap_sectors_0
  <2> HIDE DEF b
  <2>2. /\ prim' = [prim EXCEPT ![Sectors] = "erased"] /\ prim' \in [1..Sectors -> Cells]
        /\ tr'.scratch = tr.scratch /\ tr'.primary = Blank
        /\ tr' \in [{"primary", "scratch"} -> Trailers]
        /\ UNCHANGED <<slot, scratch, magic, size>> /\ pc' = "info" /\ bs' = b
    BY <1>2, <2>1, WritePrimary
  <2>3. /\ bs' \in Statuses /\ bs'.idx = bs.idx /\ bs'.state = 0 /\ bs'.size = bs.size
        /\ bs'.type = bs.type /\ bs'.on = "primary"
    BY <1>1, <2>2 DEF b, Statuses
  <2>4. bs.idx = 0 /\ CountOf(bs.size) # Sectors /\ Recorded(tr.scratch)
        /\ size[prim[1]] <= bs.size
    BY <1>1, <1>4 DEF SwapInv, RecordInv, SectorInv, use_scratch, Count
  <2>5. Moving(prim', slot', scratch', size', bs'.idx, bs'.state, bs'.size)
    BY <1>1, <2>2, <2>3, <2>4, MovesFirst
  <2>6. LoaderTyped'
    BY <2>2, <2>3 DEF LoaderTyped, LoaderAt
  <2>7. Blank.magic = "unset" /\ Blank.idx = 0 /\ Blank.state = 0 /\ ~Blank.done
    BY DEF Blank
  <2>8. Whole(prim, size)
    BY <1>1, <2>4 DEF FlashInv, Quiet, swap_status_source, Recorded, Fresh
  <2>9. Whole(prim', size')
    <3>1. /\ CountOf(bs.size) < Sectors /\ bs.size \in Nat
          /\ prim \in [1..Sectors -> Cells] /\ size \in [Images -> Nat]
      BY <1>1, <2>4 DEF LoaderTyped
    <3>2. Whole([prim EXCEPT ![Sectors] = "erased"], size)
      BY <2>4, <2>8, <3>1, WholeBut
    <3> QED
      BY <2>2, <3>2
  <2>10. FlashInv'
    BY <1>1, <2>2, <2>4, <2>7, <2>9
    DEF FlashInv, Quiet, swap_status_source, Fresh, Recorded
  <2>11. SwapInv'
    BY <1>1, <2>2, <2>3, <2>4, <2>5
    DEF SwapInv, Swapping, Steps, InitSteps, Underway, Count
  <2>12. RecordInv'
    BY <1>1, <2>2, <2>3, <2>4, <2>7
    DEF RecordInv, InitSteps, Recorded, Begun, Fresh, use_scratch, Count
  <2>13. SectorInv'
    <3>1. prim'[1] = prim[1]
      BY <2>2 DEF LoaderTyped
    <3> QED
      BY <2>2, <2>3, <2>4, <3>1 DEF SectorInv, InitSteps
  <2>14. MagicInv' /\ QuietInv'
    BY <2>2, <2>3 DEF MagicInv, QuietInv, AgentAt
  <2> QED
    BY <2>6, <2>10, <2>11, <2>12, <2>13, <2>14
<1>5. CASE pc = "copy0"
  <2>1. aligned_write("scratch", Sectors, slot[Sector], tr.scratch, "status", bs)
    BY <1>5 DEF boot_swap_sectors_0
  <2>2. slot[Sector] \in Cells /\ tr.scratch \in Trailers
    BY <1>1 DEF LoaderTyped
  <2>3. /\ scratch' = slot[Sector] /\ scratch' \in Cells
        /\ tr'.scratch = tr.scratch /\ tr'.primary = tr.primary
        /\ tr' \in [{"primary", "scratch"} -> Trailers]
        /\ UNCHANGED <<prim, slot, magic, size>> /\ pc' = "status" /\ bs' = bs
    BY <2>1, <2>2, WriteScratch
  <2>4. Moving(prim', slot', scratch', size', bs'.idx, bs'.state, bs'.size)
    BY <1>1, <2>3, MovesAt0
  <2>5. IF use_scratch THEN Recorded(tr.scratch) ELSE InPrimary
    BY <1>5 DEF RecordInv
  <2>6. LoaderTyped'
    BY <2>3 DEF LoaderTyped, LoaderAt
  <2>7. FlashInv'
    BY <1>1, <2>3, <2>4, <2>5
    DEF FlashInv, Underway, Quiet, swap_status_source, Fresh, InPrimary, Recorded
  <2>8. SwapInv'
    BY <1>1, <2>3, <2>4 DEF SwapInv, Swapping, Steps, InitSteps, Underway, Count
  <2>9. RecordInv'
    BY <1>1, <2>3, <2>5
    DEF RecordInv, InitSteps, InPrimary, Recorded, use_scratch, Count
  <2>10. SectorInv'
    BY <1>1, <2>3 DEF SectorInv, InitSteps, Sector, Count
  <2>11. MagicInv' /\ QuietInv'
    BY <1>1, <2>3 DEF MagicInv, QuietInv, AgentAt
  <2> QED
    BY <2>6, <2>7, <2>8, <2>9, <2>10, <2>11
<1> QED
  BY <1>0, <1>3, <1>4, <1>5

(* What a write to a trailer changes. *)
LEMMA WriteTrailer ==
  ASSUME LoaderTyped, "torn" \notin use,
         NEW a \in {"primary", "scratch"}, NEW t \in Trailers, NEW l, NEW b,
         boot_write_trailer(a, t, l, b)
  PROVE  /\ tr' = [tr EXCEPT ![a] = t] /\ tr' \in [{"primary", "scratch"} -> Trailers]
         /\ UNCHANGED <<prim, slot, scratch, magic, size>>
         /\ pc' = l /\ bs' = b
<1>1. tr' = [tr EXCEPT ![a] = t] /\ pc' = l /\ bs' = b /\ UNCHANGED <<slot, magic, size>>
  BY DEF boot_write_trailer, aligned_write, Put, Fault
<1>2. UNCHANGED <<prim, scratch>>
  BY OtaAssumption DEF boot_write_trailer, aligned_write, Put, Fault, LoaderTyped
<1>3. tr' \in [{"primary", "scratch"} -> Trailers]
  BY <1>1 DEF LoaderTyped
<1> QED
  BY <1>1, <1>2, <1>3

(* While the status is in the scratch area, the trailer of the primary     *)
(* slot may change.                                                        *)
LEMMA FlashInScratch ==
  ASSUME FlashInv, tr.scratch.magic = "good", tr'.scratch = tr.scratch,
         Fresh(tr.scratch) => tr'.primary.done \/ Fresh(tr'.primary),
         UNCHANGED <<prim, slot, scratch, magic, size>>
  PROVE  FlashInv'
  BY DEF FlashInv, Underway, Quiet, swap_status_source, Fresh

(* The trailer for a new status is written. *)
LEMMA StatusInit ==
  ASSUME LoaderInv, "torn" \notin use, swap_status_init
  PROVE  LoaderInv'
<1> USE OtaAssumption DEF LoaderInv
<1>0. pc \in InitSteps
  BY DEF swap_status_init, InitSteps
<1>1. /\ Sector \in 1..Sectors
      /\ bs.idx \in Nat /\ bs.state \in 0..2 /\ bs.size \in 1..(2 * Sectors - 1)
      /\ CountOf(bs.size) \in 1..Sectors /\ bs.idx < CountOf(bs.size)
      /\ Moving(prim, slot, scratch, size, bs.idx, bs.state, bs.size)
      /\ (bs.idx > 0 \/ bs.state = 2) => magic = "unset"
      /\ bs.type \in {"test", "revert"}
      /\ bs \in Statuses
  BY <1>0, SectorIn DEF Steps, InitSteps
<1>2. bs.on \in {"primary", "scratch"} /\ tr[bs.on] \in Trailers
  BY <1>1 DEF Statuses, LoaderTyped
<1>3. \/ bs.idx = 0 /\ bs.state = 0
      \/ use_scratch /\ bs.state = 2 /\ bs.on = "primary"
  BY <1>0 DEF SwapInv
<1> DEFINE t == tr[bs.on]
           u == [t EXCEPT !.info = IF pc = "info" THEN bs.type ELSE t.info,
                          !.size = IF pc = "size" THEN bs.size ELSE t.size,
                          !.magic = IF pc = "magic" THEN "good" ELSE t.magic]
           l == IF pc = "info" THEN "size" ELSE IF pc = "size" THEN "magic"
                ELSE IF bs.state = 2 THEN "status"
                ELSE IF bs.on = "primary" THEN "unscratch"
                ELSE IF use_scratch THEN "copy0" ELSE "clear0"
<1>4. u \in Trailers /\ boot_write_trailer(bs.on, u, l, bs)
  <2>1. CASE pc = "info"
    <3>1. u = [t EXCEPT !.info = bs.type]
      BY <1>2, <2>1 DEF Trailers
    <3> QED
      BY <1>1, <1>2, <2>1, <3>1 DEF swap_status_init, Trailers
  <2>2. CASE pc = "size"
    <3>1. u = [t EXCEPT !.size = bs.size]
      BY <1>2, <2>2 DEF Trailers
    <3> QED
      BY <1>1, <1>2, <2>2, <3>1 DEF swap_status_init, Trailers
  <2>3. CASE pc = "magic"
    <3>1. u = [t EXCEPT !.magic = "good"]
      BY <1>2, <2>3 DEF Trailers
    <3>2. u \in Trailers
      BY <1>1, <1>2, <3>1 DEF Trailers
    <3>3. l = CASE bs.state = 2 -> "status"
                [] bs.state # 2 /\ bs.on = "primary" -> "unscratch"
                [] bs.state # 2 /\ bs.on = "scratch" ->
                     IF use_scratch THEN "copy0" ELSE "clear0"
      BY <1>2, <2>3
    <3> QED
      BY <2>3, <3>1, <3>2, <3>3 DEF swap_status_init
  <2> QED
    BY <1>0, <2>1, <2>2, <2>3 DEF InitSteps
<1>5. /\ u.idx = t.idx /\ u.state = t.state /\ u.done = t.done
      /\ u.info = (IF pc = "info" THEN bs.type ELSE t.info)
      /\ u.size = (IF pc = "size" THEN bs.size ELSE t.size)
      /\ u.magic = (IF pc = "magic" THEN "good" ELSE t.magic)
  BY <1>2 DEF Trailers
<1> HIDE DEF u, l
<1>6. /\ tr' = [tr EXCEPT ![bs.on] = u] /\ tr' \in [{"primary", "scratch"} -> Trailers]
      /\ UNCHANGED <<prim, slot, scratch, magic, size>>
      /\ pc' = l /\ bs' = bs
  BY <1>2, <1>4, WriteTrailer
<1>7. LoaderTyped'
  BY <1>6 DEF LoaderTyped, LoaderAt, l
<1>8. Moving(prim', slot', scratch', size', bs'.idx, bs'.state, bs'.size)
  BY <1>1, <1>6
<1>9. SwapInv'
  BY <1>0, <1>1, <1>3, <1>6, <1>8
  DEF SwapInv, Swapping, Steps, Underway, Count, use_scratch, l
<1>10. SectorInv'
  BY <1>0, <1>1, <1>3, <1>6 DEF SectorInv, InitSteps, Sector, Count, l
<1>11. MagicInv' /\ QuietInv'
  BY <1>0, <1>1, <1>3, <1>6 DEF MagicInv, QuietInv, AgentAt, l
<1>12. FlashInv' /\ RecordInv'
  <2>1. CASE bs.state = 2
    <3>1. /\ bs.on = "primary" /\ use_scratch /\ Recorded(tr.scratch) /\ Begun(tr.primary)
          /\ tr.primary.idx = 0 /\ tr.primary.state = 2
      BY <1>0, <1>3, <2>1 DEF RecordInv
    <3>2. tr'.primary = u /\ tr'.scratch = tr.scratch
      BY <1>6, <3>1 DEF LoaderTyped
    <3>3. FlashInv'
      BY <1>6, <2>1, <3>1, <3>2, FlashInScratch DEF Recorded, Fresh
    <3>4. RecordInv'
      BY <1>0, <1>5, <1>6, <2>1, <3>1, <3>2
      DEF RecordInv, InitSteps, Recorded, Begun, use_scratch, Count, l
    <3> QED
      BY <3>3, <3>4
  <2>2. CASE bs.state = 0 /\ bs.on = "primary"
    <3>1. /\ bs.idx = 0 /\ ~use_scratch /\ Recorded(tr.scratch) /\ Begun(tr.primary)
          /\ Fresh(tr.primary)
      BY <1>0, <1>3, <2>2 DEF RecordInv
    <3>2. tr'.primary = u /\ tr'.scratch = tr.scratch
      BY <1>6, <2>2 DEF LoaderTyped
    <3>3. FlashInv'
      BY <1>5, <1>6, <2>2, <3>1, <3>2, FlashInScratch DEF Recorded, Fresh
    <3>4. RecordInv'
      BY <1>0, <1>5, <1>6, <2>2, <3>1, <3>2
      DEF RecordInv, InitSteps, Recorded, Begun, Fresh, use_scratch, Count, l
    <3> QED
      BY <3>3, <3>4
  <2>3. CASE bs.state = 0 /\ bs.on = "scratch"
    <3>1. /\ bs.idx = 0 /\ Begun(tr.scratch) /\ Fresh(tr.scratch)
          /\ tr.primary.done \/ Fresh(tr.primary)
      BY <1>0, <1>3, <2>3 DEF RecordInv
    <3>2. tr'.primary = tr.primary /\ tr'.scratch = u
      BY <1>6, <2>3 DEF LoaderTyped
    <3>3. Whole(prim, size)
      BY <3>1 DEF FlashInv, Quiet, swap_status_source, Begun
    <3>4. FlashInv'
      BY <1>5, <1>6, <2>3, <3>1, <3>2, <3>3
      DEF FlashInv, Quiet, swap_status_source, Fresh
    <3>5. RecordInv'
      BY <1>0, <1>5, <1>6, <2>3, <3>1, <3>2
      DEF RecordInv, InitSteps, Recorded, Begun, Fresh, use_scratch, Count, l
    <3> QED
      BY <3>4, <3>5
  <2> QED
    BY <1>2, <1>3, <2>1, <2>2, <2>3
<1> QED
  BY <1>7, <1>9, <1>10, <1>11, <1>12

(* A write to the secondary slot in state 1. *)
LEMMA SecondaryStep ==
  ASSUME LoaderInv, pc \in {"erase1", "copy1", "clear1"},
         NEW s \in {Sector, Sectors}, NEW c,
         slot' = [slot EXCEPT ![s] = c], slot' \in [1..Sectors -> Cells],
         magic' \in Magics, magic = "unset" => magic' = "unset",
         UNCHANGED <<prim, scratch, tr, size, bs>>,
         pc' \in {"copy1", "clear1", "status"},
         pc' = "copy1" /\ use_scratch => magic' = "unset",
         pc' = "status" => magic' = "unset",
         pc' = "clear1" => bs.idx = 0 /\ ~use_scratch
  PROVE  LoaderInv'
<1> USE OtaAssumption DEF LoaderInv
<1>1. /\ Sector \in 1..Sectors
      /\ bs.idx \in Nat /\ bs.state = 1 /\ bs.size \in 1..(2 * Sectors - 1)
      /\ CountOf(bs.size) \in 1..Sectors /\ bs.idx < CountOf(bs.size)
      /\ Moving(prim, slot, scratch, size, bs.idx, 1, bs.size)
      /\ bs.idx > 0 => magic = "unset"
      /\ bs.type \in {"test", "revert"}
  BY SectorIn DEF Steps, SwapInv
<1>2. Moving(prim', slot', scratch', size', bs'.idx, bs'.state, bs'.size)
  <2>1. \A r \in 1..Sectors : r + bs.idx < CountOf(bs.size) => slot'[r] = slot[r]
    BY <1>1 DEF Sector, Count, LoaderTyped
  <2>2. bs.size \in Nat /\ 1 \in {1, 2}
    BY <1>1
  <2>3. Moving(prim, slot', scratch, size, bs.idx, 1, bs.size)
    BY <1>1, <2>1, <2>2, MovesAt1
  <2> QED
    BY <1>1, <2>3
<1>3. IF use_scratch THEN Recorded(tr.scratch) ELSE InPrimary
  BY DEF RecordInv
<1>4. LoaderTyped'
  BY DEF LoaderTyped, LoaderAt
<1>5. FlashInv'
  BY <1>1, <1>2, <1>3
  DEF FlashInv, Underway, Quiet, swap_status_source, Fresh, InPrimary, Recorded
<1>6. SwapInv'
  BY <1>1, <1>2 DEF SwapInv, Swapping, Steps, InitSteps, Underway, Count, use_scratch
<1>7. RecordInv'
  BY <1>1, <1>3 DEF RecordInv, InitSteps, InPrimary, Recorded, use_scratch, Count
<1>8. SectorInv' /\ MagicInv' /\ QuietInv'
  BY <1>1 DEF SectorInv, InitSteps, MagicInv, use_scratch, Count, QuietInv, AgentAt
<1> QED
  BY <1>4, <1>5, <1>6, <1>7, <1>8

(* State 1 of a sector. *)
LEMMA SwapSectors1 ==
  ASSUME LoaderInv, "torn" \notin use, boot_swap_sectors_1
  PROVE  LoaderInv'
<1> USE OtaAssumption DEF LoaderInv
<1>0. pc \in {"erase1", "copy1", "clear1"}
  BY DEF boot_swap_sectors_1
<1>1. /\ Sector \in 1..Sectors /\ Sectors \in 1..Sectors /\ bs.state = 1
      /\ bs.idx \in Nat /\ Count \in 1..Sectors
      /\ bs.idx > 0 => magic = "unset"
  BY <1>0, SectorIn DEF Steps, SwapInv, Count
<1>2. /\ "erased" \in Cells /\ "unset" \in Magics /\ magic \in Magics
      /\ prim[Sector] \in Cells /\ Blank = [Blank EXCEPT !.magic = "unset"]
  BY <1>1 DEF Cells, Magics, LoaderTyped, Blank
<1>3. use_scratch <=> Sector = Sectors
  BY <1>1 DEF use_scratch, Sector
<1>4. CASE pc = "erase1"
  <2>1. aligned_write("secondary", Sector, "erased", [Blank EXCEPT !.magic = "unset"],
                      "copy1", bs)
    BY <1>2, <1>4 DEF boot_swap_sectors_1
  <2>2. /\ slot' = [slot EXCEPT ![Sector] = "erased"] /\ slot' \in [1..Sectors -> Cells]
        /\ magic' = (IF Sector = Sectors THEN "unset" ELSE magic) /\ magic' \in Magics
        /\ UNCHANGED <<prim, scratch, tr, size, bs>> /\ pc' = "copy1"
    BY <1>1, <1>2, <2>1, WriteSecondary
  <2> QED
    BY <1>0, <1>3, <2>2, SecondaryStep
<1>5. CASE pc = "copy1"
  <2> DEFINE l == IF bs.idx = 0 /\ ~use_scratch THEN "clear1" ELSE "status"
  <2>1. aligned_write("secondary", Sector, prim[Sector], [Blank EXCEPT !.magic = magic],
                      l, bs)
    BY <1>5 DEF boot_swap_sectors_1
  <2> HIDE DEF l
  <2>2. /\ slot' = [slot EXCEPT ![Sector] = prim[Sector]]
        /\ slot' \in [1..Sectors -> Cells]
        /\ magic' = magic
        /\ UNCHANGED <<prim, scratch, tr, size, bs>> /\ pc' = l
    BY <1>1, <1>2, <2>1, WriteSecondary
  <2>3. /\ pc' \in {"clear1", "status"}
        /\ pc' = "status" => magic = "unset"
        /\ pc' = "clear1" => bs.idx = 0 /\ ~use_scratch
    BY <1>1, <1>5, <2>2 DEF l, MagicInv
  <2> QED
    BY <1>0, <1>2, <2>2, <2>3, SecondaryStep
<1>6. CASE pc = "clear1"
  <2>1. aligned_write("secondary", Sectors, "erased", [Blank EXCEPT !.magic = "unset"],
                      "status", bs)
    BY <1>2, <1>6 DEF boot_swap_sectors_1
  <2>2. /\ slot' = [slot EXCEPT ![Sectors] = "erased"] /\ slot' \in [1..Sectors -> Cells]
        /\ magic' = "unset"
        /\ UNCHANGED <<prim, scratch, tr, size, bs>> /\ pc' = "status"
    BY <1>1, <1>2, <2>1, WriteSecondary
  <2> QED
    BY <1>0, <1>2, <2>2, SecondaryStep
<1> QED
  BY <1>0, <1>4, <1>5, <1>6

(* State 2 of a sector. *)
LEMMA SwapSectors2 ==
  ASSUME LoaderInv, "torn" \notin use, boot_swap_sectors_2
  PROVE  LoaderInv'
<1> USE OtaAssumption DEF LoaderInv
<1>0. pc \in {"erase2", "copy2", "bytes"}
  BY DEF boot_swap_sectors_2
<1>1. /\ Sector \in 1..Sectors /\ Sectors \in 1..Sectors
      /\ bs.idx \in Nat /\ bs.state = 2 /\ bs.size \in 1..(2 * Sectors - 1)
      /\ CountOf(bs.size) \in 1..Sectors /\ bs.idx < CountOf(bs.size)
      /\ Moving(prim, slot, scratch, size, bs.idx, 2, bs.size)
      /\ magic = "unset"
      /\ bs.type \in {"test", "revert"} /\ bs \in Statuses
  BY <1>0, SectorIn DEF Steps, SwapInv
<1>2. /\ "erased" \in Cells /\ Blank \in Trailers /\ scratch \in Cells
      /\ tr.primary \in Trailers /\ tr.scratch \in Trailers
  BY DEF Cells, LoaderTyped, Blank, Trailers
<1>3. use_scratch <=> Sector = Sectors
  BY <1>1 DEF use_scratch, Sector, Count
<1>4. IF use_scratch THEN Recorded(tr.scratch) ELSE InPrimary
  BY <1>0 DEF RecordInv
<1>5. ASSUME NEW c,
             prim' = [prim EXCEPT ![Sector] = c], UNCHANGED <<slot, scratch, size, bs>>
      PROVE  Moving(prim', slot', scratch', size', bs'.idx, bs'.state, bs'.size)
  <2>1. \A r \in 1..Sectors : r + bs.idx > CountOf(bs.size) => prim'[r] = prim[r]
    BY <1>1, <1>5 DEF Sector, Count, LoaderTyped
  <2>2. bs.size \in Nat /\ 2 \in {0, 1, 2}
    BY <1>1
  <2>3. Moving(prim', slot, scratch, size, bs.idx, 2, bs.size)
    BY <1>1, <2>1, <2>2, MovesAt2
  <2> QED
    BY <1>1, <1>5, <2>3
<1>6. CASE pc = "erase2"
  <2>1. aligned_write("primary", Sector, "erased", Blank, "copy2", bs)
    BY <1>6 DEF boot_swap_sectors_2
  <2>2. /\ prim' = [prim EXCEPT ![Sector] = "erased"] /\ prim' \in [1..Sectors -> Cells]
        /\ tr'.primary = (IF Sector = Sectors THEN Blank ELSE tr.primary)
        /\ tr'.scratch = tr.scratch
        /\ tr' \in [{"primary", "scratch"} -> Trailers]
        /\ UNCHANGED <<slot, scratch, magic, size, bs>> /\ pc' = "copy2"
    BY <1>1, <1>2, <2>1, WritePrimary
  <2>3. Moving(prim', slot', scratch', size', bs'.idx, bs'.state, bs'.size)
    BY <1>5, <2>2
  <2>4. Blank.magic = "unset" /\ ~Blank.done
    BY DEF Blank
  <2>5. LoaderTyped'
    BY <2>2 DEF LoaderTyped, LoaderAt
  <2>6. FlashInv'
    BY <1>1, <1>3, <1>4, <2>2, <2>3
    DEF FlashInv, Underway, Quiet, swap_status_source, Fresh, InPrimary, Recorded
  <2>7. SwapInv'
    BY <1>1, <2>2, <2>3 DEF SwapInv, Swapping, Steps, InitSteps, Underway, Count
  <2>8. RecordInv'
    BY <1>1, <1>3, <1>4, <2>2, <2>4
    DEF RecordInv, InitSteps, InPrimary, Recorded, use_scratch, Count
  <2>9. SectorInv' /\ MagicInv' /\ QuietInv'
    BY <1>1, <2>2 DEF SectorInv, InitSteps, MagicInv, QuietInv, AgentAt
  <2> QED
    BY <2>5, <2>6, <2>7, <2>8, <2>9
<1>7. CASE pc = "copy2"
  <2> DEFINE l == IF use_scratch THEN "bytes" ELSE "status"
  <2>1. aligned_write("primary", Sector, scratch, tr.primary, l, bs)
    BY <1>7 DEF boot_swap_sectors_2
  <2> HIDE DEF l
  <2>2. /\ prim' = [prim EXCEPT ![Sector] = scratch] /\ prim' \in [1..Sectors -> Cells]
        /\ tr'.primary = tr.primary
        /\ tr'.scratch = tr.scratch
        /\ tr' \in [{"primary", "scratch"} -> Trailers]
        /\ UNCHANGED <<slot, scratch, magic, size, bs>> /\ pc' = l
    BY <1>1, <1>2, <2>1, WritePrimary
  <2>3. Moving(prim', slot', scratch', size', bs'.idx, bs'.state, bs'.size)
    BY <1>5, <2>2
  <2>4. pc' = (IF use_scratch THEN "bytes" ELSE "status")
    BY <2>2 DEF l
  <2>5. LoaderTyped'
    BY <2>2, <2>4 DEF LoaderTyped, LoaderAt
  <2>6. FlashInv'
    BY <1>1, <1>3, <1>4, <2>2, <2>3
    DEF FlashInv, Underway, Quiet, swap_status_source, Fresh, InPrimary, Recorded
  <2>7. SwapInv'
    BY <1>1, <2>2, <2>3, <2>4
    DEF SwapInv, Swapping, Steps, InitSteps, Underway, Count, use_scratch
  <2>8. RecordInv'
    BY <1>1, <1>4, <1>7, <2>2, <2>4
    DEF RecordInv, InitSteps, InPrimary, Recorded, use_scratch, Count
  <2>9. SectorInv'
    BY <1>1, <2>2, <2>4 DEF SectorInv, InitSteps, Sector, Count, LoaderTyped
  <2>10. MagicInv' /\ QuietInv'
    BY <1>1, <2>2, <2>4 DEF MagicInv, QuietInv, AgentAt
  <2> QED
    BY <2>5, <2>6, <2>7, <2>8, <2>9, <2>10
<1>8. CASE pc = "bytes"
  <2> DEFINE b == [bs EXCEPT !.on = "primary"]
             u == [tr.primary EXCEPT !.idx = tr.scratch.idx, !.state = tr.scratch.state]
  <2>1. boot_write_trailer("primary", u, "info", b)
    BY <1>8 DEF boot_swap_sectors_2
  <2>2. /\ u \in Trailers /\ u.idx = tr.scratch.idx /\ u.state = tr.scratch.state
        /\ u.magic = tr.primary.magic /\ u.done = tr.primary.done
    BY <1>2 DEF Trailers
  <2>3. /\ b \in Statuses /\ b.idx = bs.idx /\ b.state = 2 /\ b.size = bs.size
        /\ b.type = bs.type /\ b.on = "primary"
    BY <1>1 DEF Statuses
  <2> HIDE DEF b, u
  <2>4. /\ tr' = [tr EXCEPT !["primary"] = u]
        /\ tr' \in [{"primary", "scratch"} -> Trailers]
        /\ UNCHANGED <<prim, slot, scratch, magic, size>> /\ pc' = "info" /\ bs' = b
    BY <2>1, <2>2, WriteTrailer
  <2>5. tr'.primary = u /\ tr'.scratch = tr.scratch
    BY <2>4 DEF LoaderTyped
  <2>6. /\ use_scratch /\ Recorded(tr.scratch) /\ tr.primary.magic = "unset"
        /\ ~tr.primary.done /\ prim[Sector] = scratch
    BY <1>4, <1>8 DEF SwapInv, RecordInv, SectorInv
  <2>7. LoaderTyped'
    BY <2>3, <2>4 DEF LoaderTyped, LoaderAt
  <2>8. FlashInv'
    BY <1>1, <2>4, <2>5, <2>6, FlashInScratch DEF Recorded, Fresh
  <2>9. SwapInv'
    BY <1>1, <2>3, <2>4, <2>6
    DEF SwapInv, Swapping, Steps, InitSteps, Underway, Count, use_scratch
  <2>10. RecordInv'
    BY <1>1, <2>2, <2>3, <2>4, <2>5, <2>6
    DEF RecordInv, InitSteps, Recorded, Begun, use_scratch, Count
  <2>11. SectorInv'
    BY <1>1, <2>3, <2>4, <2>6 DEF SectorInv, InitSteps, Sector, Count
  <2>12. MagicInv' /\ QuietInv'
    BY <2>4 DEF MagicInv, QuietInv, AgentAt
  <2> QED
    BY <2>7, <2>8, <2>9, <2>10, <2>11, <2>12
<1> QED
  BY <1>0, <1>6, <1>7, <1>8

(* The trailer in the scratch area is erased. *)
LEMMA EraseScratch ==
  ASSUME LoaderInv, "torn" \notin use, boot_erase_scratch
  PROVE  LoaderInv'
<1> USE OtaAssumption DEF LoaderInv
<1>1. pc = "unscratch"
  BY DEF boot_erase_scratch
<1>2. /\ Recorded(tr.primary) /\ ~tr.primary.done /\ bs.state = 0
      /\ bs.idx = 0 => ~use_scratch /\ Recorded(tr.scratch)
      /\ bs.idx # 0 => bs.idx = 1 /\ bs.idx < Count
      /\ Underway(bs.idx, bs.state, bs.size) /\ bs.type \in {"test", "revert"}
  BY <1>1 DEF RecordInv, SwapInv, Swapping
<1>3. bs.idx \in {0, 1} /\ CountOf(bs.size) \in Nat /\ bs.idx < CountOf(bs.size)
  <2>1. bs.size \in 1..(2 * Sectors - 1) /\ bs.idx \in Nat
    BY <1>2, Fields DEF Underway
  <2>2. CountOf(bs.size) \in Nat /\ 2 * CountOf(bs.size) \in {bs.size, bs.size + 1}
    BY <2>1, CountFact
  <2>3. bs.idx <= CountOf(bs.size) /\ CountOf(bs.size) > 0
    BY <1>2, <2>1, <2>2 DEF Underway
  <2> QED
    BY <1>2, <2>1, <2>2, <2>3 DEF Count
<1> DEFINE l == IF bs.idx = 0 THEN "copy0" ELSE Turn(bs)
<1>4. aligned_write("scratch", Sectors, "erased", Blank, l, bs)
  BY DEF boot_erase_scratch
<1>5. l = (IF bs.idx = 0 THEN "copy0" ELSE "swap")
  BY <1>2 DEF Turn
<1>6. "erased" \in Cells /\ Blank \in Trailers /\ Blank.magic = "unset"
  BY DEF Cells, Blank, Trailers
<1> HIDE DEF l
<1>7. /\ scratch' \in Cells /\ tr'.scratch = Blank /\ tr'.primary = tr.primary
      /\ tr' \in [{"primary", "scratch"} -> Trailers]
      /\ UNCHANGED <<prim, slot, magic, size>> /\ pc' = l /\ bs' = bs
  BY <1>4, <1>6, WriteScratch
<1>8. Moving(prim', slot', scratch', size', bs'.idx, bs'.state, bs'.size)
  BY <1>2, <1>7, MovesAt0 DEF Underway
<1>9. LoaderTyped'
  BY <1>5, <1>7 DEF LoaderTyped, LoaderAt
<1>10. FlashInv'
  <2>1. swap_status_source' = "primary"
    BY <1>2, <1>6, <1>7 DEF swap_status_source
  <2>2. CASE bs.idx = 0
    <3>1. Whole(prim, size)
      BY <1>2, <2>2 DEF FlashInv, Quiet, swap_status_source, Fresh, Recorded
    <3> QED
      BY <1>2, <1>6, <1>7, <2>1, <2>2, <3>1 DEF FlashInv, Quiet, Fresh, Recorded
  <2>3. CASE bs.idx = 1
    BY <1>2, <1>6, <1>7, <1>8, <2>1, <2>3 DEF FlashInv, Quiet, Fresh, Recorded, Underway
  <2> QED
    BY <1>3, <2>2, <2>3
<1>11. SwapInv'
  BY <1>2, <1>3, <1>5, <1>7, <1>8
  DEF SwapInv, Swapping, Steps, InitSteps, Underway, Count
<1>12. RecordInv'
  BY <1>2, <1>3, <1>5, <1>6, <1>7
  DEF RecordInv, InitSteps, InPrimary, Recorded, use_scratch, Count
<1>13. SectorInv' /\ MagicInv' /\ QuietInv'
  BY <1>2, <1>5, <1>7 DEF SectorInv, InitSteps, MagicInv, QuietInv, AgentAt
<1> QED
  BY <1>9, <1>10, <1>11, <1>12, <1>13

(* The status is written. *)
LEMMA WriteStatus ==
  ASSUME LoaderInv, "torn" \notin use, boot_write_status
  PROVE  LoaderInv'
<1> USE OtaAssumption DEF LoaderInv
<1>0. pc = "status"
  BY DEF boot_write_status
<1>1. /\ Sector \in 1..Sectors
      /\ bs.idx \in Nat /\ bs.state \in 0..2 /\ bs.size \in 1..(2 * Sectors - 1)
      /\ CountOf(bs.size) \in 1..Sectors /\ bs.idx < CountOf(bs.size)
      /\ Moving(prim, slot, scratch, size, bs.idx, bs.state, bs.size)
      /\ (bs.idx > 0 \/ bs.state = 2) => magic = "unset"
      /\ bs.type \in {"test", "revert"}
      /\ bs \in Statuses
  BY <1>0, SectorIn DEF Steps
<1>2. IF use_scratch THEN Recorded(tr.scratch) ELSE InPrimary
  BY <1>0 DEF RecordInv
<1> DEFINE area == IF use_scratch /\ bs.state # 2 THEN "scratch" ELSE "primary"
           next == IF bs.state = 2 THEN [bs EXCEPT !.idx = bs.idx + 1, !.state = 0]
                                   ELSE [bs EXCEPT !.state = bs.state + 1]
           u == [tr[area] EXCEPT !.idx = next.idx, !.state = next.state]
           l == CASE bs.state = 0 -> "erase1"
                  [] bs.state = 1 -> "erase2"
                  [] OTHER -> IF use_scratch THEN "unscratch" ELSE Turn(next)
<1>3. boot_write_trailer(area, u, l, next)
  BY DEF boot_write_status
<1>4. /\ next \in Statuses /\ next.size = bs.size /\ next.type = bs.type
      /\ next.idx = (IF bs.state = 2 THEN bs.idx + 1 ELSE bs.idx)
      /\ next.state = (IF bs.state = 2 THEN 0 ELSE bs.state + 1)
  <2>1. CASE bs.state = 2
    <3>1. next = [bs EXCEPT !.idx = bs.idx + 1, !.state = 0] /\ bs.idx + 1 \in 0..Sectors
      BY <1>1, <2>1
    <3> HIDE DEF next
    <3>2. QED
      <4>1. next \in Statuses
        <5>1. PICK b \in Statuses : b = [bs EXCEPT !.idx = bs.idx + 1]
          BY <1>1, <3>1 DEF Statuses
        <5>2. next = [b EXCEPT !.state = 0]
          BY <1>1, <3>1, <5>1 DEF Statuses
        <5> QED
          BY <5>2 DEF Statuses
      <4>2. next.size = bs.size /\ next.type = bs.type /\ next.idx = bs.idx + 1
            /\ next.state = 0
        BY <1>1, <3>1 DEF Statuses
      <4> QED
        BY <2>1, <4>1, <4>2
  <2>2. CASE bs.state # 2
    <3>1. next = [bs EXCEPT !.state = bs.state + 1] /\ bs.state + 1 \in 0..2
      BY <1>1, <2>2
    <3> HIDE DEF next
    <3> QED
      BY <1>1, <2>2, <3>1 DEF Statuses
  <2> QED
    BY <2>1, <2>2
<1>5. area \in {"primary", "scratch"} /\ tr[area] \in Trailers
  BY DEF LoaderTyped
<1> DEFINE t == tr[area]
<1>6. /\ u \in Trailers /\ u.idx = next.idx /\ u.state = next.state
      /\ u.magic = t.magic /\ u.info = t.info /\ u.size = t.size /\ u.done = t.done
  <2> HIDE DEF next, area
  <2>1. next.idx \in 0..Sectors /\ next.state \in 0..2
    BY <1>4 DEF Statuses
  <2> QED
    BY <1>5, <2>1 DEF Trailers
<1>7. /\ l = (IF bs.state = 0 THEN "erase1" ELSE IF bs.state = 1 THEN "erase2"
              ELSE IF use_scratch THEN "unscratch" ELSE Turn(next))
  BY <1>1
<1> HIDE DEF next, u, l
<1>8. /\ tr' = [tr EXCEPT ![area] = u] /\ tr' \in [{"primary", "scratch"} -> Trailers]
      /\ UNCHANGED <<prim, slot, scratch, magic, size>> /\ pc' = l /\ bs' = next
  BY <1>3, <1>5, <1>6, WriteTrailer
<1>9. CASE bs.state \in {0, 1}
  <2>1. Moving(prim, slot, scratch, size, bs.idx, bs.state + 1, bs.size)
    <3>1. CASE bs.state = 0
      <4>1. scratch = slot[CountOf(bs.size) - bs.idx] /\ bs.size \in Nat
        BY <1>0, <1>1, <3>1 DEF SectorInv, Sector, Count
      <4> QED
        BY <1>1, <3>1, <4>1, Moves01
    <3>2. CASE bs.state = 1
      BY <1>1, <3>2, Moves12
    <3> QED
      BY <1>9, <3>1, <3>2
  <2>2. /\ bs'.idx = bs.idx /\ bs'.state = bs.state + 1 /\ bs'.size = bs.size
        /\ bs'.type = bs.type /\ bs' \in Statuses
        /\ pc' = (IF bs.state = 0 THEN "erase1" ELSE "erase2")
        /\ bs.state = 1 => magic = "unset"
    BY <1>0, <1>4, <1>7, <1>8, <1>9 DEF MagicInv
  <2>3. IF use_scratch THEN tr'.scratch = u /\ tr'.primary = tr.primary /\ t = tr.scratch
                       ELSE tr'.primary = u /\ tr'.scratch = tr.scratch /\ t = tr.primary
    BY <1>8, <1>9 DEF LoaderTyped
  <2>4. IF use_scratch THEN Recorded(tr.scratch)' ELSE InPrimary'
    BY <1>2, <1>4, <1>6, <1>8, <2>2, <2>3 DEF InPrimary, Recorded
  <2>5. use_scratch' = use_scratch /\ Count' = Count
    BY <2>2 DEF use_scratch, Count
  <2>6. LoaderTyped'
    BY <1>8, <2>2 DEF LoaderTyped, LoaderAt
  <2>7. bs'.state \in {1, 2}
    BY <1>9, <2>2
  <2>8. FlashInv'
    BY <1>1, <1>8, <1>9, <2>1, <2>2, <2>4, <2>5, <2>7
    DEF FlashInv, Underway, Quiet, swap_status_source, Fresh, InPrimary, Recorded,
        use_scratch, Count
  <2>9. SwapInv'
    BY <1>1, <1>8, <1>9, <2>1, <2>2
    DEF SwapInv, Swapping, Steps, InitSteps, Underway, Count
  <2>10. RecordInv'
    BY <1>9, <2>2, <2>4, <2>5 DEF RecordInv, InitSteps
  <2>11. SectorInv' /\ MagicInv' /\ QuietInv'
    BY <2>2, <1>9 DEF SectorInv, InitSteps, MagicInv, QuietInv, AgentAt
  <2> QED
    BY <2>6, <2>8, <2>9, <2>10, <2>11
<1>10. CASE bs.state = 2
  <2>1. Moving(prim, slot, scratch, size, bs.idx + 1, 0, bs.size)
    <3>1. prim[CountOf(bs.size) - bs.idx] = scratch /\ bs.size \in Nat
      BY <1>0, <1>1, <1>10 DEF SectorInv, Sector, Count
    <3> QED
      BY <1>1, <1>10, <3>1, Moves20
  <2>2. /\ bs'.idx = bs.idx + 1 /\ bs'.state = 0 /\ bs'.size = bs.size
        /\ bs'.type = bs.type /\ bs' \in Statuses /\ magic = "unset"
        /\ pc' = (IF use_scratch THEN "unscratch" ELSE Turn(next))
    BY <1>1, <1>4, <1>7, <1>8, <1>10
  <2>3. tr'.primary = u /\ tr'.scratch = tr.scratch /\ t = tr.primary
    BY <1>8, <1>10 DEF LoaderTyped
  <2>4. Recorded(tr.primary)' /\ ~tr'.primary.done
    BY <1>0, <1>2, <1>4, <1>6, <1>8, <1>10, <2>2, <2>3
    DEF RecordInv, InPrimary, Recorded
  <2>5. Underway(bs.idx, bs.state, bs.size)'
    BY <1>1, <1>8, <2>1, <2>2 DEF Underway
  <2>6. CASE use_scratch
    <3>1. /\ bs.idx = 0 /\ CountOf(bs.size) = Sectors /\ pc' = "unscratch"
          /\ Recorded(tr.scratch)
      BY <1>2, <2>2, <2>6 DEF use_scratch, Count
    <3>2. LoaderTyped'
      BY <1>8, <2>2, <3>1 DEF LoaderTyped, LoaderAt
    <3>3. FlashInv'
      BY <1>8, <1>10, <2>3, <3>1, FlashInScratch DEF Recorded, Fresh
    <3>4. SwapInv'
      BY <1>1, <2>2, <2>5, <3>1 DEF SwapInv, Swapping, Steps, InitSteps, Count
    <3>5. RecordInv'
      BY <2>2, <2>4, <3>1 DEF RecordInv, InitSteps, Count
    <3>6. SectorInv' /\ MagicInv' /\ QuietInv'
      BY <3>1 DEF SectorInv, InitSteps, MagicInv, QuietInv, AgentAt
    <3> QED
      BY <3>2, <3>3, <3>4, <3>5, <3>6
  <2>7. CASE ~use_scratch
    <3>1. /\ pc' \in {"swap", "ok", "done"}
          /\ pc' = "swap" => bs'.idx < CountOf(bs.size)
          /\ pc' # "swap" => bs'.idx = CountOf(bs.size)
      BY <1>1, <1>4, <1>8, <2>2, <2>7 DEF Turn, Count
    <3>2. InPrimary'
      BY <1>2, <2>3, <2>4, <2>7 DEF InPrimary
    <3>3. LoaderTyped'
      BY <1>8, <2>2, <3>1 DEF LoaderTyped, LoaderAt
    <3>4. ~use_scratch' /\ bs'.idx > 0
      BY <1>1, <2>2 DEF use_scratch
    <3>5. FlashInv'
      BY <1>1, <2>2, <2>5, <3>2, <3>4
      DEF FlashInv, Quiet, swap_status_source, Fresh, InPrimary, Recorded, Underway
    <3>6. SwapInv'
      BY <1>1, <2>2, <2>5, <3>1 DEF SwapInv, Swapping, Steps, InitSteps, Count
    <3>7. RecordInv'
      BY <2>2, <3>1, <3>2, <3>4 DEF RecordInv, InitSteps
    <3>8. SectorInv' /\ MagicInv' /\ QuietInv'
      BY <1>1, <1>8, <2>2, <3>1, <3>4
      DEF SectorInv, InitSteps, MagicInv, QuietInv, AgentAt
    <3> QED
      BY <3>3, <3>5, <3>6, <3>7, <3>8
  <2> QED
    BY <2>6, <2>7
<1> QED
  BY <1>1, <1>9, <1>10

(* The end of a swap, or of an update that has failed. *)
LEMMA PerformUpdate ==
  ASSUME LoaderInv, "torn" \notin use, boot_perform_update
  PROVE  LoaderInv'
<1> USE OtaAssumption DEF LoaderInv
<1>0. pc \in {"ok", "done"}
  BY DEF boot_perform_update
<1>1. /\ tr.primary \in Trailers /\ bs \in Statuses /\ bs.state = 0 /\ bs.idx \in Nat
      /\ bs.type # "fail" => bs.type \in {"test", "revert"} /\ bs.idx = Count
                             /\ Underway(bs.idx, bs.state, bs.size)
      /\ pc = "ok" => magic # "good"
  BY <1>0, Fields DEF LoaderTyped, SwapInv, Swapping, MagicInv, Types
<1>2. bs.type # "fail" => InPrimary /\ ~use_scratch /\ bs.idx > 0 /\ magic = "unset"
  <2> SUFFICES ASSUME bs.type # "fail"
               PROVE  InPrimary /\ ~use_scratch /\ bs.idx > 0 /\ magic = "unset"
    OBVIOUS
  <2>1. bs.size \in 1..(2 * Sectors - 1) /\ bs.idx = CountOf(bs.size)
    BY <1>1 DEF Underway, Count
  <2>2. bs.idx > 0
    BY <2>1, CountFact
  <2>3. ~use_scratch /\ magic = "unset"
    BY <1>1, <2>2 DEF use_scratch, Underway
  <2> QED
    BY <1>0, <2>2, <2>3 DEF RecordInv
<1>3. bs.type = "fail" => pc = "ok" /\ Quiet
  BY <1>0 DEF QuietInv, SwapInv, Swapping
<1>4. CASE pc = "ok"
  <2> DEFINE l == IF bs.type = "fail" THEN "start" ELSE "done"
             u == [tr.primary EXCEPT !.ok = TRUE]
  <2>1. u \in Trailers /\ u.idx = tr.primary.idx /\ u.state = tr.primary.state
        /\ u.magic = tr.primary.magic /\ u.info = tr.primary.info
        /\ u.size = tr.primary.size
        /\ u.done = tr.primary.done
    BY <1>1 DEF Trailers
  <2>2. /\ tr' \in [{"primary", "scratch"} -> Trailers]
        /\ tr'.scratch = tr.scratch /\ tr'.primary \in {u, tr.primary}
        /\ UNCHANGED <<prim, slot, scratch, magic, size>> /\ pc' = l /\ bs' = bs
    <3>1. CASE ~tr.primary.ok
      <4>1. boot_write_trailer("primary", u, l, bs)
        BY <1>4, <3>1 DEF boot_perform_update
      <4> HIDE DEF l, u
      <4>2. /\ tr' = [tr EXCEPT !["primary"] = u]
            /\ tr' \in [{"primary", "scratch"} -> Trailers]
            /\ UNCHANGED <<prim, slot, scratch, magic, size>> /\ pc' = l /\ bs' = bs
        BY <2>1, <4>1, WriteTrailer
      <4> QED
        BY <4>2 DEF LoaderTyped
    <3>2. CASE tr.primary.ok
      BY <1>4, <3>2 DEF boot_perform_update, GoTo, flash, LoaderTyped
    <3> QED
      BY <3>1, <3>2
  <2> HIDE DEF u
  <2>3. LoaderTyped'
    BY <2>2 DEF LoaderTyped, LoaderAt
  <2>4. FlashInv' /\ (Quiet => Quiet')
    BY <2>1, <2>2 DEF FlashInv, Underway, Quiet, swap_status_source, Fresh
  <2>5. SwapInv'
    BY <1>1, <2>2 DEF SwapInv, Swapping, Steps, InitSteps, Underway, Count
  <2>6. RecordInv'
    BY <1>2, <2>1, <2>2
    DEF RecordInv, InitSteps, InPrimary, Recorded, use_scratch, Count
  <2>7. SectorInv' /\ MagicInv'
    BY <1>1, <1>4, <2>2 DEF SectorInv, InitSteps, MagicInv
  <2>8. QuietInv'
    BY <1>3, <2>2, <2>4 DEF QuietInv, AgentAt
  <2> QED
    BY <2>3, <2>4, <2>5, <2>6, <2>7, <2>8
<1>5. CASE pc = "done"
  <2> DEFINE u == [tr.primary EXCEPT !.done = TRUE]
  <2>1. u \in Trailers /\ u.done
    BY <1>1 DEF Trailers
  <2>2. boot_write_trailer("primary", u, "start", bs)
    BY <1>5 DEF boot_perform_update
  <2> HIDE DEF u
  <2>3. /\ tr' = [tr EXCEPT !["primary"] = u]
        /\ tr' \in [{"primary", "scratch"} -> Trailers]
        /\ UNCHANGED <<prim, slot, scratch, magic, size>> /\ pc' = "start" /\ bs' = bs
    BY <2>1, <2>2, WriteTrailer
  <2>4. tr'.primary.done /\ tr'.scratch = tr.scratch
    BY <2>1, <2>3 DEF LoaderTyped
  <2>5. InPrimary /\ bs.type # "fail" /\ bs.size \in 1..(2 * Sectors - 1)
        /\ magic = "unset"
        /\ Moving(prim, slot, scratch, size, CountOf(bs.size), 0, bs.size)
    BY <1>1, <1>2, <1>3, <1>5 DEF Underway, Count
  <2>6. Whole(prim, size)
    BY <2>5, MovesEnd DEF LoaderTyped
  <2>7. swap_status_source' = "none" /\ tr'.scratch.magic # "good"
    BY <2>4, <2>5 DEF swap_status_source, InPrimary
  <2>8. LoaderTyped'
    BY <2>3 DEF LoaderTyped, LoaderAt
  <2>9. FlashInv' /\ Quiet'
    BY <2>3, <2>6, <2>7 DEF FlashInv, Quiet
  <2>10. SwapInv' /\ RecordInv' /\ SectorInv' /\ MagicInv'
    BY <2>3, <2>5
    DEF SwapInv, Swapping, Steps, InitSteps, RecordInv, SectorInv, MagicInv
  <2>11. QuietInv'
    BY <2>3, <2>9 DEF QuietInv, AgentAt
  <2> QED
    BY <2>8, <2>9, <2>10, <2>11
<1> QED
  BY <1>0, <1>4, <1>5

(* The image is started. *)
LEMMA BootGo ==
  ASSUME LoaderInv, context_boot_go
  PROVE  LoaderInv'
<1> USE OtaAssumption DEF LoaderInv
<1>1. pc = "start" /\ Quiet /\ Whole(prim, size)
  BY DEF context_boot_go, QuietInv, FlashInv
<1>2. /\ pc' = "idle" /\ bs' = NoStatus /\ UNCHANGED <<magic, tr>>
      /\ prim' = [s \in 1..Sectors |-> Named[prim[s]]]
      /\ slot' = [s \in 1..Sectors |-> Named[slot[s]]]
      /\ scratch' = Named[scratch]
      /\ size' = CASE prim[1] = "new" -> [run |-> size.new, prev |-> size.run, new |-> 0]
                   [] prim[1] = "prev" -> [size EXCEPT !.run = size.prev, !.prev = size.run]
                   [] OTHER -> size
  BY <1>1 DEF context_boot_go, Rename, Valid, Whole
<1>3. \A c \in Cells : Named[c] \in Cells
  BY DEF Named, Cells, Images
<1>4. prim[1] \in Images /\ Named[prim[1]] = "run"
  BY <1>1 DEF Whole, Named, Images, Cells
<1>5. size' \in [Images -> Nat] /\ size'["run"] = size[prim[1]]
  <2>1. size \in [Images -> Nat]
    BY DEF LoaderTyped
  <2>2. CASE prim[1] = "new"
    <3>1. size' = [run |-> size.new, prev |-> size.run, new |-> 0]
      BY <1>2, <2>2
    <3> QED
      BY <2>1, <2>2, <3>1 DEF Images
  <2>3. CASE prim[1] = "prev"
    <3>1. size' = [size EXCEPT !.run = size.prev, !.prev = size.run]
      BY <1>2, <2>3
    <3> QED
      BY <2>1, <2>3, <3>1 DEF Images
  <2>4. CASE prim[1] = "run"
    BY <1>2, <2>1, <2>4
  <2> QED
    BY <1>4, <2>2, <2>3, <2>4 DEF Images
<1>6. NoStatus \in Statuses
  BY DEF NoStatus, Statuses, Types
<1>7. prim' \in [1..Sectors -> Cells] /\ slot' \in [1..Sectors -> Cells]
      /\ scratch' \in Cells
  BY <1>2, <1>3 DEF LoaderTyped
<1>8. LoaderTyped'
  BY <1>2, <1>5, <1>6, <1>7 DEF LoaderTyped, AgentAt
<1>9. 1 \in 1..Sectors /\ prim'[1] = "run" /\ Whole(prim', size')
  <2>1. 1 \in 1..Sectors /\ prim'[1] = "run"
    BY <1>2, <1>4
  <2>2. ASSUME NEW s \in 1..Sectors, 2 * s - 1 <= size'["run"]
        PROVE  prim'[s] = "run"
    BY <1>1, <1>2, <1>4, <1>5, <2>2 DEF Whole
  <2>3. size'["run"] \in 1..(2 * Sectors - 1)
    BY <1>1, <1>5 DEF Whole
  <2> QED
    BY <2>1, <2>2, <2>3 DEF Whole, Images
<1>10. FlashInv' /\ Quiet'
  BY <1>1, <1>2, <1>9 DEF FlashInv, Quiet, swap_status_source, Fresh
<1>11. SwapInv' /\ RecordInv' /\ SectorInv' /\ MagicInv'
  BY <1>2 DEF SwapInv, Swapping, Steps, InitSteps, RecordInv, SectorInv, MagicInv
<1>12. QuietInv'
  BY <1>2, <1>9, <1>10 DEF QuietInv, AgentAt
<1> QED
  BY <1>8, <1>10, <1>11, <1>12

(* Every step of the boot loader keeps its invariant. *)
LEMMA LoaderStep ==
  ASSUME LoaderInv, "torn" \notin use, Loader
  PROVE  LoaderInv'
  BY ReadStatus, SwapType, ValidateSlot, EraseSlot, SwapRun, SwapSectors0, StatusInit,
     SwapSectors1, SwapSectors2, EraseScratch, WriteStatus, PerformUpdate, BootGo
  DEF Loader

(* The agent, which leaves the primary slot and the scratch area alone,    *)
(* does no harm, and nor does a reset of it.                               *)
LEMMA AgentKeepsLoader ==
  ASSUME LoaderInv, pc \in AgentAt, pc' \in AgentAt \cup {"boot"},
         slot' \in [1..Sectors -> Cells], magic' \in Magics,
         size' \in [Images -> Nat], size'.run = size.run,
         UNCHANGED <<prim, scratch, tr, bs>>
  PROVE  LoaderInv'
<1> USE OtaAssumption DEF LoaderInv
<1>1. Quiet /\ prim[1] = "run" /\ Whole(prim, size)
  BY DEF QuietInv, FlashInv
<1>2. Whole(prim', size')
  BY <1>1 DEF Whole, Images
<1>3. LoaderTyped'
  BY DEF LoaderTyped, LoaderAt
<1>4. FlashInv' /\ Quiet'
  BY <1>1, <1>2 DEF FlashInv, Quiet, swap_status_source, Fresh
<1>5. SwapInv' /\ RecordInv' /\ SectorInv' /\ MagicInv'
  BY DEF SwapInv, Swapping, Steps, InitSteps, RecordInv, SectorInv, MagicInv, AgentAt
<1>6. QuietInv'
  BY <1>1, <1>4 DEF QuietInv, AgentAt
<1> QED
  BY <1>3, <1>4, <1>5, <1>6

(* A reset, wherever it comes. *)
LEMMA ResetKeepsLoader ==
  ASSUME LoaderInv, pc' = "boot", bs' = NoStatus,
         UNCHANGED <<prim, slot, scratch, magic, tr, size>>
  PROVE  LoaderInv'
<1> USE OtaAssumption DEF LoaderInv
<1>1. NoStatus \in Statuses
  BY DEF NoStatus, Statuses, Types
<1>2. LoaderTyped'
  BY <1>1 DEF LoaderTyped, LoaderAt
<1>3. SwapInv' /\ RecordInv' /\ SectorInv' /\ MagicInv' /\ QuietInv'
  BY DEF SwapInv, Swapping, Steps, InitSteps, RecordInv, SectorInv, MagicInv,
         QuietInv, AgentAt
<1> QED
  BY <1>2, <1>3, FlashSame

(* The image that runs is confirmed. *)
LEMMA ConfirmKeepsLoader ==
  ASSUME LoaderInv, "torn" \notin use, boot_set_confirmed_multi
  PROVE  LoaderInv'
<1> USE OtaAssumption DEF LoaderInv
<1> DEFINE u == [tr.primary EXCEPT !.ok = TRUE]
<1>1. pc = "idle" /\ boot_write_trailer("primary", u, "idle", bs)
  BY DEF boot_set_confirmed_multi
<1>2. u \in Trailers /\ u.idx = tr.primary.idx /\ u.state = tr.primary.state
      /\ u.done = tr.primary.done
  BY DEF Trailers, LoaderTyped
<1> HIDE DEF u
<1>3. /\ tr' = [tr EXCEPT !["primary"] = u] /\ tr' \in [{"primary", "scratch"} -> Trailers]
      /\ UNCHANGED <<prim, slot, scratch, magic, size, bs>> /\ pc' = "idle"
  BY <1>1, <1>2, WriteTrailer
<1>4. tr'.primary = u /\ tr'.scratch = tr.scratch
  BY <1>3 DEF LoaderTyped
<1>5. Quiet /\ prim[1] = "run"
  BY <1>1 DEF QuietInv, AgentAt
<1>6. LoaderTyped'
  BY <1>3 DEF LoaderTyped, AgentAt
<1>7. FlashInv' /\ Quiet'
  BY <1>2, <1>3, <1>4, <1>5 DEF FlashInv, Quiet, swap_status_source, Fresh
<1>8. SwapInv' /\ RecordInv' /\ SectorInv' /\ MagicInv'
  BY <1>3 DEF SwapInv, Swapping, Steps, InitSteps, RecordInv, SectorInv, MagicInv
<1>9. QuietInv'
  BY <1>3, <1>5, <1>7 DEF QuietInv, AgentAt
<1> QED
  BY <1>6, <1>7, <1>8, <1>9

-----------------------------------------------------------------------------
(* The agent *)

Kinds == {"ours", "foreign", "junk"}

Writes == [sector : 0..Sectors, data : Cells, magic : Magics,
           then : {"idle", "connect", "flushed", "closed", "pending", "empty", "expire"}]

AgentTyped ==
  /\ ret \in BOOLEAN /\ kind \in Kinds
  /\ img_oft \in Nat /\ fbuf_idx \in 0..1 /\ got \in Nat
  /\ wr \in Writes
  /\ pc \in {"erase", "program"} => wr.sector \in 1..Sectors /\ wr.then # "idle"

(* A write is under way, after which the agent goes on at l. *)
Writing(l) == pc \in {"erase", "program"} /\ wr.then = l

(* How much has been received, and which sector is being written.          *)
Position ==
  /\ pc \in {"trailer", "connect"} \/ Writing("connect") => img_oft = 0 /\ fbuf_idx = 0
  /\ pc = "recv" => got = 2 * img_oft + fbuf_idx /\ got <= len
  /\ pc = "flushed" \/ Writing("flushed") =>
       fbuf_idx = 1 /\ got = 2 * img_oft + 2 /\ got <= len
  /\ Writing("flushed") \/ Writing("closed") => wr.sector = img_oft + 1
  /\ Writing("connect") \/ Writing("pending") \/ Writing("expire") => wr.sector = Sectors
  /\ (pc = "program" /\ wr.sector = Sectors) => magic = "unset"

(* The first n sectors hold the file. *)
Written(n) == n <= Sectors /\ \A s \in 1..n : slot[s] = Data

(* With n sectors written, the data covers the trailer or not. *)
Trailer(n) == magic = IF n = Sectors THEN "bad" ELSE "unset"

(* The sectors before the last hold the image, and wr the last one. *)
LastBuffered ==
  /\ len \in 1..(2 * Sectors - 1)
  /\ slot[1] = "new"
  /\ \A s \in 1..(Sectors - 1) : 2 * s - 1 <= len => slot[s] = "new"
  /\ 2 * Sectors - 1 <= len => wr.data = "new"

(* What the slot holds at each point of a download that nothing cuts.      *)
Download ==
  /\ (pc \notin LoaderAt /\ magic = "good") => Complete
  /\ pc = "connect" => magic = "unset"
  /\ Writing("connect") => wr.magic = "unset"
  /\ pc \in {"recv", "flushed"} \/ Writing("flushed") =>
       len >= 2 /\ kind \in {"ours", "junk"} /\ (img_oft > 0 => kind = "ours")
  /\ pc = "recv" => Written(img_oft) /\ Trailer(img_oft)
  /\ Writing("flushed") =>
       /\ Written(img_oft) /\ magic = "unset"
       /\ wr.data = Data /\ wr.magic = "bad"
  /\ pc = "flushed" =>
       IF ret THEN Written(img_oft + 1) /\ Trailer(img_oft + 1)
              ELSE img_oft = Sectors /\ magic = "bad"
  /\ pc = "close" =>
       \/ /\ kind = "ours" /\ img_oft > 0 /\ len = 2 * img_oft + fbuf_idx
          /\ Written(img_oft) /\ Trailer(img_oft)
       \/ img_oft = Sectors /\ fbuf_idx = 1 /\ magic = "bad"
       \/ img_oft = 0 /\ fbuf_idx = 1 /\ slot[1] = "junk" /\ magic = "unset"
  /\ Writing("closed") =>
       /\ kind = "ours" /\ img_oft > 0 /\ len = 2 * img_oft + 1
       /\ Written(img_oft) /\ magic = "unset"
       /\ wr.data = "new" /\ wr.magic = "unset"
  /\ pc = "closed" => magic # "good" /\ ((ret /\ magic = "unset") => Complete)
  /\ Writing("pending") \/ Writing("expire") => LastBuffered /\ wr.magic = "good"
  /\ pc = "pending" => ret /\ magic = "good"
  /\ pc = "empty" => magic # "good"
  /\ Writing("empty") => magic # "good" /\ wr.magic = "unset"

(* An image that leaves room for the trailer never covers it. *)
RoomForTrailer ==
  /\ len < 2 * Sectors
  /\ magic # "bad"
  /\ pc = "expire" => magic = "good"
  /\ pc # "empty" /\ ~Writing("empty")

Uncut == {"reset", "server", "junk", "large", "nowdt"}

OtaInv ==
  /\ use \in Uses
  /\ "torn" \notin use => LoaderInv /\ AgentTyped
  /\ Only(Uncut) => Position /\ Download
  /\ Only(Uncut \ {"large"}) => RoomForTrailer

AgentNext == Agent \/ flash_fails \/ get_firmware_fails \/ get_firmware_no_length \/ recv_cut

(* A new file. *)
LEMMA NewFileTyped ==
  ASSUME LoaderTyped, NewFile
  PROVE  /\ slot' \in [1..Sectors -> Cells] /\ kind' \in Kinds
         /\ size' \in [Images -> Nat] /\ size'.run = size.run /\ size'.new \in FileLengths
<1>1. \A c \in Cells : Unnewed[c] \in Cells
  BY DEF Unnewed, Cells, Images
<1>2. slot' \in [1..Sectors -> Cells]
  BY <1>1 DEF NewFile, LoaderTyped
<1>3. PICK n \in FileLengths, m \in {size.new, size.prev} :
        size' = [size EXCEPT !.new = n, !.prev = m]
  BY DEF NewFile
<1>4. n \in Nat
  BY OtaAssumption DEF FileLengths
<1>5. size \in [Images -> Nat]
  BY DEF LoaderTyped
<1>6. size' \in [Images -> Nat] /\ size'.run = size.run /\ size'.new = n
  BY <1>3, <1>4, <1>5 DEF Images
<1> QED
  BY <1>2, <1>6 DEF NewFile, Kinds

(* A write of the agent begins, or is refused. *)
LEMMA WriteTyped ==
  ASSUME AgentTyped, NEW s \in Nat \ {0}, NEW d \in Cells, NEW m \in Magics,
         NEW l \in {"connect", "flushed", "closed", "pending", "empty", "expire"},
         Write(s, d, m, l)
  PROVE  /\ ret' \in BOOLEAN /\ wr' \in Writes /\ pc' \in {"erase", l}
         /\ pc' \in {"erase", "program"} => wr'.sector \in 1..Sectors /\ wr'.then # "idle"
<1>1. CASE s <= Sectors
  <2>1. wr' = [sector |-> s, data |-> d, magic |-> m, then |-> l] /\ pc' = "erase"
        /\ ret' = ret
    BY <1>1 DEF Write
  <2>2. s \in 1..Sectors
    BY <1>1, OtaAssumption
  <2>3. wr' \in Writes
    BY <2>1, <2>2 DEF Writes
  <2> QED
    BY <2>1, <2>2, <2>3 DEF AgentTyped
<1>2. CASE ~(s <= Sectors)
  <2>1. ret' = FALSE /\ pc' = l /\ wr' = wr
    BY <1>2 DEF Write
  <2> QED
    BY <2>1 DEF AgentTyped
<1> QED
  BY <1>1, <1>2

(* What the agent writes. *)
LEMMA DataTyped ==
  ASSUME AgentTyped
  PROVE  Data \in Cells /\ CloseData \in Cells
<1>1. Data \in {"new", "old", "junk"}
  BY DEF AgentTyped, Kinds, Data
<1>2. {"new", "old", "junk"} \subseteq Cells
  BY DEF Cells, Images
<1> QED
  BY <1>1, <1>2 DEF CloseData


(* Every step of the agent keeps its types and leaves the boot loader's    *)
(* part of the flash alone.                                                *)
LEMMA AgentStep ==
  ASSUME LoaderTyped, AgentTyped, AgentNext
  PROVE  /\ AgentTyped' /\ pc \in AgentAt /\ pc' \in AgentAt \cup {"boot"}
         /\ slot' \in [1..Sectors -> Cells] /\ magic' \in Magics
         /\ size' \in [Images -> Nat] /\ size'.run = size.run
         /\ UNCHANGED <<use, prim, scratch, tr, bs>>
<1> DEFINE Goal ==
      /\ AgentTyped' /\ pc \in AgentAt /\ pc' \in AgentAt \cup {"boot"}
      /\ slot' \in [1..Sectors -> Cells] /\ magic' \in Magics
      /\ size' \in [Images -> Nat] /\ size'.run = size.run
      /\ UNCHANGED <<use, prim, scratch, tr, bs>>
<1> USE OtaAssumption
<1>1. ASSUME do_mcuboot_agent PROVE Goal
  BY <1>1 DEF do_mcuboot_agent, others, ram, NoWrite, AgentTyped, LoaderTyped, AgentAt
<1>2. ASSUME check_slot_trailer PROVE Goal
  BY <1>2
  DEF check_slot_trailer, Write, others, AgentTyped, Writes, LoaderTyped, AgentAt,
      Magics
<1>3. ASSUME get_firmware PROVE Goal
  <2>1. NewFile
    BY <1>3 DEF get_firmware
  <2> QED
    BY <1>3, <2>1, NewFileTyped
    DEF get_firmware, others, AgentTyped, LoaderTyped, AgentAt
<1>4. ASSUME flash_erase PROVE Goal
  BY <1>4 DEF flash_erase, others, ram, AgentTyped, LoaderTyped, AgentAt, Cells, Magics
<1>5. ASSUME flash_program PROVE Goal
  BY <1>5
  DEF flash_program, others, NoWrite, AgentTyped, Writes, LoaderTyped, AgentAt, Cells,
      Magics
<1>6. ASSUME file_write_buffers PROVE Goal
  BY <1>6 DEF file_write_buffers, others, ram, NoWrite, AgentTyped, LoaderTyped, AgentAt
<1>7. ASSUME file_write_flushes PROVE Goal
  <2>1. Write(img_oft + 1, Data, "bad", "flushed") /\ img_oft + 1 \in Nat \ {0}
    BY <1>7 DEF file_write_flushes, AgentTyped
  <2>2. "bad" \in Magics
    BY DEF Magics
  <2> QED
    BY <1>7, <2>1, <2>2, WriteTyped, DataTyped
    DEF file_write_flushes, others, AgentTyped, LoaderTyped, AgentAt
<1>8. ASSUME file_write_end PROVE Goal
  BY <1>8 DEF file_write_end, check_magic, others, ram, AgentTyped, LoaderTyped, AgentAt
<1>9. ASSUME recv_end PROVE Goal
  BY <1>9 DEF recv_end, others, ram, NoWrite, AgentTyped, LoaderTyped, AgentAt
<1>10. ASSUME file_close PROVE Goal
  <2>1. CASE Write(img_oft + 1, CloseData, magic, "closed")
    <3>1. magic \in Magics /\ img_oft + 1 \in Nat \ {0}
      BY DEF LoaderTyped, AgentTyped
    <3> QED
      BY <1>10, <2>1, <3>1, WriteTyped, DataTyped
      DEF file_close, others, AgentTyped, LoaderTyped, AgentAt
  <2>2. CASE ret' \in BOOLEAN /\ pc' = "closed" /\ UNCHANGED wr
    BY <1>10, <2>2 DEF file_close, others, AgentTyped, LoaderTyped, AgentAt
  <2> QED
    BY <1>10, <2>1, <2>2 DEF file_close
<1>11. ASSUME download_failed PROVE Goal
  BY <1>11 DEF download_failed, others, ram, NoWrite, AgentTyped, LoaderTyped, AgentAt
<1>12. ASSUME boot_set_pending_multi PROVE Goal
  <2>1. CASE Write(Sectors, slot[Sectors], "good", "pending")
    <3>1. "good" \in Magics /\ Sectors \in Nat \ {0} /\ slot[Sectors] \in Cells
      BY DEF LoaderTyped, Magics
    <3> QED
      BY <1>12, <2>1, <3>1, WriteTyped
      DEF boot_set_pending_multi, others, AgentTyped, LoaderTyped, AgentAt
  <2>2. CASE pc' \in {"empty", "expire"} /\ UNCHANGED <<ret, wr>>
    BY <1>12, <2>2 DEF boot_set_pending_multi, others, AgentTyped, LoaderTyped, AgentAt
  <2> QED
    BY <1>12, <2>1, <2>2 DEF boot_set_pending_multi
<1>13. ASSUME boot_write_swap_info PROVE Goal
  BY <1>13
  DEF boot_write_swap_info, Write, others, AgentTyped, Writes, LoaderTyped, AgentAt
<1>14. ASSUME erase_slot PROVE Goal
  BY <1>14
  DEF erase_slot, Write, Dirty, others, AgentTyped, Writes, LoaderTyped, AgentAt,
      Cells, Magics
<1>15. ASSUME wdt_expire_now PROVE Goal
  <2>1. NoWrite \in Writes
    BY DEF NoWrite, Writes, Cells, Magics
  <2>2. CASE "nowdt" \in use
    BY <1>15, <2>2 DEF wdt_expire_now, ram, others, AgentTyped, LoaderTyped, AgentAt
  <2>3. CASE "nowdt" \notin use
    BY <1>15, <2>1, <2>3
    DEF wdt_expire_now, RamLost, Kinds, others, AgentTyped, LoaderTyped, AgentAt
  <2> QED
    BY <2>2, <2>3
<1>16. ASSUME flash_fails PROVE Goal
  <2>1. NoWrite \in Writes
    BY DEF NoWrite, Writes, Cells, Magics
  <2>2. wr.then \in {"connect", "flushed", "closed", "pending", "empty", "expire"}
    BY <1>16 DEF flash_fails, AgentTyped, Writes
  <2> QED
    BY <1>16, <2>1, <2>2 DEF flash_fails, others, AgentTyped, LoaderTyped, AgentAt
<1>17. ASSUME get_firmware_fails PROVE Goal
  BY <1>17 DEF get_firmware_fails, Fault, others, ram, AgentTyped, LoaderTyped, AgentAt
<1>18. ASSUME get_firmware_no_length PROVE Goal
  <2>1. NewFile
    BY <1>18 DEF get_firmware_no_length
  <2> QED
    BY <1>18, <2>1, NewFileTyped
    DEF get_firmware_no_length, others, AgentTyped, LoaderTyped, AgentAt
<1>19. ASSUME recv_cut PROVE Goal
  BY <1>19 DEF recv_cut, Fault, others, ram, AgentTyped, LoaderTyped, AgentAt
<1> QED
  BY <1>1, <1>2, <1>3, <1>4, <1>5, <1>6, <1>7, <1>8, <1>9, <1>10, <1>11, <1>12, <1>13,
     <1>14, <1>15, <1>16, <1>17, <1>18, <1>19
  DEF AgentNext, Agent

(* The boot loader goes its way until it starts the image, and its writes  *)
(* leave the trailer of the secondary slot as it is, or erase it.          *)
LEMMA LoaderGoes ==
  ASSUME LoaderTyped, Loader
  PROVE  /\ pc \in LoaderAt /\ use' = use
         /\ pc' \in LoaderAt \/ (pc = "start" /\ pc' = "idle" /\ magic' = magic)
         /\ magic' \in {magic, "unset"}
         /\ size'.new \in {size.new, 0}
<1> DEFINE Goal ==
      /\ pc \in LoaderAt /\ use' = use
      /\ pc' \in LoaderAt \/ (pc = "start" /\ pc' = "idle" /\ magic' = magic)
      /\ magic' \in {magic, "unset"}
      /\ size'.new \in {size.new, 0}
<1>1. ASSUME swap_read_status PROVE Goal
  BY <1>1
  DEF swap_read_status, boot_write_trailer, aligned_write, Put, GoTo, flash, LoaderAt
<1>2. ASSUME boot_validated_swap_type PROVE Goal
  BY <1>2
  DEF boot_validated_swap_type, boot_write_trailer, aligned_write, Put, GoTo, flash,
      LoaderAt
<1>3. ASSUME boot_validate_slot PROVE Goal
  BY <1>3
  DEF boot_validate_slot, aligned_write, Put, GoTo, flash, Blank, LoaderAt, NoSwap
<1>4. ASSUME flash_area_erase PROVE Goal
  BY <1>4 DEF flash_area_erase, aligned_write, Put, GoTo, flash, Blank, LoaderAt, NoSwap
<1>5. ASSUME swap_run PROVE Goal
  BY <1>5 DEF swap_run, boot_write_trailer, aligned_write, GoTo, flash, LoaderAt, Turn
<1>6. ASSUME boot_swap_sectors_0 PROVE Goal
  BY <1>6
  DEF boot_swap_sectors_0, boot_write_trailer, aligned_write, Put, GoTo, flash,
      LoaderAt
<1>7. ASSUME swap_status_init PROVE Goal
  <2>1. bs.on \in {"primary", "scratch"}
    BY DEF LoaderTyped, Statuses
  <2> QED
    BY <1>7, <2>1
    DEF swap_status_init, boot_write_trailer, aligned_write, Put, GoTo, flash,
        LoaderAt
<1>8. ASSUME boot_swap_sectors_1 PROVE Goal
  BY <1>8
  DEF boot_swap_sectors_1, boot_write_trailer, aligned_write, Put, GoTo, Blank,
      LoaderAt
<1>9. ASSUME boot_swap_sectors_2 PROVE Goal
  BY <1>9
  DEF boot_swap_sectors_2, boot_write_trailer, aligned_write, Put, GoTo, flash,
      LoaderAt
<1>10. ASSUME boot_erase_scratch PROVE Goal
  BY <1>10
  DEF boot_erase_scratch, boot_write_trailer, aligned_write, Put, GoTo, LoaderAt, Turn
<1>11. ASSUME boot_write_status PROVE Goal
  BY <1>11
  DEF boot_write_status, boot_write_trailer, aligned_write, Put, GoTo, LoaderAt, Turn
<1>12. ASSUME boot_perform_update PROVE Goal
  BY <1>12
  DEF boot_perform_update, boot_write_trailer, aligned_write, Put, GoTo, flash,
      LoaderAt
<1>13. ASSUME context_boot_go PROVE Goal
  <2>1. size'.new \in {size.new, 0}
    <3>1. size \in [Images -> Nat]
      BY DEF LoaderTyped
    <3> QED
      <4>1. CASE ~Valid(prim)
        BY <1>13, <4>1 DEF context_boot_go
      <4>2. CASE Valid(prim) /\ prim[1] = "new"
        BY <1>13, <4>2 DEF context_boot_go
      <4>3. CASE Valid(prim) /\ prim[1] = "prev"
        <5>1. size' = [size EXCEPT !.run = size.prev, !.prev = size.run]
          BY <1>13, <4>3 DEF context_boot_go
        <5> QED
          BY <3>1, <5>1 DEF Images
      <4>4. CASE Valid(prim) /\ prim[1] \notin {"new", "prev"}
        BY <1>13, <4>4 DEF context_boot_go
      <4> QED
        BY <4>1, <4>2, <4>3, <4>4
  <2> QED
    BY <1>13, <2>1 DEF context_boot_go, LoaderAt
<1> QED
  BY <1>1, <1>2, <1>3, <1>4, <1>5, <1>6, <1>7, <1>8, <1>9, <1>10, <1>11, <1>12, <1>13
  DEF Loader

(* The agent keeps its position. *)
LEMMA PositionStep ==
  ASSUME LoaderTyped, AgentTyped, Position, Only(Uncut), AgentNext
  PROVE  Position'
<1> USE OtaAssumption
<1>a. "tiny" \notin use /\ "cut" \notin use /\ "flash" \notin use /\ "nolength" \notin use
      /\ "foreign" \notin use
  BY DEF Only, Uncut
<1>b. /\ len \in Nat /\ Sectors \in Nat \ {0, 1} /\ img_oft \in Nat /\ fbuf_idx \in 0..1
      /\ got \in Nat /\ magic \in Magics
  BY DEF LoaderTyped, AgentTyped, len, Images
<1>1. ASSUME do_mcuboot_agent PROVE Position'
  BY <1>1, <1>a DEF do_mcuboot_agent, others, ram, NoWrite, Position, Writing, len
<1>2. ASSUME check_slot_trailer PROVE Position'
  BY <1>2, <1>a DEF check_slot_trailer, Write, others, ram, NoWrite, Position, Writing
<1>3. ASSUME get_firmware PROVE Position'
  <2>1. NewFile /\ pc = "connect" /\ pc' = "recv" /\ got' = 0
        /\ UNCHANGED <<img_oft, fbuf_idx, magic>>
    BY <1>3 DEF get_firmware, others
  <2>2. len' \in Nat
    BY <2>1, NewFileTyped DEF len, Images
  <2> QED
    BY <2>1, <2>2 DEF Position, Writing
<1>4. ASSUME flash_erase PROVE Position'
  BY <1>4, <1>a DEF flash_erase, others, ram, NoWrite, Position, Writing, len
<1>5. ASSUME flash_program PROVE Position'
  BY <1>5, <1>a DEF flash_program, others, Position, Writing, len, AgentTyped, Writes
<1>6. ASSUME file_write_buffers PROVE Position'
  BY <1>6, <1>b DEF file_write_buffers, others, ram, Position, Writing, len
<1>7. ASSUME file_write_flushes PROVE Position'
  BY <1>7, <1>b DEF file_write_flushes, Write, others, ram, Position, Writing, len
<1>8. ASSUME file_write_end PROVE Position'
  BY <1>8, <1>b DEF file_write_end, others, ram, Position, Writing, len
<1>9. ASSUME recv_end PROVE Position'
  BY <1>9, <1>a DEF recv_end, others, ram, NoWrite, Position, Writing, len
<1>10. ASSUME file_close PROVE Position'
  BY <1>10, <1>a DEF file_close, Write, CloseData, Data, check_magic, Position, Writing
<1>11. ASSUME download_failed PROVE Position'
  BY <1>11, <1>a DEF download_failed, others, ram, NoWrite, Position, Writing, len
<1>12. ASSUME boot_set_pending_multi PROVE Position'
  <2>1. CASE magic = "unset"
    <3>1. /\ pc = "closed" /\ pc' = "erase" /\ ret /\ UNCHANGED <<slot, magic, size, kind>>
          /\ wr' = [sector |-> Sectors, data |-> slot[Sectors],
                    magic |-> "good", then |-> "pending"]
      BY <1>12, <1>b, <2>1 DEF boot_set_pending_multi, Write
    <3>2. wr'.sector = Sectors /\ wr'.data = slot[Sectors] /\ wr'.magic = "good"
          /\ wr'.then = "pending"
      BY <3>1
    <3> QED
      BY <3>1, <3>2 DEF Position, Writing
  <2>2. CASE magic # "unset"
    <3>1. /\ pc = "closed" /\ pc' = (IF magic = "bad" THEN "empty" ELSE "expire")
          /\ UNCHANGED <<slot, magic, size, kind, ret, wr>>
      BY <1>12, <2>2 DEF boot_set_pending_multi
    <3> QED
      BY <3>1 DEF Position, Writing
  <2> QED
    BY <2>1, <2>2
<1>13. ASSUME boot_write_swap_info PROVE Position'
  BY <1>13, <1>a
  DEF boot_write_swap_info, Write, others, ram, NoWrite, Position, Writing
<1>14. ASSUME erase_slot PROVE Position'
  BY <1>14, <1>a DEF erase_slot, Write, Dirty, others, ram, Position, Writing
<1>15. ASSUME wdt_expire_now PROVE Position'
  BY <1>15, <1>a DEF wdt_expire_now, RamLost, others, ram, NoWrite, Position, Writing
<1>16. ASSUME flash_fails PROVE Position'
  BY <1>16, <1>a DEF flash_fails, Fault
<1>17. ASSUME get_firmware_fails PROVE Position'
  BY <1>17, <1>a DEF get_firmware_fails, Fault, others, ram, NoWrite, Position, Writing
<1>18. ASSUME get_firmware_no_length PROVE Position'
  BY <1>18, <1>a DEF get_firmware_no_length, Fault
<1>19. ASSUME recv_cut PROVE Position'
  BY <1>19, <1>a DEF recv_cut, Fault
<1> QED
  BY <1>1, <1>2, <1>3, <1>4, <1>5, <1>6, <1>7, <1>8, <1>9, <1>10, <1>11, <1>12, <1>13,
     <1>14, <1>15, <1>16, <1>17, <1>18, <1>19
  DEF AgentNext, Agent

(* A download that nothing cuts goes on to a complete image. *)
LEMMA DownloadStep ==
  ASSUME LoaderTyped, AgentTyped, Position, Download, Only(Uncut), AgentNext
  PROVE  Download'
<1> USE OtaAssumption
<1>a. "tiny" \notin use /\ "cut" \notin use /\ "flash" \notin use /\ "nolength" \notin use
      /\ "foreign" \notin use
  BY DEF Only, Uncut
<1>b. /\ len \in Nat /\ Sectors \in Nat \ {0, 1} /\ img_oft \in Nat /\ fbuf_idx \in 0..1
      /\ got \in Nat /\ magic \in Magics
  BY DEF LoaderTyped, AgentTyped, len, Images
<1>1. ASSUME do_mcuboot_agent PROVE Download'
  BY <1>1, <1>a
  DEF do_mcuboot_agent, others, Download, Writing, LoaderAt, Complete, Valid
<1>2. ASSUME check_slot_trailer PROVE Download'
  BY <1>2, <1>a
  DEF check_slot_trailer, Write, Download, Writing, LoaderAt, Complete, Valid
<1>3. ASSUME get_firmware PROVE Download'
  <2>1. /\ NewFile /\ pc = "connect" /\ pc' = "recv" /\ magic = "unset" /\ img_oft = 0
        /\ UNCHANGED <<img_oft, fbuf_idx, magic>>
    BY <1>3 DEF get_firmware, others, Download, Position
  <2>2. len' >= 2 /\ kind' \in {"ours", "junk"}
    <3>1. len' \in FileLengths
      BY <2>1, NewFileTyped DEF len
    <3> QED
      BY <1>a, <2>1, <3>1, OtaAssumption DEF FileLengths, NewFile
  <2> QED
    BY <1>b, <2>1, <2>2 DEF Download, Writing, Written, Trailer, Magics
<1>4. ASSUME flash_erase PROVE Download'
  BY <1>4, <1>a
  DEF flash_erase, ram, Download, Position, Writing, len, Written, LastBuffered, Data,
      AgentTyped, Writes
<1>5. ASSUME flash_program PROVE Download'
  <2>0. /\ pc = "program" /\ ret' = TRUE /\ pc' = wr.then
        /\ slot' = [slot EXCEPT ![wr.sector] = wr.data]
        /\ magic' = (IF wr.sector = Sectors THEN wr.magic ELSE magic)
        /\ UNCHANGED <<img_oft, fbuf_idx, kind, got, size>>
    BY <1>5 DEF flash_program, others
  <2>1. wr.sector \in 1..Sectors
        /\ wr.then \in {"connect", "flushed", "closed", "pending", "empty", "expire"}
    BY <2>0 DEF AgentTyped, Writes
  <2>2. wr.sector = Sectors => magic = "unset"
    BY <2>0 DEF Position
  <2>3. slot \in [1..Sectors -> Cells] /\ len' = len /\ Data' = Data
    BY <2>0 DEF LoaderTyped, len, Data
  <2>4. CASE wr.then = "connect"
    <3>1. wr.sector = Sectors /\ wr.magic = "unset"
      BY <2>0, <2>4 DEF Download, Position, Writing
    <3> QED
      BY <2>0, <2>4, <3>1 DEF Download, Writing
  <2>5. CASE wr.then = "flushed"
    <3>1. /\ len >= 2 /\ kind \in {"ours", "junk"} /\ (img_oft > 0 => kind = "ours")
          /\ Written(img_oft) /\ magic = "unset" /\ wr.data = Data /\ wr.magic = "bad"
          /\ wr.sector = img_oft + 1
      BY <2>0, <2>5 DEF Download, Position, Writing
    <3>2. Written(img_oft + 1)' /\ Trailer(img_oft + 1)'
      BY <1>b, <2>0, <2>1, <2>3, <3>1 DEF Written, Trailer
    <3>3. magic' # "good"
      BY <2>0, <3>1
    <3> QED
      BY <2>0, <2>3, <2>5, <3>1, <3>2, <3>3 DEF Download, Writing
  <2>6. CASE wr.then = "closed"
    <3>1. /\ kind = "ours" /\ img_oft > 0 /\ len = 2 * img_oft + 1 /\ Written(img_oft)
          /\ magic = "unset" /\ wr.data = "new" /\ wr.magic = "unset"
          /\ wr.sector = img_oft + 1
      BY <2>0, <2>6 DEF Download, Position, Writing
    <3>2. \A s \in 1..Sectors : 2 * s - 1 <= len => slot'[s] = "new"
      BY <1>b, <2>0, <2>3, <3>1 DEF Written, Data
    <3>3. slot'[1] = "new" /\ len \in 1..(2 * Sectors - 1)
      BY <1>b, <2>1, <3>1, <3>2
    <3>4. Complete' /\ magic' = "unset"
      BY <2>0, <3>1, <3>2, <3>3 DEF Complete, Valid, Images, len
    <3> QED
      BY <2>0, <2>6, <3>4 DEF Download, Writing
  <2>7. CASE wr.then \in {"pending", "expire"}
    <3>1. LastBuffered /\ wr.magic = "good" /\ wr.sector = Sectors
      BY <2>0, <2>7 DEF Download, Position, Writing
    <3>2. \A s \in 1..Sectors : 2 * s - 1 <= len => slot'[s] = "new"
      BY <1>b, <2>0, <2>3, <3>1 DEF LastBuffered
    <3>3. slot'[1] = "new" /\ len \in 1..(2 * Sectors - 1)
      BY <1>b, <3>1, <3>2 DEF LastBuffered
    <3>4. Complete' /\ magic' = "good"
      BY <2>0, <3>1, <3>2, <3>3 DEF Complete, Valid, Images, len
    <3> QED
      BY <2>0, <2>7, <3>4 DEF Download, Writing
  <2>8. CASE wr.then = "empty"
    <3>1. magic # "good" /\ wr.magic = "unset"
      BY <2>0, <2>8 DEF Download, Writing
    <3> QED
      BY <2>0, <2>8, <3>1 DEF Download, Writing
  <2> QED
    BY <2>1, <2>4, <2>5, <2>6, <2>7, <2>8
<1>6. ASSUME file_write_buffers PROVE Download'
  BY <1>6, <1>a DEF file_write_buffers, Download, Writing, len, Written, Trailer, Data
<1>7. ASSUME file_write_flushes PROVE Download'
  <2>1. /\ pc = "recv" /\ got < len /\ fbuf_idx = 1 /\ got = 2 * img_oft + 1
        /\ UNCHANGED <<slot, magic, size, img_oft, fbuf_idx, kind>>
        /\ len >= 2 /\ kind \in {"ours", "junk"} /\ (img_oft > 0 => kind = "ours")
        /\ Written(img_oft) /\ Trailer(img_oft)
    BY <1>7, <1>b DEF file_write_flushes, others, Download, Position
  <2>2. /\ len' = len /\ Data' = Data /\ Written(img_oft)' /\ img_oft <= Sectors
    BY <2>1 DEF len, Data, Written
  <2>3. CASE img_oft + 1 <= Sectors
    <3>1. /\ pc' = "erase"
          /\ wr' = [sector |-> img_oft + 1, data |-> Data,
                    magic |-> "bad", then |-> "flushed"]
          /\ magic = "unset"
      BY <1>7, <1>b, <2>1, <2>3 DEF file_write_flushes, Write, Trailer
    <3>2. wr'.data = Data /\ wr'.magic = "bad" /\ wr'.then = "flushed"
      BY <3>1
    <3> QED
      BY <2>1, <2>2, <3>1, <3>2 DEF Download, Writing
  <2>4. CASE ~(img_oft + 1 <= Sectors)
    <3>1. pc' = "flushed" /\ ret' = FALSE /\ img_oft = Sectors /\ magic = "bad"
      BY <1>7, <1>b, <2>1, <2>2, <2>4 DEF file_write_flushes, Write, Trailer
    <3> QED
      BY <2>1, <2>2, <3>1 DEF Download, Writing
  <2> QED
    BY <2>3, <2>4
<1>8. ASSUME file_write_end PROVE Download'
  <2>1. /\ pc = "flushed" /\ fbuf_idx = 1 /\ got = 2 * img_oft + 2 /\ got <= len
        /\ UNCHANGED <<slot, magic, size, kind>> /\ len >= 2
        /\ kind \in {"ours", "junk"} /\ (img_oft > 0 => kind = "ours")
        /\ IF ret THEN Written(img_oft + 1) /\ Trailer(img_oft + 1)
                  ELSE img_oft = Sectors /\ magic = "bad"
    BY <1>8 DEF file_write_end, others, Download, Position
  <2>2. len' = len /\ Data' = Data
    BY <2>1 DEF len, Data
  <2>3. CASE ret /\ (img_oft = 0 => check_magic)
    <3>1. pc' = "recv" /\ img_oft' = img_oft + 1
      BY <1>8, <2>3 DEF file_write_end
    <3>2. kind = "ours"
      <4>1. CASE img_oft = 0
        <5>1. slot[1] = Data
          BY <1>b, <2>1, <2>3, <4>1 DEF Written
        <5> QED
          BY <2>1, <2>3, <4>1, <5>1 DEF check_magic, Data, Images
      <4> QED
        BY <1>b, <2>1, <4>1
    <3>3. Written(img_oft)' /\ Trailer(img_oft)'
      BY <2>1, <2>2, <2>3, <3>1 DEF Written, Trailer
    <3>4. magic # "good"
      BY <2>1, <2>3 DEF Trailer
    <3> QED
      BY <2>1, <2>2, <3>1, <3>2, <3>3, <3>4 DEF Download, Writing
  <2>4. CASE ret /\ ~(img_oft = 0 => check_magic)
    <3>1. pc' = "close" /\ UNCHANGED <<img_oft, fbuf_idx>> /\ img_oft = 0 /\ ~check_magic
      BY <1>8, <2>4 DEF file_write_end
    <3>2. slot[1] = Data /\ magic = "unset"
      BY <1>b, <2>1, <2>4, <3>1 DEF Written, Trailer
    <3>3. slot[1] = "junk"
      BY <2>1, <3>1, <3>2 DEF Data, check_magic, Images
    <3> QED
      BY <2>1, <3>1, <3>2, <3>3 DEF Download, Writing
  <2>5. CASE ~ret
    <3>1. pc' = "close" /\ UNCHANGED <<img_oft, fbuf_idx>> /\ img_oft = Sectors
          /\ magic = "bad"
      BY <1>8, <2>1, <2>5 DEF file_write_end
    <3> QED
      BY <2>1, <3>1 DEF Download, Writing
  <2> QED
    BY <2>3, <2>4, <2>5
<1>9. ASSUME recv_end PROVE Download'
  BY <1>9, <1>a
  DEF recv_end, ram, Download, Position, Writing, len, Written, Trailer, Data,
      AgentTyped
<1>10. ASSUME file_close PROVE Download'
  <2>0. pc = "close" /\ UNCHANGED <<slot, magic, size, kind, img_oft, fbuf_idx>>
    BY <1>10 DEF file_close, others
  <2>1. \/ /\ kind = "ours" /\ img_oft > 0 /\ len = 2 * img_oft + fbuf_idx
           /\ Written(img_oft) /\ Trailer(img_oft)
        \/ img_oft = Sectors /\ fbuf_idx = 1 /\ magic = "bad"
        \/ img_oft = 0 /\ fbuf_idx = 1 /\ slot[1] = "junk" /\ magic = "unset"
    BY <2>0 DEF Download
  <2>2. magic # "good" /\ img_oft <= Sectors
    BY <1>b, <2>1 DEF Trailer, Written
  <2>3. CASE fbuf_idx = 0
    <3>1. pc' = "closed" /\ kind = "ours" /\ img_oft > 0 /\ len = 2 * img_oft
          /\ Written(img_oft) /\ Trailer(img_oft)
      BY <1>10, <1>b, <2>1, <2>3 DEF file_close
    <3>2. magic = "unset" => Complete
      BY <1>b, <2>2, <3>1 DEF Complete, Valid, Written, Trailer, Data, Images, len
    <3>3. Complete => Complete'
      BY <2>0 DEF Complete, Valid
    <3> QED
      BY <2>0, <2>2, <3>1, <3>2, <3>3 DEF Download, Writing
  <2>4. CASE fbuf_idx > 0 /\ ~(img_oft = 0 => check_magic)
    <3>1. pc' = "closed" /\ ret' = FALSE
      BY <1>10, <2>4 DEF file_close
    <3> QED
      BY <2>0, <2>2, <3>1 DEF Download, Writing
  <2>5. CASE fbuf_idx > 0 /\ (img_oft = 0 => check_magic)
    <3>1. Write(img_oft + 1, CloseData, magic, "closed") /\ fbuf_idx = 1
      BY <1>10, <1>b, <2>5 DEF file_close
    <3>2. CASE img_oft + 1 <= Sectors
      <4>1. /\ pc' = "erase"
            /\ wr' = [sector |-> img_oft + 1, data |-> CloseData,
                      magic |-> magic, then |-> "closed"]
        BY <3>1, <3>2 DEF Write
      <4>2. /\ kind = "ours" /\ img_oft > 0 /\ len = 2 * img_oft + 1
            /\ Written(img_oft) /\ magic = "unset"
        BY <1>b, <2>1, <2>5, <3>1, <3>2 DEF Trailer, check_magic, Images
      <4>3. CloseData = "new"
        BY <1>b, <3>1, <4>2 DEF CloseData, Data
      <4>4. wr'.data = "new" /\ wr'.magic = "unset" /\ wr'.then = "closed"
        BY <4>1, <4>2, <4>3
      <4>5. Written(img_oft)' /\ len' = len
        BY <2>0, <4>2 DEF Written, Data, len
      <4> QED
        BY <2>0, <2>2, <4>1, <4>2, <4>4, <4>5 DEF Download, Writing
    <3>3. CASE ~(img_oft + 1 <= Sectors)
      <4>1. pc' = "closed" /\ ret' = FALSE
        BY <3>1, <3>3 DEF Write
      <4> QED
        BY <2>0, <2>2, <4>1 DEF Download, Writing
    <3> QED
      BY <3>2, <3>3
  <2> QED
    BY <1>b, <2>3, <2>4, <2>5
<1>11. ASSUME download_failed PROVE Download'
  BY <1>11, <1>a DEF download_failed, others, ram, NoWrite, Download, Position, Writing
<1>12. ASSUME boot_set_pending_multi PROVE Download'
  <2>1. CASE magic = "unset"
    <3>1. /\ pc = "closed" /\ pc' = "erase" /\ ret /\ UNCHANGED <<slot, magic, size, kind>>
          /\ wr' = [sector |-> Sectors, data |-> slot[Sectors],
                    magic |-> "good", then |-> "pending"]
      BY <1>12, <1>b, <2>1 DEF boot_set_pending_multi, Write
    <3>2. wr'.sector = Sectors /\ wr'.data = slot[Sectors] /\ wr'.magic = "good"
          /\ wr'.then = "pending"
      BY <3>1
    <3> QED
      BY <1>b, <2>1, <3>1, <3>2
      DEF Download, Writing, Complete, Valid, Images, LastBuffered, len
  <2>2. CASE magic # "unset"
    <3>1. /\ pc = "closed" /\ pc' = (IF magic = "bad" THEN "empty" ELSE "expire")
          /\ UNCHANGED <<slot, magic, size, kind, ret, wr>>
      BY <1>12, <2>2 DEF boot_set_pending_multi
    <3> QED
      BY <1>b, <2>2, <3>1 DEF Download, Writing, LoaderAt, Magics
  <2> QED
    BY <2>1, <2>2
<1>13. ASSUME boot_write_swap_info PROVE Download'
  <2>1. /\ pc = "pending" /\ ret /\ magic = "good" /\ UNCHANGED <<slot, magic, size>>
        /\ pc' = "erase"
        /\ wr' = [sector |-> Sectors, data |-> slot[Sectors],
                  magic |-> "good", then |-> "expire"]
    BY <1>13, <1>b DEF boot_write_swap_info, Write, Download
  <2>2. wr'.data = slot[Sectors] /\ wr'.magic = "good" /\ wr'.then = "expire"
    BY <2>1
  <2>3. Complete /\ Complete'
    BY <2>1 DEF Download, LoaderAt, Complete, Valid
  <2> QED
    BY <1>b, <2>1, <2>2, <2>3
    DEF Download, Writing, Complete, Valid, Images, LastBuffered, len
<1>14. ASSUME erase_slot PROVE Download'
  BY <1>14, <1>a DEF erase_slot, Write, Dirty, others, ram, Download, Writing
<1>15. ASSUME wdt_expire_now PROVE Download'
  BY <1>15, <1>a
  DEF wdt_expire_now, RamLost, Download, Writing, LoaderAt, Complete, Valid
<1>16. ASSUME flash_fails PROVE Download'
  BY <1>16, <1>a DEF flash_fails, Fault
<1>17. ASSUME get_firmware_fails PROVE Download'
  BY <1>17, <1>a DEF get_firmware_fails, Fault, others, ram, NoWrite, Download, Writing
<1>18. ASSUME get_firmware_no_length PROVE Download'
  BY <1>18, <1>a DEF get_firmware_no_length, Fault
<1>19. ASSUME recv_cut PROVE Download'
  BY <1>19, <1>a DEF recv_cut, Fault
<1> QED
  BY <1>1, <1>2, <1>3, <1>4, <1>5, <1>6, <1>7, <1>8, <1>9, <1>10, <1>11, <1>12, <1>13,
     <1>14, <1>15, <1>16, <1>17, <1>18, <1>19
  DEF AgentNext, Agent

(* An image that leaves room for the trailer does not cover it. *)
LEMMA RoomStep ==
  ASSUME LoaderTyped, AgentTyped, Position, Download, RoomForTrailer,
         Only(Uncut \ {"large"}), AgentNext
  PROVE  RoomForTrailer'
<1> USE OtaAssumption
<1>a. "tiny" \notin use /\ "cut" \notin use /\ "flash" \notin use /\ "nolength" \notin use
      /\ "foreign" \notin use /\ "large" \notin use
  BY DEF Only, Uncut
<1>b. /\ len \in Nat /\ Sectors \in Nat \ {0, 1} /\ img_oft \in Nat /\ fbuf_idx \in 0..1
      /\ got \in Nat /\ magic \in Magics
  BY DEF LoaderTyped, AgentTyped, len, Images
<1>1. ASSUME do_mcuboot_agent PROVE RoomForTrailer'
  BY <1>1, <1>a DEF do_mcuboot_agent, others, ram, NoWrite, RoomForTrailer, Writing, len
<1>2. ASSUME check_slot_trailer PROVE RoomForTrailer'
  BY <1>2, <1>a DEF check_slot_trailer, Write, others, ram, RoomForTrailer, Writing, len
<1>3. ASSUME get_firmware PROVE RoomForTrailer'
  <2>1. NewFile /\ pc' = "recv" /\ magic' = magic
    BY <1>3 DEF get_firmware
  <2>2. len' < 2 * Sectors
    <3>1. len' \in FileLengths
      BY <2>1, NewFileTyped DEF len
    <3> QED
      BY <1>a, <3>1, OtaAssumption DEF FileLengths
  <2> QED
    BY <2>1, <2>2 DEF RoomForTrailer, Writing
<1>4. ASSUME flash_erase PROVE RoomForTrailer'
  BY <1>4, <1>a DEF flash_erase, others, ram, NoWrite, RoomForTrailer, Writing, len
<1>5. ASSUME flash_program PROVE RoomForTrailer'
  <2>0. /\ pc = "program" /\ ret' = TRUE /\ pc' = wr.then
        /\ slot' = [slot EXCEPT ![wr.sector] = wr.data]
        /\ magic' = (IF wr.sector = Sectors THEN wr.magic ELSE magic)
        /\ UNCHANGED <<img_oft, fbuf_idx, kind, got, size>>
    BY <1>5 DEF flash_program, others
  <2>1. wr.sector \in 1..Sectors
        /\ wr.then \in {"connect", "flushed", "closed", "pending", "empty", "expire"}
    BY <2>0 DEF AgentTyped, Writes
  <2>2. wr.sector = Sectors => magic = "unset"
    BY <2>0 DEF Position
  <2>3. len' = len /\ len < 2 * Sectors /\ magic # "bad" /\ wr.then # "empty"
    BY <2>0 DEF len, RoomForTrailer, Writing
  <2>4. wr.sector = Sectors => wr.magic # "bad"
    <3>1. CASE wr.then = "flushed"
      BY <1>b, <2>0, <2>3, <3>1 DEF Position, Writing
    <3>2. CASE wr.then # "flushed"
      BY <2>0, <2>1, <2>3, <3>2 DEF Download, Writing
    <3> QED
      BY <3>1, <3>2
  <2>5. wr.then = "expire" => magic' = "good"
    BY <2>0 DEF Position, Download, Writing
  <2> QED
    BY <2>0, <2>1, <2>3, <2>4, <2>5 DEF RoomForTrailer, Writing
<1>6. ASSUME file_write_buffers PROVE RoomForTrailer'
  BY <1>6, <1>a
  DEF file_write_buffers, others, ram, NoWrite, RoomForTrailer, Writing, len
<1>7. ASSUME file_write_flushes PROVE RoomForTrailer'
  BY <1>7, <1>a
  DEF file_write_flushes, Write, Data, others, RoomForTrailer, Writing, len
<1>8. ASSUME file_write_end PROVE RoomForTrailer'
  BY <1>8, <1>a
  DEF file_write_end, check_magic, others, ram, RoomForTrailer, Writing, len
<1>9. ASSUME recv_end PROVE RoomForTrailer'
  BY <1>9, <1>a DEF recv_end, others, ram, NoWrite, RoomForTrailer, Writing, len
<1>10. ASSUME file_close PROVE RoomForTrailer'
  BY <1>10, <1>a DEF file_close, Write, CloseData, Data, RoomForTrailer, Writing, len
<1>11. ASSUME download_failed PROVE RoomForTrailer'
  BY <1>11, <1>a DEF download_failed, others, ram, NoWrite, RoomForTrailer, Writing, len
<1>12. ASSUME boot_set_pending_multi PROVE RoomForTrailer'
  <2>1. CASE magic = "unset"
    <3>1. /\ pc = "closed" /\ pc' = "erase" /\ ret /\ UNCHANGED <<slot, magic, size, kind>>
          /\ wr' = [sector |-> Sectors, data |-> slot[Sectors],
                    magic |-> "good", then |-> "pending"]
      BY <1>12, <1>b, <2>1 DEF boot_set_pending_multi, Write
    <3>2. wr'.sector = Sectors /\ wr'.data = slot[Sectors] /\ wr'.magic = "good"
          /\ wr'.then = "pending"
      BY <3>1
    <3> QED
      BY <2>1, <3>1, <3>2 DEF RoomForTrailer, Writing, len
  <2>2. CASE magic # "unset"
    <3>1. /\ pc = "closed" /\ pc' = (IF magic = "bad" THEN "empty" ELSE "expire")
          /\ UNCHANGED <<slot, magic, size, kind, ret, wr>>
      BY <1>12, <2>2 DEF boot_set_pending_multi
    <3> QED
      BY <2>2, <3>1, <1>b DEF RoomForTrailer, Download, Magics
  <2> QED
    BY <2>1, <2>2
<1>13. ASSUME boot_write_swap_info PROVE RoomForTrailer'
  BY <1>13, <1>a
  DEF boot_write_swap_info, Write, others, RoomForTrailer, Download, Writing, len
<1>14. ASSUME erase_slot PROVE RoomForTrailer'
  BY <1>14, <1>a DEF erase_slot, Write, Dirty, others, ram, NoWrite, RoomForTrailer
<1>15. ASSUME wdt_expire_now PROVE RoomForTrailer'
  BY <1>15, <1>a DEF wdt_expire_now, RamLost, others, ram, RoomForTrailer, Writing, len
<1>16. ASSUME flash_fails PROVE RoomForTrailer'
  BY <1>16, <1>a DEF flash_fails, Fault
<1>17. ASSUME get_firmware_fails PROVE RoomForTrailer'
  BY <1>17, <1>a
  DEF get_firmware_fails, Fault, others, ram, RoomForTrailer, Writing, len
<1>18. ASSUME get_firmware_no_length PROVE RoomForTrailer'
  BY <1>18, <1>a DEF get_firmware_no_length, Fault
<1>19. ASSUME recv_cut PROVE RoomForTrailer'
  BY <1>19, <1>a DEF recv_cut, Fault
<1> QED
  BY <1>1, <1>2, <1>3, <1>4, <1>5, <1>6, <1>7, <1>8, <1>9, <1>10, <1>11, <1>12, <1>13,
     <1>14, <1>15, <1>16, <1>17, <1>18, <1>19
  DEF AgentNext, Agent

-----------------------------------------------------------------------------
(* The steps of the system: the agent, the boot loader, a reset, the       *)
(* command to confirm, or none.                                            *)
LEMMA Kind ==
  ASSUME [Next]_vars
  PROVE  \/ AgentNext
         \/ Loader /\ UNCHANGED ram
         \/ power_cycle \/ (boot_set_confirmed_multi /\ UNCHANGED ram)
         \/ reset \/ UNCHANGED vars
  BY DEF Next, AgentNext, boot

(* The boot loader and the agent keep the first part of the invariant. *)
LEMMA SafeStep ==
  ASSUME LoaderInv, AgentTyped, "torn" \notin use, [Next]_vars
  PROVE  LoaderInv' /\ AgentTyped' /\ use' = use
<1>1. CASE AgentNext
  <2>1. /\ AgentTyped' /\ pc \in AgentAt /\ pc' \in AgentAt \cup {"boot"}
        /\ slot' \in [1..Sectors -> Cells] /\ magic' \in Magics
        /\ size' \in [Images -> Nat] /\ size'.run = size.run
        /\ UNCHANGED <<use, prim, scratch, tr, bs>>
    BY <1>1, AgentStep DEF LoaderInv
  <2> QED
    BY <2>1, AgentKeepsLoader
<1>2. CASE Loader /\ UNCHANGED ram
  <2>1. LoaderTyped
    BY DEF LoaderInv
  <2>2. LoaderInv' /\ use' = use /\ (pc' \in LoaderAt \/ pc' = "idle")
    BY <1>2, <2>1, LoaderStep, LoaderGoes
  <2>3. pc' \notin {"erase", "program"}
    BY <2>2 DEF LoaderAt
  <2> QED
    BY <1>2, <2>2, <2>3 DEF AgentTyped, ram
<1>3. CASE power_cycle
  BY <1>3 DEF power_cycle, LoaderInv, QuietInv
<1>4. CASE boot_set_confirmed_multi /\ UNCHANGED ram
  <2>1. use' = use /\ pc' = "idle"
    BY <1>4 DEF boot_set_confirmed_multi, boot_write_trailer, aligned_write, Fault
  <2> QED
    BY <1>4, <2>1, ConfirmKeepsLoader DEF AgentTyped, ram
<1>5. CASE reset
  <2>1. NoWrite \in Writes
    BY OtaAssumption DEF NoWrite, Writes, Cells, Magics
  <2>2. /\ pc' = "boot" /\ bs' = NoStatus /\ use' = use /\ RamLost
        /\ UNCHANGED <<prim, slot, scratch, magic, tr, size>>
    BY <1>5 DEF reset, flash
  <2>3. AgentTyped'
    BY <2>1, <2>2 DEF AgentTyped, RamLost, Kinds
  <2> QED
    BY <2>2, <2>3, ResetKeepsLoader
<1>6. CASE UNCHANGED vars
  <2>1. UNCHANGED <<use, pc, prim, slot, scratch, magic, tr, bs, size>> /\ UNCHANGED ram
    BY <1>6 DEF vars, loader, flash
  <2>2. LoaderTyped' /\ SwapInv' /\ RecordInv' /\ SectorInv' /\ MagicInv' /\ QuietInv'
    BY <2>1
    DEF LoaderInv, LoaderTyped, SwapInv, Swapping, Underway, RecordInv, SectorInv,
        MagicInv, QuietInv, Quiet, swap_status_source, Recorded, InPrimary, Begun,
        use_scratch, Sector, Count
  <2> QED
    BY <2>1, <2>2, FlashSame DEF LoaderInv, AgentTyped, ram
<1> QED
  BY <1>1, <1>2, <1>3, <1>4, <1>5, <1>6, Kind

(* Outside the agent a download makes no progress. *)
LEMMA ElsewhereKeeps ==
  ASSUME LoaderInv, "torn" \notin use, [Next]_vars, ~AgentNext
  PROVE  /\ Position /\ Download => Position' /\ Download'
         /\ RoomForTrailer => RoomForTrailer'
<1>0. LoaderTyped /\ len \in Nat /\ Sectors \in Nat \ {0, 1}
  BY OtaAssumption DEF LoaderInv, LoaderTyped, len, Images
<1>1. CASE Loader
  <2>1. /\ pc' \in LoaderAt \/ (pc = "start" /\ pc' = "idle" /\ magic' = magic)
        /\ magic' \in {magic, "unset"} /\ len' \in {len, 0}
    BY <1>0, <1>1, LoaderGoes DEF len
  <2>2. pc' \in LoaderAt \/ (pc' = "idle" /\ magic' # "good")
    BY <2>1 DEF LoaderInv, MagicInv
  <2>3. Position' /\ Download'
    BY <2>2 DEF Position, Download, Writing, LoaderAt
  <2>4. RoomForTrailer => RoomForTrailer'
    BY <1>0, <2>1, <2>2 DEF RoomForTrailer, Writing, LoaderAt
  <2> QED
    BY <2>3, <2>4
<1>2. CASE power_cycle
  BY <1>2 DEF power_cycle, LoaderInv, QuietInv
<1>3. CASE boot_set_confirmed_multi
  <2>1. pc = "idle" /\ pc' = "idle" /\ UNCHANGED <<slot, magic, size>>
    BY <1>3 DEF boot_set_confirmed_multi, boot_write_trailer, aligned_write, Put, Fault
  <2>2. Download => Download'
    BY <2>1 DEF Download, Writing, Complete, Valid
  <2> QED
    BY <2>1, <2>2 DEF Position, RoomForTrailer, Writing, len
<1>4. CASE reset
  BY <1>4 DEF reset, flash, Position, Download, RoomForTrailer, Writing, LoaderAt, len
<1>5. CASE UNCHANGED vars
  <2>1. UNCHANGED <<pc, slot, magic, size, ret, img_oft, fbuf_idx, kind, got, wr>>
    BY <1>5 DEF vars, loader, flash, ram
  <2> QED
    BY <2>1
    DEF Position, Download, RoomForTrailer, Writing, Written, Trailer, LastBuffered,
        Complete, Valid, Data, len
<1> QED
  BY <1>1, <1>2, <1>3, <1>4, <1>5, Kind

(* The invariant holds at first ... *)
LEMMA OtaInvInit == Init => OtaInv
<1> SUFFICES ASSUME Init PROVE OtaInv
  OBVIOUS
<1> USE OtaAssumption
<1>0. /\ pc = "idle" /\ magic = "unset" /\ bs = NoStatus /\ scratch = "erased"
      /\ tr = [primary |-> Blank, scratch |-> Blank] /\ use \in Uses
  BY DEF Init, LoaderInit
<1>1. PICK r \in Lengths, p \in Lengths \cup {0} :
        /\ size = [run |-> r, prev |-> p, new |-> 0]
        /\ prim = Holds("run", r) /\ slot = Holds("prev", p)
  BY DEF Init, LoaderInit
<1>2. r \in 2..(2 * Sectors - 1) /\ p \in Nat
  BY <1>1
<1>3. prim \in [1..Sectors -> Cells] /\ slot \in [1..Sectors -> Cells]
  BY <1>1, <1>2 DEF Holds, Cells, Images
<1>4. size \in [Images -> Nat] /\ size.run = r /\ size.new = 0
  BY <1>1, <1>2 DEF Images
<1>5. Blank \in Trailers /\ Blank.idx = 0 /\ Blank.state = 0 /\ Blank.magic = "unset"
  BY DEF Blank, Trailers
<1>6. NoStatus \in Statuses
  BY DEF NoStatus, Statuses, Types
<1>7. LoaderTyped
  BY <1>0, <1>3, <1>4, <1>5, <1>6 DEF LoaderTyped, AgentAt, Cells, Magics
<1>8. prim[1] = "run" /\ Whole(prim, size)
  <2>1. \A s \in 1..Sectors : 2 * s - 1 <= r => prim[s] = "run"
    BY <1>1 DEF Holds
  <2>2. prim[1] = "run"
    BY <1>2, <2>1
  <2> QED
    BY <1>2, <1>4, <2>1, <2>2 DEF Whole, Images
<1>9. FlashInv /\ Quiet
  BY <1>0, <1>5, <1>8 DEF FlashInv, Quiet, swap_status_source, Fresh
<1>10. SwapInv /\ RecordInv /\ SectorInv /\ MagicInv /\ QuietInv
  BY <1>0, <1>8, <1>9
  DEF SwapInv, Swapping, Steps, InitSteps, RecordInv, SectorInv, MagicInv, QuietInv
<1>11. AgentTyped
  <2>1. NoWrite \in Writes
    BY DEF NoWrite, Writes, Cells, Magics
  <2> QED
    BY <1>0, <2>1 DEF Init, AgentTyped, Kinds
<1>12. Position /\ Download /\ RoomForTrailer
  BY <1>0, <1>4 DEF Position, Download, RoomForTrailer, Writing, len
<1> QED
  BY <1>0, <1>7, <1>9, <1>10, <1>11, <1>12 DEF OtaInv, LoaderInv

(* The use of a behaviour is chosen at its start. *)
LEMMA UseKept ==
  ASSUME [Next]_vars
  PROVE  use' = use
<1>1. CASE AgentNext
  BY <1>1
  DEF AgentNext, Agent, others, do_mcuboot_agent, check_slot_trailer, get_firmware,
      flash_erase, flash_program, file_write_buffers, file_write_flushes,
      file_write_end, recv_end, file_close, download_failed, boot_set_pending_multi,
      boot_write_swap_info, erase_slot, wdt_expire_now, flash_fails,
      get_firmware_fails, get_firmware_no_length, recv_cut
<1>2. CASE Loader
  BY <1>2
  DEF Loader, swap_read_status, boot_validated_swap_type, boot_validate_slot,
      flash_area_erase, swap_run, boot_swap_sectors_0, swap_status_init,
      boot_swap_sectors_1, boot_swap_sectors_2, boot_erase_scratch, boot_write_status,
      boot_perform_update, context_boot_go, boot_write_trailer, aligned_write, GoTo
<1>3. CASE power_cycle \/ boot_set_confirmed_multi \/ reset \/ UNCHANGED vars
  BY <1>3
  DEF power_cycle, boot_set_confirmed_multi, boot_write_trailer, aligned_write, GoTo,
      reset, vars, loader
<1> QED
  BY <1>1, <1>2, <1>3, Kind

(* ... and every step keeps it. *)
LEMMA OtaInvStep == OtaInv /\ [Next]_vars => OtaInv'
<1> SUFFICES ASSUME OtaInv, [Next]_vars PROVE OtaInv'
  OBVIOUS
<1>1. use' = use /\ use \in Uses
  BY UseKept DEF OtaInv
<1>2. "torn" \notin use => LoaderInv' /\ AgentTyped'
  BY SafeStep DEF OtaInv
<1>3. Only(Uncut) => "torn" \notin use /\ LoaderInv /\ AgentTyped /\ Position /\ Download
  BY DEF OtaInv, Only, Uncut
<1>4. Only(Uncut \ {"large"}) => Only(Uncut) /\ RoomForTrailer
  BY DEF OtaInv, Only
<1>5. Only(Uncut) => Position' /\ Download'
  BY <1>3, ElsewhereKeeps, PositionStep, DownloadStep DEF LoaderInv
<1>6. Only(Uncut \ {"large"}) => RoomForTrailer'
  BY <1>3, <1>4, ElsewhereKeeps, RoomStep DEF LoaderInv
<1> QED
  BY <1>1, <1>2, <1>5, <1>6 DEF OtaInv, Only

(* The inductive invariant: in every use but "torn" the flash holds, at    *)
(* every step of the boot loader and of the agent, what the status that    *)
(* the boot loader will read says; and while nothing cuts a download, the  *)
(* secondary slot holds what has been received.                            *)
THEOREM OtaInvariant == Spec => []OtaInv
  BY OtaInvInit, OtaInvStep, PTL DEF Spec

(* Bootable holds for every size of the slots and of the images and any    *)
(* number of resets, at any write of the swap of swap_scratch.c, of the    *)
(* trailers or of a download, and in a row: context_boot_go always finds   *)
(* an image that validates.                                                *)
THEOREM BootableAlways == Spec => []Bootable
<1>1. OtaInv => Bootable
  BY DEF OtaInv, LoaderInv, QuietInv, Bootable
<1> QED
  BY <1>1, OtaInvariant, PTL

(* PendingComplete holds for every size of the slot and any number of      *)
(* resets: mcuboot_agent.c and boot_set_pending_multi mark an image that   *)
(* is complete, or too large to be marked, while the answer has a length,  *)
(* the connection is not cut, the flash does not fail, and the file is not *)
(* shorter than a sector and, with the header of an image, is one.         *)
THEOREM PendingIsComplete == Spec => []PendingComplete
<1>1. OtaInv => PendingComplete
  BY DEF OtaInv, Download, PendingComplete, Uncut
<1> QED
  BY <1>1, OtaInvariant, PTL

(* ExpireInstalls holds for every size of the slot: do_mcuboot_agent calls *)
(* wdt_expire_now only when a complete image is marked, under the same     *)
(* conditions and for files that leave room for the trailer.               *)
THEOREM ResetOnlyToInstall == Spec => []ExpireInstalls
<1>1. OtaInv => ExpireInstalls
  <2>1. Only({"reset", "server", "junk", "nowdt"}) =>
          Only(Uncut) /\ Only(Uncut \ {"large"})
    BY DEF Only, Uncut
  <2> QED
    BY <2>1 DEF OtaInv, Download, RoomForTrailer, ExpireInstalls, LoaderAt
<1> QED
  BY <1>1, OtaInvariant, PTL
=============================================================================
