------------------------------ MODULE Mcuboot -------------------------------
(***************************************************************************)
(* The boot loader: what the flash holds, and how MCUboot (lib/scm_mcuboot *)
(* /mcuboot/boot/bootutil, built to swap with a scratch area) makes the    *)
(* image in the secondary slot and the one in the primary slot change      *)
(* places, sector by sector, through any number of resets.                 *)
(*                                                                         *)
(* Lengths are in halves of a sector; the trailer of a slot is the last    *)
(* half of its last sector.  The scratch area is one sector, so a swap     *)
(* moves one sector at a time.  Every write of the boot loader is a step   *)
(* of its own, with resets in between.                                     *)
(***************************************************************************)
EXTENDS Naturals

CONSTANTS Sectors,     \* of a slot
          Lengths,     \* of the images
          MaxFaults,   \* a bound on resets and broken downloads
          Uses         \* the ways things go wrong, see below

(***************************************************************************)
(*   "reset"     the device is reset at any time;                          *)
(*   "torn"      it is reset inside aligned_write, which erases a sector   *)
(*               and programs it again for every field of a trailer;       *)
(*   "server"    there is no connection, or no good answer;                *)
(*   "nolength"  the answer has no Content-Length;                         *)
(*   "junk"      the file is not an image;                                 *)
(*   "foreign"   it has the header of an image but does not validate;      *)
(*   "large"     the file does not leave room for the trailer;             *)
(*   "tiny"      the file is shorter than a sector;                        *)
(*   "cut"       the connection ends before the file does;                 *)
(*   "flash"     writing to the flash fails in the agent;                  *)
(*   "nowdt"     there is no watchdog device: the agent returns instead of *)
(*               resetting, and can be called again.                       *)
(* A behaviour has one use, chosen at its start.                           *)
(***************************************************************************)
Oddities == {"reset", "torn", "server", "nolength", "junk", "foreign", "large",
             "tiny", "cut", "flash", "nowdt"}

ASSUME OtaAssumption ==
  /\ Sectors \in Nat \ {0, 1}
  /\ Lengths \subseteq 2..(2 * Sectors - 1)
  /\ MaxFaults \in Nat
  /\ Uses \subseteq SUBSET Oddities

VARIABLES
  use, faults,
  pc,              \* where the boot loader or the agent is
  prim, slot,      \* what the sectors of the two slots hold
  scratch,         \* what the scratch area holds
  magic,           \* the magic number of the secondary slot's trailer
  tr,              \* the trailers of the primary slot and the scratch area
  bs,              \* struct boot_status
  size,            \* the lengths of the images
  installed        \* a downloaded image has been started

flash == <<prim, slot, scratch, magic, tr>>
loader == <<use, faults, pc, flash, bs, size, installed>>

(***************************************************************************)
(* A sector is "erased", or holds data of the image that runs ("run"), of  *)
(* the last download ("new"), of another complete image ("prev"), of a     *)
(* file that is not an image ("junk"), or of anything else that has the    *)
(* header of an image ("old").                                             *)
(***************************************************************************)
Images == {"run", "prev", "new"}
Cells == Images \cup {"erased", "junk", "old"}

(* A trailer; idx and state are the status bytes, as                       *)
(* swap_read_status_bytes counts them.                                     *)
Blank == [magic |-> "unset", info |-> "none", size |-> 0, done |-> FALSE, ok |-> FALSE,
          idx |-> 0, state |-> 0]

(* on: the area whose trailer is being written; info: the type was found   *)
(* in a trailer.                                                           *)
NoStatus == [idx |-> 0, state |-> 0, type |-> "none", size |-> 0, on |-> "scratch",
             info |-> FALSE]

Holds(l, n) == [s \in 1..Sectors |-> IF 2 * s - 1 <= n THEN l ELSE "erased"]

LoaderInit ==
  /\ use \in Uses
  /\ faults = 0
  /\ pc = "idle"
  /\ \E r \in Lengths, p \in Lengths \cup {0} :
       /\ size = [run |-> r, prev |-> p, new |-> 0]
       /\ prim = Holds("run", r)
       /\ slot = Holds("prev", p)
  /\ scratch = "erased"
  /\ magic = "unset"
  /\ tr = [primary |-> Blank, scratch |-> Blank]
  /\ bs = NoStatus
  /\ installed = FALSE

Fault(kind) == kind \in use /\ faults < MaxFaults /\ faults' = faults + 1

-----------------------------------------------------------------------------
(* Writing *)

(* Sector s of area a holds c, and t if it is the one with the trailer. *)
Put(a, s, c, t) ==
  /\ prim' = IF a = "primary" THEN [prim EXCEPT ![s] = c] ELSE prim
  /\ slot' = IF a = "secondary" THEN [slot EXCEPT ![s] = c] ELSE slot
  /\ scratch' = IF a = "scratch" THEN c ELSE scratch
  /\ magic' = IF a = "secondary" /\ s = Sectors THEN t.magic ELSE magic
  /\ tr' = IF a # "secondary" /\ s = Sectors THEN [tr EXCEPT ![a] = t] ELSE tr

(* One call of aligned_write, after which the boot loader goes on at l     *)
(* with status b; or a reset between its erasure and its programming.      *)
aligned_write(a, s, c, t, l, b) ==
  \/ /\ Put(a, s, c, t)
     /\ pc' = l /\ bs' = b
     /\ UNCHANGED <<use, faults, size, installed>>
  \/ /\ Fault("torn")
     /\ Put(a, s, "erased", Blank)
     /\ pc' = "boot" /\ bs' = NoStatus
     /\ UNCHANGED <<use, size, installed>>

(* The same for a field of a trailer: the data of the sector stays. *)
boot_write_trailer(a, t, l, b) ==
  aligned_write(a, Sectors, IF a = "primary" THEN prim[Sectors] ELSE scratch, t, l, b)

GoTo(l, b) == pc' = l /\ bs' = b /\ UNCHANGED <<use, faults, flash, size, installed>>

-----------------------------------------------------------------------------
(* What to do *)

(* boot_status_tables.  (No data covers the trailer of the primary slot:   *)
(* its magic number is never bad.)                                         *)
swap_status_source ==
  IF tr.scratch.magic = "good" THEN "scratch"
  ELSE IF tr.primary.done THEN "none" ELSE "primary"

(* Mutant: the scratch area is not looked at. *)
swap_read_status_NoScratch ==
  /\ pc = "boot"
  /\ IF tr.primary.idx + tr.primary.state > 0 /\ ~tr.primary.done
       THEN GoTo("resume", [NoStatus EXCEPT !.idx = tr.primary.idx,
                                            !.state = tr.primary.state,
                                            !.type = tr.primary.info,
                                            !.size = tr.primary.size])
       ELSE GoTo("type", [NoStatus EXCEPT !.type = tr.primary.info])

(* The status of a swap under way, if any, and its type. *)
swap_read_status ==
  LET t == IF swap_status_source = "none" THEN Blank ELSE tr[swap_status_source] IN
  /\ pc = "boot"
  /\ GoTo(IF t.idx + t.state > 0 THEN "resume" ELSE "type",
          [NoStatus EXCEPT !.idx = t.idx, !.state = t.state, !.type = t.info,
                           !.size = t.size])

(* boot_swap_tables *)
boot_swap_type_multi ==
  IF magic = "good" THEN "test"
  ELSE IF /\ tr.primary.magic = "good" /\ magic = "unset"
          /\ ~tr.primary.ok /\ tr.primary.done
    THEN "revert" ELSE "none"

boot_validated_swap_type ==
  /\ pc = "type"
  /\ LET type == IF bs.type # "none" THEN bs.type ELSE boot_swap_type_multi IN
     GoTo(IF type = "none" THEN "start" ELSE "validate",
          [bs EXCEPT !.type = type, !.info = (bs.type # "none")])

(* An image of which all sectors are there, and that leaves some room. *)
Valid(area) ==
  /\ area[1] \in Images
  /\ size[area[1]] \in 1..(2 * Sectors - 1)
  /\ \A s \in 1..Sectors : 2 * s - 1 <= size[area[1]] => area[s] = area[1]

(* BOOT_SWAP_TYPE_NONE, or BOOT_SWAP_TYPE_FAIL. *)
NoSwap == IF bs.info THEN "ok" ELSE "start"
Failed == [bs EXCEPT !.type = "fail"]

(* The larger of the two images: boot_swap_image. *)
SizeOf(area) == IF area[1] \in Images THEN size[area[1]] ELSE 0
SwapSize == IF SizeOf(slot) > SizeOf(prim) THEN SizeOf(slot) ELSE SizeOf(prim)

(* The secondary slot: a trailer without an image is erased, and so is an  *)
(* image that is not valid, sector by sector.                              *)
boot_validate_slot ==
  \/ /\ pc = "validate" /\ slot[1] = "erased"
     /\ aligned_write("secondary", Sectors, "erased", Blank, NoSwap, Failed)
  \/ /\ pc = "validate" /\ slot[1] # "erased" /\ ~Valid(slot)
     /\ GoTo("wipe", bs)
  \/ /\ pc = "validate" /\ Valid(slot)
     /\ GoTo("swap", [bs EXCEPT !.size = SwapSize])

Dirty == {s \in 1..Sectors : slot[s] # "erased" \/ (s = Sectors /\ magic # "unset")}

flash_area_erase ==
  /\ pc = "wipe"
  /\ \/ \E s \in Dirty :
          /\ \A r \in Dirty : s <= r
          /\ aligned_write("secondary", s, "erased", Blank, "wipe", bs)
     \/ Dirty = {} /\ GoTo(NoSwap, Failed)

-----------------------------------------------------------------------------
(* The swap *)

(* The sectors go from the last one that an image has to the first. *)
CountOf(n) == (n + 1) \div 2
Count == CountOf(bs.size)
Sector == Count - bs.idx

(* The sector with the trailer is moved: the status is kept in the scratch *)
(* area meanwhile.                                                         *)
use_scratch == bs.idx = 0 /\ Count = Sectors

(* swap_run: the next sector; after the last one boot_perform_update. *)
Turn(b) == IF b.idx < Count THEN "swap" ELSE IF b.type = "revert" THEN "ok" ELSE "done"

swap_run ==
  /\ pc = "resume"
  /\ GoTo(CASE bs.state = 0 -> Turn(bs) [] bs.state = 1 -> "erase1" [] OTHER -> "erase2", bs)

(* boot_swap_sectors, state 0: the sector of the secondary slot is copied  *)
(* to the scratch area.  Before the first one a trailer is written there,  *)
(* and from there to the primary slot unless its last sector is moved.     *)
boot_swap_sectors_0 ==
  \/ /\ pc = "swap"
     /\ aligned_write("scratch", Sectors, "erased", Blank,
                      IF bs.idx = 0 THEN "info" ELSE "copy0", [bs EXCEPT !.on = "scratch"])
  \/ /\ pc = "clear0"
     /\ aligned_write("primary", Sectors, "erased", Blank, "info",
                      [bs EXCEPT !.on = "primary"])
  \/ /\ pc = "copy0"
     /\ aligned_write("scratch", Sectors, slot[Sector], tr.scratch, "status", bs)

(* The trailer with the type, the size and, at last, the magic number. *)
swap_status_init ==
  \/ /\ pc = "info"
     /\ boot_write_trailer(bs.on, [tr[bs.on] EXCEPT !.info = bs.type], "size", bs)
  \/ /\ pc = "size"
     /\ boot_write_trailer(bs.on, [tr[bs.on] EXCEPT !.size = bs.size], "magic", bs)
  \/ /\ pc = "magic"
     /\ boot_write_trailer(bs.on, [tr[bs.on] EXCEPT !.magic = "good"],
                           CASE bs.state = 2 -> "status"
                             [] bs.state # 2 /\ bs.on = "primary" -> "unscratch"
                             [] bs.state # 2 /\ bs.on = "scratch" ->
                                  IF use_scratch THEN "copy0" ELSE "clear0",
                           bs)

(* State 1: the sector of the primary slot is copied to the secondary one, *)
(* and the trailer there is erased.                                        *)
boot_swap_sectors_1 ==
  \/ /\ pc = "erase1"
     /\ aligned_write("secondary", Sector, "erased", Blank, "copy1", bs)
  \/ /\ pc = "copy1"
     /\ aligned_write("secondary", Sector, prim[Sector], [Blank EXCEPT !.magic = magic],
                      IF bs.idx = 0 /\ ~use_scratch THEN "clear1" ELSE "status", bs)
  \/ /\ pc = "clear1"
     /\ aligned_write("secondary", Sectors, "erased", Blank, "status", bs)

(* State 2: the scratch area is copied to the primary slot, with the       *)
(* status if that is there.                                                *)
boot_swap_sectors_2 ==
  \/ /\ pc = "erase2"
     /\ aligned_write("primary", Sector, "erased", Blank, "copy2", bs)
  \/ /\ pc = "copy2"
     /\ aligned_write("primary", Sector, scratch, tr.primary,
                      IF use_scratch THEN "bytes" ELSE "status", bs)
  \/ /\ pc = "bytes"
     /\ boot_write_trailer("primary",
                           [tr.primary EXCEPT !.idx = tr.scratch.idx,
                                              !.state = tr.scratch.state],
                           "info", [bs EXCEPT !.on = "primary"])

(* The trailer of the scratch area is erased when the primary slot has one. *)
boot_erase_scratch ==
  /\ pc = "unscratch"
  /\ aligned_write("scratch", Sectors, "erased", Blank,
                   IF bs.idx = 0 THEN "copy0" ELSE Turn(bs), bs)

boot_write_status ==
  LET area == IF use_scratch /\ bs.state # 2 THEN "scratch" ELSE "primary"
      next == IF bs.state = 2 THEN [bs EXCEPT !.idx = bs.idx + 1, !.state = 0]
                              ELSE [bs EXCEPT !.state = bs.state + 1] IN
  /\ pc = "status"
  /\ boot_write_trailer(area, [tr[area] EXCEPT !.idx = next.idx, !.state = next.state],
                        CASE bs.state = 0 -> "erase1"
                          [] bs.state = 1 -> "erase2"
                          [] OTHER -> IF use_scratch THEN "unscratch" ELSE Turn(next),
                        next)

(* The end of boot_perform_update and of boot_complete_partial_swap. *)
boot_perform_update ==
  \/ /\ pc = "ok" /\ ~tr.primary.ok
     /\ boot_write_trailer("primary", [tr.primary EXCEPT !.ok = TRUE],
                           IF bs.type = "fail" THEN "start" ELSE "done", bs)
  \/ /\ pc = "ok" /\ tr.primary.ok
     /\ GoTo(IF bs.type = "fail" THEN "start" ELSE "done", bs)
  \/ /\ pc = "done"
     /\ boot_write_trailer("primary", [tr.primary EXCEPT !.done = TRUE], "start", bs)

(* Names: the image in the primary slot is now the one that runs. *)
Named == [c \in Cells |->
  CASE prim[1] = "new" /\ c = "new" -> "run"
    [] prim[1] = "new" /\ c = "run" -> "prev"
    [] prim[1] = "new" /\ c = "prev" -> "old"
    [] prim[1] = "prev" /\ c = "prev" -> "run"
    [] prim[1] = "prev" /\ c = "run" -> "prev"
    [] OTHER -> c]

Rename(names) ==
  /\ prim' = [s \in 1..Sectors |-> names[prim[s]]]
  /\ slot' = [s \in 1..Sectors |-> names[slot[s]]]
  /\ scratch' = names[scratch]

(* The image in the primary slot is validated and started. *)
context_boot_go ==
  /\ pc = "start"
  /\ IF Valid(prim)
       THEN /\ pc' = "idle"
            /\ Rename(Named)
            /\ size' = CASE prim[1] = "new" -> [run |-> size.new, prev |-> size.run, new |-> 0]
                         [] prim[1] = "prev" -> [size EXCEPT !.run = size.prev, !.prev = size.run]
                         [] OTHER -> size
            /\ installed' = (installed \/ prim[1] = "new")
       ELSE pc' = "dead" /\ UNCHANGED <<prim, slot, scratch, size, installed>>
  /\ bs' = NoStatus
  /\ UNCHANGED <<use, faults, magic, tr>>

(* The steps of the boot loader. *)
Loader ==
  \/ swap_read_status \/ boot_validated_swap_type \/ boot_validate_slot
  \/ flash_area_erase \/ swap_run
  \/ boot_swap_sectors_0 \/ swap_status_init \/ boot_swap_sectors_1
  \/ boot_swap_sectors_2 \/ boot_erase_scratch \/ boot_write_status
  \/ boot_perform_update \/ context_boot_go

(* No image to start: the boot loader stops until the next power cycle. *)
power_cycle == pc = "dead" /\ GoTo("boot", NoStatus)

(* The command mcuboot_confirm: the image that runs is not to be reverted. *)
boot_set_confirmed_multi ==
  /\ pc = "idle"
  /\ tr.primary.magic = "good" /\ ~tr.primary.ok
  /\ boot_write_trailer("primary", [tr.primary EXCEPT !.ok = TRUE], "idle", bs)

LoaderAt == {"boot", "type", "validate", "wipe", "resume", "swap", "info", "size", "magic",
             "clear0", "copy0", "status", "erase1", "copy1", "clear1", "erase2", "copy2",
             "bytes", "unscratch", "ok", "done", "start", "dead"}
=============================================================================
