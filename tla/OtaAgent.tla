------------------------------ MODULE OtaAgent ------------------------------
(***************************************************************************)
(* The firmware update agent, lib/scm_mcuboot/update_agent/                *)
(* mcuboot_agent.c, on the flash layer of the boot loader, mcuboot/boot/   *)
(* wise/src/flash_map_backend: an image is downloaded into the secondary   *)
(* slot, marked as pending by the magic number in the trailer at the end   *)
(* of the slot, and installed by the boot loader (Mcuboot) after a reset.  *)
(*                                                                         *)
(* A sector is erased and then programmed; the device can be reset before, *)
(* between and after.  One recv returns at most half a sector; the write   *)
(* buffer has the size of a sector.                                        *)
(***************************************************************************)
EXTENDS Mcuboot

VARIABLES
  ret,         \* whether the last flash write succeeded
  img_oft, fbuf_idx,   \* sectors written, halves in the write buffer
  kind,        \* the file: "ours" (a valid image), "foreign" or "junk"
  got,         \* halves received
  wr           \* the write under way: [sector, data, magic, then]

ram == <<ret, img_oft, fbuf_idx, kind, got, wr>>
vars == <<loader, ram>>

(* What the agent leaves alone. *)
others == <<use, prim, scratch, tr, bs, installed>>

NoWrite == [sector |-> 0, data |-> "erased", magic |-> "unset", then |-> "idle"]

Init ==
  /\ LoaderInit
  /\ ret = TRUE
  /\ img_oft = 0 /\ fbuf_idx = 0
  /\ kind = "ours"
  /\ got = 0
  /\ wr = NoWrite

(* After a reset the agent starts from nothing. *)
RamLost ==
  /\ ret' = TRUE
  /\ img_oft' = 0 /\ fbuf_idx' = 0
  /\ kind' = "ours"
  /\ got' = 0
  /\ wr' = NoWrite

(* The length of the file. *)
len == size.new

-----------------------------------------------------------------------------
(* The flash layer: flash_area_write for one sector *)

Write(s, data, m, then) ==
  IF s <= Sectors
    THEN /\ wr' = [sector |-> s, data |-> data, magic |-> m, then |-> then]
         /\ pc' = "erase"
         /\ UNCHANGED ret
    ELSE /\ ret' = FALSE
         /\ pc' = then
         /\ UNCHANGED wr

(* aligned_write *)
flash_erase ==
  /\ pc = "erase"
  /\ slot' = [slot EXCEPT ![wr.sector] = "erased"]
  /\ magic' = IF wr.sector = Sectors THEN "unset" ELSE magic
  /\ pc' = "program"
  /\ UNCHANGED <<others, ram, size, faults>>

flash_program ==
  /\ pc = "program"
  /\ slot' = [slot EXCEPT ![wr.sector] = wr.data]
  /\ magic' = IF wr.sector = Sectors THEN wr.magic ELSE magic
  /\ ret' = TRUE
  /\ pc' = wr.then
  /\ wr' = NoWrite
  /\ UNCHANGED <<others, img_oft, fbuf_idx, kind, got, size, faults>>

(* malloc, the erasure or the programming fails. *)
flash_fails ==
  /\ pc \in {"erase", "program"}
  /\ Fault("flash")
  /\ ret' = FALSE
  /\ pc' = wr.then
  /\ wr' = NoWrite
  /\ UNCHANGED <<others, slot, magic, img_oft, fbuf_idx, kind, got, size>>

-----------------------------------------------------------------------------
(* The agent *)

(* The command: img_oft and fbuf_idx are cleared. *)
do_mcuboot_agent ==
  /\ pc = "idle"
  /\ img_oft' = 0 /\ fbuf_idx' = 0
  /\ pc' = "trailer"
  /\ UNCHANGED <<others, slot, magic, ret, kind, got, wr, size, faults>>

(* Mutant: the trailer is left as it is. *)
check_slot_trailer_Skipped ==
  /\ pc = "trailer"
  /\ pc' = "connect"
  /\ UNCHANGED <<others, slot, magic, ram, size, faults>>

(* check_slot_trailer erases a trailer that is not blank; the result of    *)
(* flash_area_erase is not looked at.                                      *)
check_slot_trailer ==
  /\ pc = "trailer"
  /\ IF magic # "unset"
       THEN Write(Sectors, slot[Sectors], "unset", "connect")
       ELSE pc' = "connect" /\ UNCHANGED <<ret, wr>>
  /\ UNCHANGED <<others, slot, magic, img_oft, fbuf_idx, kind, got, size, faults>>

(* get_firmware and http_recv_rsp: no connection, no answer, or one with   *)
(* a bad header, a status other than 200 or a length of 0.                 *)
(* CMD_RET_FAILURE.                                                        *)
get_firmware_fails ==
  /\ pc = "connect"
  /\ Fault("server")
  /\ pc' = "idle"
  /\ UNCHANGED <<others, slot, magic, ram, size>>

(* Names: a new download begins; a complete one that has not been          *)
(* installed becomes the other image.                                      *)
Unnewed == [c \in Cells |->
  CASE c = "new" -> IF slot[1] = "new" /\ Valid(slot) THEN "prev" ELSE "old"
    [] c = "prev" /\ slot[1] = "new" /\ Valid(slot) -> "old"
    [] OTHER -> c]

FileLengths ==
  Lengths \cup (IF "tiny" \in use THEN {1} ELSE {})
          \cup (IF "large" \in use THEN (2 * Sectors)..(2 * Sectors + 2) ELSE {})

NewFile ==
  /\ kind' \in {"ours"} \cup ({"junk", "foreign"} \cap use)
  /\ slot' = [s \in 1..Sectors |-> Unnewed[slot[s]]]
  /\ \E n \in FileLengths :
       size' = [size EXCEPT !.new = n, !.prev = IF slot[1] = "new" /\ Valid(slot)
                                                  THEN size.new ELSE size.prev]

(* The header is there; what it is the header of will be seen. *)
get_firmware ==
  /\ pc = "connect"
  /\ NewFile
  /\ got' = 0
  /\ pc' = "recv"
  /\ UNCHANGED <<others, magic, ret, img_oft, fbuf_idx, wr, faults>>

(* There is no Content-Length: http_file_size returns -1, and nothing is   *)
(* received after what came with the header.                               *)
get_firmware_no_length ==
  /\ pc = "connect"
  /\ "nolength" \in use
  /\ NewFile
  /\ got' \in 0..1
  /\ fbuf_idx' = got'
  /\ pc' = "close"
  /\ UNCHANGED <<others, magic, ret, img_oft, wr, faults>>

Data == CASE kind = "ours" -> "new" [] kind = "foreign" -> "old" [] kind = "junk" -> "junk"

(* recv and file_write: the buffer takes the data ... *)
file_write_buffers ==
  /\ pc = "recv"
  /\ got < len
  /\ fbuf_idx + 1 < 2
  /\ got' = got + 1
  /\ fbuf_idx' = fbuf_idx + 1
  /\ UNCHANGED <<others, slot, magic, pc, ret, img_oft, kind, wr, size, faults>>

(* ... or is full and goes to the flash; in the last sector the data       *)
(* covers the trailer.                                                     *)
file_write_flushes ==
  /\ pc = "recv"
  /\ got < len
  /\ fbuf_idx + 1 >= 2
  /\ got' = got + 1
  /\ Write(img_oft + 1, Data, "bad", "flushed")
  /\ UNCHANGED <<others, slot, magic, img_oft, fbuf_idx, kind, size, faults>>

check_magic == slot[1] \in Images \cup {"old"}

(* Mutant: the first sector is not looked at. *)
file_write_end_NoCheck ==
  /\ pc = "flushed"
  /\ IF ret
       THEN img_oft' = img_oft + 1 /\ fbuf_idx' = 0 /\ pc' = "recv"
       ELSE pc' = "close" /\ UNCHANGED <<img_oft, fbuf_idx>>
  /\ UNCHANGED <<others, slot, magic, ret, kind, got, wr, size, faults>>

(* Mutant: the offset stays, so the sector is written again. *)
file_write_end_KeepsOffset ==
  /\ pc = "flushed"
  /\ IF ret /\ (img_oft = 0 => check_magic)
       THEN img_oft' = img_oft /\ fbuf_idx' = 0 /\ pc' = "recv"
       ELSE pc' = "close" /\ UNCHANGED <<img_oft, fbuf_idx>>
  /\ UNCHANGED <<others, slot, magic, ret, kind, got, wr, size, faults>>

(* The rest of file_write.  After an error http_recv_rsp goes on with      *)
(* file_close, whose result replaces the error.                            *)
file_write_end ==
  /\ pc = "flushed"
  /\ IF ret /\ (img_oft = 0 => check_magic)
       THEN img_oft' = img_oft + 1 /\ fbuf_idx' = 0 /\ pc' = "recv"
       ELSE pc' = "close" /\ UNCHANGED <<img_oft, fbuf_idx>>
  /\ UNCHANGED <<others, slot, magic, ret, kind, got, wr, size, faults>>

(* All of the file is there. *)
recv_end ==
  /\ pc = "recv"
  /\ got = len
  /\ pc' = "close"
  /\ UNCHANGED <<others, slot, magic, ram, size, faults>>

(* recv fails, or the server has closed, maybe right after the header: the *)
(* loop ends all the same.                                                 *)
recv_cut ==
  /\ pc = "recv"
  /\ got < len
  /\ Fault("cut")
  /\ pc' = "close"
  /\ UNCHANGED <<others, slot, magic, ram, size>>

(* The first part of a sector and what was there before make no image. *)
CloseData == IF kind = "ours" /\ 2 * img_oft + fbuf_idx < len THEN "old" ELSE Data

(* file_close: what is in the buffer goes to the flash, after a look at    *)
(* the magic number of what the flash already holds if nothing was written *)
(* before.                                                                 *)
file_close ==
  /\ pc = "close"
  /\ \/ /\ fbuf_idx = 0
        /\ ret' = TRUE /\ pc' = "closed"
        /\ UNCHANGED wr
     \/ /\ fbuf_idx > 0
        /\ img_oft = 0 /\ ~check_magic
        /\ ret' = FALSE /\ pc' = "closed"
        /\ UNCHANGED wr
     \/ /\ fbuf_idx > 0
        /\ img_oft = 0 => check_magic
        /\ Write(img_oft + 1, CloseData, magic, "closed")
  /\ UNCHANGED <<others, slot, magic, img_oft, fbuf_idx, kind, got, size, faults>>

(* The result of get_firmware is that of file_close: CMD_RET_FAILURE ... *)
download_failed ==
  /\ pc = "closed"
  /\ ~ret
  /\ pc' = "idle"
  /\ UNCHANGED <<others, slot, magic, ram, size, faults>>

(* ... or boot_set_pending_multi: the magic number is written to a blank   *)
(* trailer; a slot with a bad one is erased.                               *)
boot_set_pending_multi ==
  /\ pc = "closed"
  /\ ret
  /\ IF magic = "unset"
       THEN Write(Sectors, slot[Sectors], "good", "pending")
       ELSE pc' = (IF magic = "bad" THEN "empty" ELSE "expire") /\ UNCHANGED <<ret, wr>>
  /\ UNCHANGED <<others, slot, magic, img_oft, fbuf_idx, kind, got, size, faults>>

(* boot_write_swap_info writes to the same sector once more. *)
boot_write_swap_info ==
  /\ pc = "pending"
  /\ IF ret THEN Write(Sectors, slot[Sectors], magic, "expire")
            ELSE pc' = "expire" /\ UNCHANGED <<ret, wr>>
  /\ UNCHANGED <<others, slot, magic, img_oft, fbuf_idx, kind, got, size, faults>>

(* flash_area_erase of the slot: sector by sector, until a write fails. *)
erase_slot ==
  /\ pc = "empty"
  /\ \/ \E s \in Dirty :
          /\ ret /\ \A r \in Dirty : s <= r
          /\ Write(s, "erased", "unset", "empty")
     \/ /\ ret => Dirty = {}
        /\ pc' = "expire" /\ UNCHANGED <<ret, wr>>
  /\ UNCHANGED <<others, slot, magic, img_oft, fbuf_idx, kind, got, size, faults>>

(* wdt_expire_now, if there is the device. *)
wdt_expire_now ==
  /\ pc = "expire"
  /\ pc' = IF "nowdt" \in use THEN "idle" ELSE "boot"
  /\ UNCHANGED <<others, slot, magic, size, faults>>
  /\ IF "nowdt" \in use THEN UNCHANGED ram ELSE RamLost

-----------------------------------------------------------------------------
(* The system *)

(* A reset, in the agent or in the boot loader. *)
reset ==
  /\ pc \notin {"boot", "dead"}
  /\ Fault("reset")
  /\ pc' = "boot"
  /\ bs' = NoStatus
  /\ RamLost
  /\ UNCHANGED <<use, flash, size, installed>>

Agent ==
  \/ do_mcuboot_agent \/ check_slot_trailer \/ get_firmware
  \/ flash_erase \/ flash_program
  \/ file_write_buffers \/ file_write_flushes \/ file_write_end \/ recv_end
  \/ file_close \/ download_failed \/ boot_set_pending_multi
  \/ boot_write_swap_info \/ erase_slot \/ wdt_expire_now

boot == Loader /\ UNCHANGED ram

Next ==
  \/ Agent \/ boot
  \/ (power_cycle \/ boot_set_confirmed_multi) /\ UNCHANGED ram
  \/ flash_fails \/ get_firmware_fails \/ get_firmware_no_length \/ recv_cut \/ reset

Spec == Init /\ [][Next]_vars

(* The agent and the boot loader go on, and the agent is called again      *)
(* after it has failed.                                                    *)
FairSpec == Spec /\ WF_vars(Agent) /\ WF_vars(boot)

-----------------------------------------------------------------------------
(* Properties *)

Only(odd) == use \subseteq odd

(* The secondary slot holds all of the last download, and the boot loader  *)
(* will find it valid.                                                     *)
Complete == slot[1] = "new" /\ Valid(slot)

(* An image that is marked as pending is complete, whenever the device is  *)
(* reset and whatever the slot held before.                                *)
PendingComplete ==
  (/\ Only({"reset", "server", "junk", "large", "nowdt"})
   /\ pc \notin LoaderAt /\ magic = "good") => Complete

(* The agent resets the device only for an image that the boot loader will *)
(* install.                                                                *)
ExpireInstalls ==
  (Only({"reset", "server", "junk", "nowdt"}) /\ pc = "expire") =>
    magic = "good" /\ Complete

(* A reset at any write of a swap, or of a download, or of several in a    *)
(* row, leaves an image that the boot loader can start: unless it comes    *)
(* while aligned_write has a sector erased.                                *)
Bootable == "torn" \notin use => pc # "dead"

(* After any number of resets, in the boot loader too, and of broken       *)
(* downloads, an update that is tried again succeeds in the end: no state  *)
(* of the flash is in its way.                                             *)
Recovers == Only({"reset", "server", "cut", "flash"}) ~> installed
=============================================================================
