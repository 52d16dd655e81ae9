----------------------------- MODULE MCOtaAgent -----------------------------
(* Slots of three sectors, images of two and of three of them, and two faults. *)
EXTENDS OtaAgent

(* A use allows what the smaller uses do: the largest ones that the        *)
(* properties are about, and one with everything that only Bootable and    *)
(* the boot loader have to bear.                                           *)
AllUses == {{"reset", "server", "junk", "large", "nowdt"},
            {"reset", "server", "junk", "nowdt"},
            {"reset", "server", "cut", "flash"},
            {"reset", "nolength", "foreign", "tiny"},
            {"torn"}}
=============================================================================
