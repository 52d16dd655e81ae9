------------------------------- MODULE MCSpi -------------------------------
(* One controller, two tasks, channels for one transfer and a leaked one. *)
EXTENDS Spi

(* A use allows what the smaller uses do: the largest ones that the        *)
(* properties are about, and the one they leave out.                       *)
AllUses == {{"short", "address", "cancel"}, {"overlap", "timeout", "cancel"},
            {"short", "address"}, {}, {"eager"}}
=============================================================================
