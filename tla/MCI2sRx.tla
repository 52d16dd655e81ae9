------------------------------ MODULE MCI2sRx ------------------------------
(* A receive stream with a queue of RxCount blocks, for model checking. *)
EXTENDS I2sRx

(* A use allows what the smaller uses do, and each property excludes at    *)
(* most one oddity: all of them, and all but one, stand for every use.     *)
AllUses == {Oddities} \cup {Oddities \ {o} : o \in Oddities}
=============================================================================
