------------------------------ MODULE MCI2sTx ------------------------------
(* A transmit stream with a queue of TxCount blocks, for model checking. *)
EXTENDS I2sTx

(* A use allows what the smaller uses do: everything, and the largest uses *)
(* that BlocksOwned, RunningFed and DrainEnds are about.                   *)
AllUses == {Oddities, {"race", "slow"}, {"short"}}
=============================================================================
