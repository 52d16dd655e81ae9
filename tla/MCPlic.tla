------------------------------- MODULE MCPlic -------------------------------
(* Two drivers share a line, two have one of their own. *)
EXTENDS Plic

CONSTANTS l1, l2, l3, uart, i2c, timer0, timer1

MCIrqs == {l1, l2, l3}
MCDrivers == {uart, i2c, timer0, timer1}
MCLine == [d \in MCDrivers |-> CASE d = uart -> l1 [] d = i2c -> l2 [] OTHER -> l3]

(* The drivers that are alone on their lines. *)
AloneLeave == {uart, i2c}

(* A driver that is not. *)
SharerLeaves == {timer0}
=============================================================================
