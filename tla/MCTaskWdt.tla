------------------------------ MODULE MCTaskWdt ------------------------------
(* Two tasks and a clock of sixteen ticks. *)
EXTENDS TaskWdt

CONSTANTS t1, t2

MCWatched == {t1, t2}
=============================================================================
