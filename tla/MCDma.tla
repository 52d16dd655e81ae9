------------------------------- MODULE MCDma -------------------------------
(* The DMA controller for TLC.  Users are strings or model values of the   *)
(* configuration.                                                          *)
EXTENDS Dma
=============================================================================
