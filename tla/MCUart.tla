------------------------------- MODULE MCUart -------------------------------
(* One port and two tasks. *)
EXTENDS Uart

(* A use allows what the smaller uses do: the largest ones that the        *)
(* properties are about, with and without DMA.                             *)
AllUses == {{"timeout", "leave"}, {"timeout", "error", "leave"},
            {"dma", "timeout", "leave", "short"}, {"dma", "duplex", "leave", "short"},
            {"dma", "error", "reset", "short"}}
=============================================================================
