------------------------------- MODULE MCIrq -------------------------------
(* Irq on a small pipe. *)
EXTENDS Irq
=============================================================================
