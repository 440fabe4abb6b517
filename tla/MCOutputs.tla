----------------------------- MODULE MCOutputs ------------------------------
(***************************************************************************)
(* TLC instance of Outputs: packets of two units, datagrams of two         *)
(* packets, and a FIFO buffer that is not a multiple of a packet.          *)
(***************************************************************************)
EXTENDS Outputs
=============================================================================
