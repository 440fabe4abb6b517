------------------------------- MODULE MCPsi --------------------------------
(***************************************************************************)
(* TLC instance of Psi: sections of up to three packets, small ones of     *)
(* which two fit into a packet, and headers that are split over packets.   *)
(***************************************************************************)
EXTENDS Psi
=============================================================================
