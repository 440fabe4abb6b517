--------------------------- MODULE MCSupervision ----------------------------
(***************************************************************************)
(* TLC instance of Supervision: a stuck interval below the minimal delay   *)
(* between two tunings, and none.                                          *)
(***************************************************************************)
EXTENDS Supervision
=============================================================================
