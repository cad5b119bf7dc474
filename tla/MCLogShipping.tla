---------------------------- MODULE MCLogShipping ----------------------------
(***************************************************************************)
(* Instances of LogShipping for TLC.                                       *)
(***************************************************************************)
EXTENDS LogShipping
=============================================================================
