---------------------------- MODULE MCShellSession ----------------------------
(***************************************************************************)
(* ShellSession for TLC: the constants are numbers.                        *)
(***************************************************************************)
EXTENDS ShellSession
=============================================================================
