--------------------------- MODULE MCAgentAccounts ---------------------------
(***************************************************************************)
(* Instances of AgentAccounts for TLC.                                     *)
(***************************************************************************)
EXTENDS AgentAccounts, TLC

Symmetry == Permutations(Users) \cup Permutations(Versions)
=============================================================================
