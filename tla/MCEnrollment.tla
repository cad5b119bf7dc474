----------------------------- MODULE MCEnrollment -----------------------------
(***************************************************************************)
(* Instances of Enrollment for TLC: agents on hosts of different names,    *)
(* one of which has no valid name.                                         *)
(***************************************************************************)
EXTENDS Enrollment, TLC

CONSTANT Nameless

MCHost == [a \in Agents |-> IF a = Nameless THEN None ELSE a]

Symmetry == Permutations(Tokens) \cup Permutations(Servers) \cup Permutations(Workers)
=============================================================================
