---------------------------- MODULE MCUserTools -----------------------------
(* Instances of UserTools for TLC. *)
EXTENDS UserTools, TLC

Symmetry == Permutations(Tools)
=============================================================================
