-------------------------- MODULE MCApiOperations --------------------------
(***************************************************************************)
(* Finite instances of ApiOperations.                                       *)
(***************************************************************************)
EXTENDS ApiOperations, TLC

Symmetry == Permutations(Requests)
=============================================================================
