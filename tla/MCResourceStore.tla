--------------------------- MODULE MCResourceStore ---------------------------
(***************************************************************************)
(* Finite instances of ResourceStore.                                       *)
(***************************************************************************)
EXTENDS ResourceStore, TLC

Symmetry == Permutations(Transactions) \cup Permutations(Resources)
              \cup Permutations(Keys) \cup Permutations(Bodies)
=============================================================================
