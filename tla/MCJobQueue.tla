----------------------------- MODULE MCJobQueue -----------------------------
(***************************************************************************)
(* Finite instances of JobQueue.                                            *)
(***************************************************************************)
EXTENDS JobQueue, TLC

Symmetry == Permutations(Workers) \cup Permutations(Callers)
=============================================================================
