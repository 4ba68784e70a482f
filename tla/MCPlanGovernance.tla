-------------------------- MODULE MCPlanGovernance --------------------------
(***************************************************************************)
(* Finite instances of PlanGovernance.                                      *)
(***************************************************************************)
EXTENDS PlanGovernance, TLC

Symmetry == Permutations(Actors) \cup Permutations(Threads)
MCApprovals == Plans \X (0 .. 4 * MaxDrafts)
=============================================================================
