-------------------------- MODULE MCActionExecution --------------------------
(***************************************************************************)
(* Finite instances of ActionExecution.                                     *)
(***************************************************************************)
EXTENDS ActionExecution, TLC

=============================================================================
