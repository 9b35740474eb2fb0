----------------------------- MODULE MCTriggers -----------------------------
(***************************************************************************)
(* Values of Triggers' constants that TLC can check.                       *)
(***************************************************************************)
EXTENDS Triggers
=============================================================================
