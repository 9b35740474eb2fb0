------------------------------ MODULE MCWorkers ------------------------------
(***************************************************************************)
(* Values of Workers' constants that TLC can check.                        *)
(***************************************************************************)
EXTENDS Workers

CONSTANT on

\* A product that is renamed moves to the front.
MCRank == [d \in Details |-> IF d = on THEN 1 ELSE 0]

ASSUME on # Gone
=============================================================================
