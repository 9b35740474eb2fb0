---- MODULE MCAdmission ----
(***************************************************************************)
(* Values of Admission's constants that TLC can check.                     *)
(***************************************************************************)
EXTENDS Admission, TLC

CONSTANTS p1, r1, ours, theirs

OneProduct == [rel \in {r1} |-> ours]

Symmetry == Permutations(Requests) \cup Permutations(Rules) \cup Permutations(Updaters)

Given(m, b, r, t) == [mandatory |-> m, bestPractice |-> b, runtime |-> r, metadata |-> t]

\* 89.996 points, stored as 90.0 and rated Gold; 50.005 points, Bronze, stored as either neighbour,
\* from numbers that are no percentages.
Edges == {Given(9000, 9000, 9000, 8992), Given(-5000, 0, 0, 160010)}
====
