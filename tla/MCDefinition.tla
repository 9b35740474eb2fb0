---- MODULE MCDefinition ----
(***************************************************************************)
(* Values of Definition's constants that TLC can check.                    *)
(***************************************************************************)
EXTENDS Definition

\* "padded" is the name build with a blank before or after it.
CONSTANTS build, padded, lint

MCStripped == [n \in Names \cup TaskNames |-> IF n = padded THEN build ELSE n]

Spec1(n, mode, language, tasks) == [name |-> n, mode |-> mode, language |-> language, tasks |-> tasks]
Lint == <<[name |-> lint, extra |-> TRUE]>>

\* Nothing; a stage and one without a name; one name twice, once with a blank.
SomeDocuments ==
  {<<>>,
   <<Spec1(Blank, "parallel", Unset, Lint), Spec1(build, "parallel", "python", Lint)>>,
   <<Spec1(padded, Unset, Unset, Lint), Spec1(build, Unset, Null, <<>>)>>}
====
