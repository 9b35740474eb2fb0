-------------------------- MODULE AssessmentProofs --------------------------
(***************************************************************************)
(* Theorems about the reports: what a report shows and counts while the    *)
(* rows it reads change, and that more evidence, harder tasks and more     *)
(* rows make no report worse, for any pipelines, tasks and controls.       *)
(***************************************************************************)
EXTENDS Assessment, FiniteSetTheorems, WellFoundedInduction, TLAPS

\* Induction over the subsets of a finite set.
LEMMA Subsets ==
  ASSUME NEW S, IsFiniteSet(S), NEW P, {} \in P,
         \A T \in SUBSET S : T # {} /\ (\A U \in SUBSET T : U # T => U \in P) => T \in P
  PROVE  \A T \in SUBSET S : T \in P
<1> DEFINE B == {T \in SUBSET S : T \notin P}
<1> SUFFICES ASSUME B # {} PROVE FALSE
  OBVIOUS
<1>1. IsWellFoundedOn(StrictSubsetOrdering(S), SUBSET S)
  BY FS_StrictSubsetOrderingWellFounded, FS_FiniteSubsetsOfFinite
<1>2. PICK T \in B : \A U \in B : ~(<<U, T>> \in StrictSubsetOrdering(S))
  BY <1>1, WFMin, Zenon
<1>3. \A U \in SUBSET T : U # T => U \in P
  BY <1>2 DEF StrictSubsetOrdering
<1>4. QED
  BY <1>2, <1>3

\* One of the elements of a set, the one a sum takes first.
First(S) == CHOOSE x \in S : TRUE

\* The sums of f over the subsets of S.
SumTable(f, S, g) == g = [T \in SUBSET S |-> IF T = {} THEN 0 ELSE f[First(T)] + g[T \ {First(T)}]]

LEMMA SumIsTable ==
  ASSUME NEW f, NEW S
  PROVE  SumFunctionOnSet(f, S) = (CHOOSE g : SumTable(f, S, g))[S]
BY DEF SumFunctionOnSet, FoldFunctionOnSet, MapThenFoldSet, SumTable, First

LEMMA TablesAgree ==
  ASSUME NEW f, NEW S, IsFiniteSet(S), NEW A \in SUBSET S, NEW B \in SUBSET S, NEW g, NEW h,
         SumTable(f, A, g), SumTable(f, B, h)
  PROVE  \A T \in SUBSET S : T \subseteq A /\ T \subseteq B => g[T] = h[T]
<1> DEFINE P == {T \in SUBSET S : T \subseteq A /\ T \subseteq B => g[T] = h[T]}
<1>1. {} \in P
  BY DEF SumTable
<1>2. ASSUME NEW T \in SUBSET S, T # {}, \A U \in SUBSET T : U # T => U \in P PROVE T \in P
  <2> SUFFICES ASSUME T \subseteq A, T \subseteq B PROVE g[T] = h[T]
    OBVIOUS
  <2> DEFINE x == First(T)  U == T \ {x}
  <2>1. x \in T
    BY <1>2 DEF First
  <2> HIDE DEF x
  <2>2. g[T] = f[x] + g[U] /\ h[T] = f[x] + h[U]
    BY <1>2 DEF SumTable, x
  <2>3. U \in P
    BY <1>2, <2>1
  <2>4. QED
    BY <2>2, <2>3
<1> HIDE DEF P
<1>3. \A T \in SUBSET S : T \in P
  BY <1>1, <1>2, Subsets
<1>4. QED
  BY <1>3 DEF P

LEMMA TablesExist ==
  ASSUME NEW f, NEW S, IsFiniteSet(S)
  PROVE  \A T \in SUBSET S : \E g : SumTable(f, T, g)
<1> DEFINE P == {T \in SUBSET S : \E g : SumTable(f, T, g)}
<1>1. {} \in P
  <2> DEFINE g == [T \in SUBSET {} |-> 0]
  <2>1. SumTable(f, {}, g)
    BY DEF SumTable
  <2>2. QED
    BY <2>1
<1>2. ASSUME NEW T \in SUBSET S, T # {}, \A U \in SUBSET T : U # T => U \in P PROVE T \in P
  <2> DEFINE Of(U) == CHOOSE g : SumTable(f, U, g)
             Less(U) == U \ {First(U)}
             h == [U \in SUBSET T |-> IF U = {} THEN 0 ELSE f[First(U)] + Of(Less(U))[Less(U)]]
  <2>1. ASSUME NEW U \in SUBSET T, U # {} PROVE Less(U) \in SUBSET T /\ Less(U) # T /\ First(U) \in U
    BY <2>1 DEF First
  <2>2. ASSUME NEW U \in SUBSET T, U # T PROVE SumTable(f, U, Of(U))
    BY <1>2, <2>2
  <2> HIDE DEF Less, Of
  <2>3. ASSUME NEW U \in SUBSET T, U # {} PROVE h[Less(U)] = Of(Less(U))[Less(U)]
    <3> DEFINE V == Less(U)  W == Less(V)
    <3>1. V \in SUBSET T /\ V # T
      BY <2>1, <2>3
    <3> HIDE DEF V
    <3>2. SumTable(f, V, Of(V))
      BY <2>2, <3>1
    <3>3. CASE V = {}
      BY <3>1, <3>2, <3>3 DEF SumTable, V
    <3>4. CASE V # {}
      <4>1. W \in SUBSET T /\ W # T /\ W \in SUBSET V
        BY <2>1, <3>1, <3>4 DEF Less
      <4>2. SumTable(f, W, Of(W))
        BY <2>2, <4>1
      <4>3. V \in SUBSET S /\ W \in SUBSET S /\ W \subseteq W /\ W \subseteq V
        BY <3>1, <4>1
      <4> DEFINE w == Of(W)  v == Of(V)
      <4>4. SumTable(f, W, w) /\ SumTable(f, V, v)
        BY <3>2, <4>2
      <4> HIDE DEF W, w, v
      <4>8. w[W] = v[W]
        BY <4>3, <4>4, TablesAgree
      <4>5. Of(V)[V] = f[First(V)] + Of(V)[W]
        BY <3>2, <3>4 DEF SumTable, Less, W
      <4>6. h[V] = f[First(V)] + Of(W)[W]
        BY <3>1, <3>4 DEF W
      <4>7. QED
        BY <4>5, <4>6, <4>8 DEF V, w, v
    <3>5. QED
      BY <3>3, <3>4
  <2>4. \A U \in SUBSET T : h[U] = IF U = {} THEN 0 ELSE f[First(U)] + h[Less(U)]
    BY <2>3
  <2>5. h = [U \in SUBSET T |-> h[U]]
    OBVIOUS
  <2> HIDE DEF h
  <2>6. SumTable(f, T, h)
    BY <2>4, <2>5 DEF SumTable, Less
  <2>7. QED
    BY <2>6
<1> HIDE DEF P
<1>3. \A T \in SUBSET S : T \in P
  BY <1>1, <1>2, Subsets
<1>4. QED
  BY <1>3 DEF P

LEMMA SumFirst ==
  ASSUME NEW f, NEW S, IsFiniteSet(S)
  PROVE  SumFunctionOnSet(f, S) = IF S = {} THEN 0 ELSE f[First(S)] + SumFunctionOnSet(f, S \ {First(S)})
<1> DEFINE Of(U) == CHOOSE g : SumTable(f, U, g)
           T == S \ {First(S)}
<1>1. SumTable(f, S, Of(S)) /\ SumTable(f, T, Of(T))
  BY TablesExist
<1>2. SumFunctionOnSet(f, S) = Of(S)[S] /\ SumFunctionOnSet(f, T) = Of(T)[T]
  BY SumIsTable
<1> HIDE DEF Of
<1>3. Of(S)[T] = Of(T)[T]
  BY <1>1, TablesAgree
<1>4. Of(S)[S] = IF S = {} THEN 0 ELSE f[First(S)] + Of(S)[T]
  BY <1>1 DEF SumTable
<1>5. QED
  BY <1>2, <1>3, <1>4

LEMMA SumEmpty == \A f : SumFunctionOnSet(f, {}) = 0
<1>1. IsFiniteSet({})
  BY FS_EmptySet
<1>2. QED
  BY <1>1, SumFirst

LEMMA SumType ==
  ASSUME NEW S, IsFiniteSet(S), NEW f, \A x \in S : f[x] \in Nat
  PROVE  SumFunctionOnSet(f, S) \in Nat
<1> DEFINE P == {T \in SUBSET S : SumFunctionOnSet(f, T) \in Nat}
<1>1. {} \in P
  BY SumEmpty
<1>2. ASSUME NEW T \in SUBSET S, T # {}, \A U \in SUBSET T : U # T => U \in P PROVE T \in P
  <2> DEFINE x == First(T)  U == T \ {x}
  <2>1. x \in T
    BY <1>2 DEF First
  <2>2. IsFiniteSet(T)
    BY FS_Subset
  <2>3. SumFunctionOnSet(f, T) = f[x] + SumFunctionOnSet(f, U)
    BY <1>2, <2>2, SumFirst
  <2> HIDE DEF x
  <2>4. SumFunctionOnSet(f, U) \in Nat
    BY <1>2, <2>1
  <2>5. QED
    BY <2>1, <2>3, <2>4
<1> HIDE DEF P
<1>3. \A T \in SUBSET S : T \in P
  BY <1>1, <1>2, Subsets
<1>4. QED
  BY <1>3 DEF P

\* Any element may be taken first.
LEMMA SumAny ==
  ASSUME NEW S, IsFiniteSet(S), NEW f, \A x \in S : f[x] \in Nat
  PROVE  \A x \in S : SumFunctionOnSet(f, S) = f[x] + SumFunctionOnSet(f, S \ {x})
<1> DEFINE Sum(T) == SumFunctionOnSet(f, T)
           P == {T \in SUBSET S : \A x \in T : Sum(T) = f[x] + Sum(T \ {x})}
<1>0. \A T \in SUBSET S : IsFiniteSet(T) /\ Sum(T) \in Nat
  BY FS_Subset, SumType
<1>1. {} \in P
  OBVIOUS
<1>2. ASSUME NEW T \in SUBSET S, T # {}, \A U \in SUBSET T : U # T => U \in P PROVE T \in P
  <2> SUFFICES ASSUME NEW x \in T PROVE Sum(T) = f[x] + Sum(T \ {x})
    OBVIOUS
  <2> DEFINE c == First(T)
  <2>1. c \in T
    BY <1>2 DEF First
  <2>2. Sum(T) = f[c] + Sum(T \ {c})
    BY <1>0, <1>2, SumFirst
  <2> HIDE DEF c, Sum
  <2>3. CASE c = x
    BY <2>2, <2>3
  <2>4. CASE c # x
    <3> DEFINE U == T \ {c}  V == T \ {x}  W == T \ {c, x}
    <3>1. U \in P /\ V \in P /\ x \in U /\ c \in V /\ U \ {x} = W /\ V \ {c} = W
      BY <1>2, <2>1, <2>4
    <3>2. Sum(U) = f[x] + Sum(W) /\ Sum(V) = f[c] + Sum(W)
      BY <3>1
    <3>3. f[x] \in Nat /\ f[c] \in Nat /\ Sum(W) \in Nat
      BY <1>0, <2>1
    <3> HIDE DEF U, V, W
    <3>4. QED
      BY <2>2, <3>2, <3>3 DEF U, V
  <2>5. QED
    BY <2>3, <2>4
<1> HIDE DEF P, Sum
<1>3. \A T \in SUBSET S : T \in P
  BY <1>1, <1>2, Subsets
<1>4. QED
  BY <1>3 DEF P, Sum

\* Smaller terms, a smaller sum.
LEMMA SumGrows ==
  ASSUME NEW S, IsFiniteSet(S), NEW f, NEW g, \A x \in S : f[x] \in Nat /\ g[x] \in Nat /\ f[x] <= g[x]
  PROVE  SumFunctionOnSet(f, S) <= SumFunctionOnSet(g, S)
<1> DEFINE F(T) == SumFunctionOnSet(f, T)  G(T) == SumFunctionOnSet(g, T)
           P == {T \in SUBSET S : F(T) <= G(T)}
<1>0. \A T \in SUBSET S : IsFiniteSet(T) /\ F(T) \in Nat /\ G(T) \in Nat
  BY FS_Subset, SumType
<1>1. {} \in P
  BY SumEmpty
<1>2. ASSUME NEW T \in SUBSET S, T # {}, \A U \in SUBSET T : U # T => U \in P PROVE T \in P
  <2> DEFINE x == First(T)  U == T \ {x}
  <2>1. x \in T
    BY <1>2 DEF First
  <2>2. F(T) = f[x] + F(U) /\ G(T) = g[x] + G(U)
    BY <1>0, <1>2, SumFirst
  <2> HIDE DEF x, F, G
  <2>3. F(U) <= G(U) /\ F(U) \in Nat /\ G(U) \in Nat
    BY <1>0, <1>2, <2>1
  <2>4. f[x] \in Nat /\ g[x] \in Nat /\ f[x] <= g[x]
    BY <2>1
  <2>5. F(T) <= G(T)
    BY <2>2, <2>3, <2>4
  <2>6. QED
    BY <2>5
<1> HIDE DEF P, F, G
<1>3. \A T \in SUBSET S : T \in P
  BY <1>1, <1>2, Subsets
<1>4. QED
  BY <1>3 DEF P, F, G

\* Terms of at most 1000 (or 12).
LEMMA SumBounded ==
  ASSUME NEW S, IsFiniteSet(S), NEW f, NEW k \in {12, 1000}, \A x \in S : f[x] \in Nat /\ f[x] <= k
  PROVE  SumFunctionOnSet(f, S) <= k * Cardinality(S)
<1> DEFINE F(T) == SumFunctionOnSet(f, T)
           P == {T \in SUBSET S : F(T) <= k * Cardinality(T)}
<1>0. \A T \in SUBSET S : IsFiniteSet(T) /\ F(T) \in Nat /\ Cardinality(T) \in Nat
  BY FS_Subset, SumType, FS_CardinalityType
<1>1. {} \in P
  BY SumEmpty, FS_EmptySet
<1>2. ASSUME NEW T \in SUBSET S, T # {}, \A U \in SUBSET T : U # T => U \in P PROVE T \in P
  <2> DEFINE x == First(T)  U == T \ {x}
  <2>1. x \in T
    BY <1>2 DEF First
  <2>2. F(T) = f[x] + F(U)
    BY <1>0, <1>2, SumFirst
  <2>3. Cardinality(U) = Cardinality(T) - 1
    BY <1>0, <2>1, FS_RemoveElement
  <2> HIDE DEF x, F
  <2>4. F(U) <= k * Cardinality(U) /\ F(U) \in Nat /\ Cardinality(T) \in Nat
    BY <1>0, <1>2, <2>1
  <2>5. f[x] \in Nat /\ f[x] <= k
    BY <2>1
  <2> HIDE DEF U
  <2>6. F(T) <= k * Cardinality(T)
    <3>1. k = 12 \/ k = 1000
      OBVIOUS
    <3>2. QED
      BY <2>2, <2>3, <2>4, <2>5, <3>1
  <2>7. QED
    BY <2>6
<1> HIDE DEF P, F
<1>3. \A T \in SUBSET S : T \in P
  BY <1>1, <1>2, Subsets
<1>4. QED
  BY <1>3 DEF P, F

\* Smaller terms have the same sum only if they are the same.
LEMMA SumEqual ==
  ASSUME NEW S, IsFiniteSet(S), NEW f, NEW g,
         \A x \in S : f[x] \in Nat /\ g[x] \in Nat /\ f[x] <= g[x],
         SumFunctionOnSet(f, S) = SumFunctionOnSet(g, S)
  PROVE  \A x \in S : f[x] = g[x]
<1> SUFFICES ASSUME NEW x \in S PROVE f[x] = g[x]
  OBVIOUS
<1> DEFINE U == S \ {x}  F(T) == SumFunctionOnSet(f, T)  G(T) == SumFunctionOnSet(g, T)
<1>1. F(S) = f[x] + F(U) /\ G(S) = g[x] + G(U)
  BY SumAny
<1>2. IsFiniteSet(U)
  BY FS_Subset
<1>3. F(U) \in Nat /\ G(U) \in Nat /\ F(U) <= G(U)
  BY <1>2, SumType, SumGrows
<1>4. f[x] \in Nat /\ g[x] \in Nat /\ f[x] <= g[x] /\ F(S) = G(S)
  OBVIOUS
<1> HIDE DEF U, F, G
<1>5. QED
  BY <1>1, <1>3, <1>4

-----------------------------------------------------------------------------
(* Maturity scores.                                                        *)

LEMMA OneMore ==
  ASSUME NEW S, IsFiniteSet(S), NEW x
  PROVE  /\ IsFiniteSet(S \cup {x}) /\ Cardinality(S) \in Nat /\ Cardinality(S \cup {x}) \in Nat
         /\ Cardinality(S \cup {x}) <= Cardinality(S) + 1
BY FS_AddElement, FS_CardinalityType

LEMMA FiveElements ==
  ASSUME NEW a, NEW b, NEW c, NEW d, NEW e
  PROVE  IsFiniteSet({a, b, c, d, e}) /\ Cardinality({a, b, c, d, e}) <= 5
<1> DEFINE A == {a}  B == A \cup {b}  C == B \cup {c}  D == C \cup {d}  E == D \cup {e}
<1>1. E = {a, b, c, d, e}
  OBVIOUS
<1>2. IsFiniteSet(A) /\ Cardinality(A) = 1
  BY FS_Singleton
<1> HIDE DEF A
<1>3. IsFiniteSet(B) /\ Cardinality(B) \in Nat /\ Cardinality(B) <= Cardinality(A) + 1
  BY <1>2, OneMore
<1> HIDE DEF B
<1>4. IsFiniteSet(C) /\ Cardinality(C) \in Nat /\ Cardinality(C) <= Cardinality(B) + 1
  BY <1>3, OneMore
<1> HIDE DEF C
<1>5. IsFiniteSet(D) /\ Cardinality(D) \in Nat /\ Cardinality(D) <= Cardinality(C) + 1
  BY <1>4, OneMore
<1> HIDE DEF D
<1>6. IsFiniteSet(E) /\ Cardinality(E) \in Nat /\ Cardinality(E) <= Cardinality(D) + 1
  BY <1>5, OneMore
<1> HIDE DEF E
<1>7. QED
  BY <1>1, <1>2, <1>3, <1>4, <1>5, <1>6

LEMMA Together ==
  ASSUME NEW S, NEW T, IsFiniteSet(S), IsFiniteSet(T)
  PROVE  /\ IsFiniteSet(S \cup T) /\ Cardinality(S \cup T) <= Cardinality(S) + Cardinality(T)
         /\ Cardinality(S) \in Nat /\ Cardinality(T) \in Nat /\ Cardinality(S \cup T) \in Nat
<1>1. IsFiniteSet(S \cup T) /\ IsFiniteSet(S \cap T)
  BY FS_Union, FS_Intersection
<1>2. Cardinality(S \cup T) = Cardinality(S) + Cardinality(T) - Cardinality(S \cap T)
  BY FS_Union
<1>3. /\ Cardinality(S) \in Nat /\ Cardinality(T) \in Nat /\ Cardinality(S \cup T) \in Nat
      /\ Cardinality(S \cap T) \in Nat
  BY <1>1, FS_CardinalityType
<1>4. QED
  BY <1>1, <1>2, <1>3

LEMMA TwentyDimensions == IsFiniteSet(Dimensions) /\ Cardinality(Dimensions) <= 20
<1> DEFINE A == {"sast", "sca", "dast", "unit_testing", "integration_testing"}
           B == {"code_coverage", "smoke_testing", "release_practices", "environment_promotion",
                 "security_gates"}
           C == {"container_security", "secret_scanning", "iac_security", "api_security", "supply_chain"}
           D == {"observability", "performance_testing", "artifact_management", "compliance_as_code",
                 "vulnerability_management"}
<1>1. Dimensions = (A \cup B) \cup (C \cup D)
  BY DEF Dimensions, DimensionRows, Over, TestingDimensions, DeliveryDimensions, OperationDimensions
<1>2. /\ IsFiniteSet(A) /\ Cardinality(A) <= 5 /\ IsFiniteSet(B) /\ Cardinality(B) <= 5
      /\ IsFiniteSet(C) /\ Cardinality(C) <= 5 /\ IsFiniteSet(D) /\ Cardinality(D) <= 5
  BY FiveElements
<1> HIDE DEF A, B, C, D
<1>3. /\ IsFiniteSet(A \cup B) /\ Cardinality(A \cup B) \in Nat /\ Cardinality(A \cup B) <= 10
      /\ IsFiniteSet(C \cup D) /\ Cardinality(C \cup D) \in Nat /\ Cardinality(C \cup D) <= 10
  BY <1>2, Together
<1> DEFINE E == A \cup B  F == C \cup D
<1> HIDE DEF E, F
<1>4. IsFiniteSet(E \cup F) /\ Cardinality(E \cup F) <= Cardinality(E) + Cardinality(F)
  BY <1>3, Together DEF E, F
<1>5. Cardinality(E \cup F) \in Nat
  BY <1>4, FS_CardinalityType
<1>6. QED
  BY <1>1, <1>3, <1>4, <1>5 DEF E, F

LEMMA DimensionValues ==
  /\ \A d \in Dimensions : DimensionRows[d].weight \in {2, 3, 4}
  /\ "sast" \in Dimensions /\ DimensionRows["sast"].kinds = Kinds
BY DEF Dimensions, DimensionRows, Over, TestingDimensions, DeliveryDimensions, OperationDimensions, Row

LEMMA ApplicableDimensions ==
  ASSUME NEW kind \in Kinds
  PROVE  /\ Applicable(kind) \subseteq Dimensions /\ "sast" \in Applicable(kind)
         /\ IsFiniteSet(Applicable(kind)) /\ Cardinality(Applicable(kind)) <= 20
         /\ Cardinality(Applicable(kind)) \in Nat
<1>1. Applicable(kind) \subseteq Dimensions /\ "sast" \in Applicable(kind)
  BY DimensionValues DEF Applicable
<1>2. IsFiniteSet(Applicable(kind)) /\ Cardinality(Applicable(kind)) <= Cardinality(Dimensions)
  BY <1>1, TwentyDimensions, FS_Subset
<1>3. Cardinality(Applicable(kind)) \in Nat /\ Cardinality(Dimensions) \in Nat
  BY <1>2, TwentyDimensions, FS_CardinalityType
<1>4. QED
  BY <1>1, <1>2, <1>3, TwentyDimensions

\* The best of some scores.
LEMMA Best ==
  ASSUME NEW S, S \subseteq 0..3
  PROVE  /\ Max({0} \cup S) \in 0..3
         /\ Max({0} \cup S) \in {0} \cup S /\ \A x \in {0} \cup S : x <= Max({0} \cup S)
<1> DEFINE B == {0} \cup S
<1>1. B \subseteq 0..3 /\ 0 \in B
  OBVIOUS
<1>2. \E x \in B : \A y \in B : x >= y
  <2>1. CASE 3 \in B
    BY <1>1, <2>1
  <2>2. CASE 3 \notin B /\ 2 \in B
    BY <1>1, <2>2
  <2>3. CASE 3 \notin B /\ 2 \notin B /\ 1 \in B
    BY <1>1, <2>3
  <2>4. CASE 3 \notin B /\ 2 \notin B /\ 1 \notin B
    BY <1>1, <2>4
  <2>5. QED
    BY <2>1, <2>2, <2>3, <2>4
<1>3. Max(B) \in B /\ \A y \in B : Max(B) >= y
  <2> HIDE DEF B
  <2>1. QED
    BY <1>2 DEF Max
<1>4. QED
  BY <1>1, <1>3

LEMMA BestGrows ==
  ASSUME NEW S, NEW T, S \subseteq 0..3, T \subseteq 0..3, \A x \in S : \E y \in T : x <= y
  PROVE  Max({0} \cup S) <= Max({0} \cup T)
<1> DEFINE m == Max({0} \cup S)  n == Max({0} \cup T)
<1>1. m \in 0..3 /\ m \in {0} \cup S /\ n \in 0..3 /\ \A x \in {0} \cup T : x <= n
  BY Best
<1> HIDE DEF m, n
<1>2. ASSUME m = 0 PROVE m <= n
  BY <1>1, <1>2
<1>3. ASSUME m \in S PROVE m <= n
  <2>1. PICK y \in T : m <= y
    BY <1>3
  <2>2. y \in 0..3 /\ y <= n
    BY <1>1, <2>1
  <2>3. QED
    BY <1>1, <2>1, <2>2
<1>4. m <= n
  BY <1>1, <1>2, <1>3
<1>5. QED
  BY <1>4 DEF m, n

LEMMA TaskScores ==
  ASSUME NEW t \in Tasks, NEW d PROVE TaskScore(t, d) \in 0..3
BY DEF TaskScore

\* A harder task scores no less.
LEMMA HarderTask ==
  ASSUME NEW t \in Tasks, NEW u \in Tasks, HardenedInto(t, u), NEW d
  PROVE  TaskScore(t, d) <= TaskScore(u, d)
<1> DEFINE Configured(x) == Tagged(x, d) \/ d \in x.named \/ (d \in x.text /\ x.slow)
<1>1. Configured(t) => Configured(u)
  BY DEF HardenedInto, Tagged
<1>2. (d \in t.text => d \in u.text) /\ (t.required /\ t.failFast => u.required /\ u.failFast)
  BY DEF HardenedInto
<1>3. \A x \in {t, u} :
        TaskScore(x, d) = IF Configured(x) THEN (IF x.required /\ x.failFast THEN 3 ELSE 2)
                          ELSE IF d \in x.text THEN 1 ELSE 0
  BY DEF TaskScore
<1> HIDE DEF Configured
<1>4. QED
  BY <1>1, <1>2, <1>3

\* Tasks of which each has one as hard or harder.
Harder(tasks, others) ==
  /\ tasks \subseteq Tasks /\ others \subseteq Tasks
  /\ \A t \in tasks : \E u \in others : HardenedInto(t, u)

LEMMA DimensionScores ==
  ASSUME NEW kind, NEW tasks, tasks \subseteq Tasks, NEW d
  PROVE  DimensionScore(kind, tasks, d) \in 0..3
<1> DEFINE S == {TaskScore(t, d) : t \in tasks}
<1>1. S \subseteq 0..3
  BY TaskScores
<1> HIDE DEF S
<1>2. Max({0} \cup S) \in 0..3
  BY <1>1, Best
<1>3. QED
  BY <1>2 DEF DimensionScore, S

LEMMA HarderDimension ==
  ASSUME NEW kind, NEW tasks, NEW others, Harder(tasks, others), NEW d
  PROVE  DimensionScore(kind, tasks, d) <= DimensionScore(kind, others, d)
<1> DEFINE S == {TaskScore(t, d) : t \in tasks}  T == {TaskScore(t, d) : t \in others}
<1>1. S \subseteq 0..3 /\ T \subseteq 0..3
  BY TaskScores DEF Harder
<1>2. \A x \in S : \E y \in T : x <= y
  <2> SUFFICES ASSUME NEW t \in tasks PROVE \E y \in T : TaskScore(t, d) <= y
    OBVIOUS
  <2>1. PICK u \in others : HardenedInto(t, u)
    BY DEF Harder
  <2>2. TaskScore(t, d) <= TaskScore(u, d)
    BY <2>1, HarderTask DEF Harder
  <2>3. QED
    BY <2>2
<1> HIDE DEF S, T
<1>3. Max({0} \cup S) <= Max({0} \cup T)
  BY <1>1, <1>2, BestGrows
<1>4. QED
  BY <1>3 DEF DimensionScore, S, T

LEMMA Weighted ==
  \A x \in 0..3, y \in 0..3, w \in {2, 3, 4} :
    /\ x * w \in Nat /\ 3 * w \in Nat /\ 3 * w <= 12 /\ 3 * w >= 1
    /\ x * w <= 3 * w /\ (x * w = 3 * w <=> x = 3) /\ (x <= y => x * w <= y * w)
OBVIOUS

\* The terms of the two sums.
EarnedBy(kind, tasks) == [d \in Applicable(kind) |-> DimensionScore(kind, tasks, d) * DimensionRows[d].weight]
PossibleBy(kind) == [d \in Applicable(kind) |-> 3 * DimensionRows[d].weight]

LEMMA Terms ==
  /\ \A kind, tasks : Earned(kind, tasks) = SumFunctionOnSet(EarnedBy(kind, tasks), Applicable(kind))
  /\ \A kind : Possible(kind) = SumFunctionOnSet(PossibleBy(kind), Applicable(kind))
BY DEF Earned, Possible, SumFunction, EarnedBy, PossibleBy

\* All the points are earned exactly if every dimension that applies is at its best.
LEMMA Points ==
  ASSUME NEW kind \in Kinds, NEW tasks, tasks \subseteq Tasks
  PROVE  /\ Earned(kind, tasks) \in Nat /\ Possible(kind) \in 1..240
         /\ Earned(kind, tasks) <= Possible(kind)
         /\ Earned(kind, tasks) = Possible(kind)
              <=> \A d \in Applicable(kind) : DimensionScore(kind, tasks, d) = 3
<1> DEFINE S == Applicable(kind)  f == EarnedBy(kind, tasks)  g == PossibleBy(kind)
           D(d) == DimensionScore(kind, tasks, d)
<1>1. /\ IsFiniteSet(S) /\ Cardinality(S) <= 20 /\ Cardinality(S) \in Nat
      /\ S \subseteq Dimensions /\ "sast" \in S
  BY ApplicableDimensions
<1>2. ASSUME NEW d \in S
      PROVE  /\ f[d] \in Nat /\ g[d] \in Nat /\ f[d] <= g[d] /\ g[d] <= 12 /\ g[d] >= 1
             /\ f[d] = g[d] <=> D(d) = 3
  <2>1. D(d) \in 0..3 /\ DimensionRows[d].weight \in {2, 3, 4}
    BY <1>1, DimensionScores, DimensionValues
  <2>2. f[d] = D(d) * DimensionRows[d].weight /\ g[d] = 3 * DimensionRows[d].weight
    BY DEF EarnedBy, PossibleBy
  <2> HIDE DEF D, f, g
  <2>3. QED
    BY <2>1, <2>2, Weighted
<1> HIDE DEF S, f, g
<1> DEFINE F == SumFunctionOnSet(f, S)  G == SumFunctionOnSet(g, S)
<1>3. F \in Nat /\ G \in Nat /\ F <= G
  BY <1>1, <1>2, SumType, SumGrows
<1>4. G <= 12 * Cardinality(S)
  BY <1>1, <1>2, SumBounded
<1>5. G >= 1
  <2> DEFINE H == SumFunctionOnSet(g, S \ {"sast"})
  <2>1. G = g["sast"] + H
    BY <1>1, <1>2, SumAny
  <2>2. IsFiniteSet(S \ {"sast"})
    BY <1>1, FS_Subset
  <2>3. H \in Nat
    BY <1>2, <2>2, SumType
  <2>4. g["sast"] \in Nat /\ g["sast"] >= 1
    BY <1>1, <1>2
  <2> HIDE DEF G, H
  <2>5. QED
    BY <2>1, <2>3, <2>4
<1>6. F = G <=> \A d \in S : f[d] = g[d]
  <2>1. F = G => \A d \in S : f[d] = g[d]
    BY <1>1, <1>2, SumEqual
  <2>2. (\A d \in S : f[d] = g[d]) => F <= G /\ G <= F
    BY <1>1, <1>2, <1>3, SumGrows
  <2> HIDE DEF F, G
  <2>3. QED
    BY <1>3, <2>1, <2>2
<1>7. F = Earned(kind, tasks) /\ G = Possible(kind)
  BY Terms DEF S, f, g
<1> HIDE DEF F, G
<1>8. G \in 1..240
  BY <1>1, <1>3, <1>4, <1>5
<1>9. F = G <=> \A d \in S : D(d) = 3
  BY <1>2, <1>6
<1>10. QED
  BY <1>3, <1>7, <1>8, <1>9 DEF S

LEMMA MorePoints ==
  ASSUME NEW kind \in Kinds, NEW tasks, NEW others, Harder(tasks, others)
  PROVE  Earned(kind, tasks) <= Earned(kind, others)
<1> DEFINE S == Applicable(kind)  f == EarnedBy(kind, tasks)  g == EarnedBy(kind, others)
<1>1. IsFiniteSet(S) /\ S \subseteq Dimensions
  BY ApplicableDimensions
<1>2. ASSUME NEW d \in S PROVE f[d] \in Nat /\ g[d] \in Nat /\ f[d] <= g[d]
  <2> DEFINE x == DimensionScore(kind, tasks, d)  y == DimensionScore(kind, others, d)
  <2>1. x \in 0..3 /\ y \in 0..3 /\ DimensionRows[d].weight \in {2, 3, 4}
    BY <1>1, DimensionScores, DimensionValues DEF Harder
  <2>2. x <= y
    BY HarderDimension
  <2>3. f[d] = x * DimensionRows[d].weight /\ g[d] = y * DimensionRows[d].weight
    BY DEF EarnedBy
  <2> HIDE DEF x, y, f, g
  <2>4. QED
    BY <2>1, <2>2, <2>3, Weighted
<1>3. SumFunctionOnSet(f, S) <= SumFunctionOnSet(g, S)
  <2> HIDE DEF S, f, g
  <2>1. QED
    BY <1>1, <1>2, SumGrows
<1>4. QED
  BY <1>3, Terms

-----------------------------------------------------------------------------
(* Rounding.                                                               *)

LEMMA Quotient ==
  ASSUME NEW n \in Nat, NEW d \in Nat \ {0}
  PROVE  n \div d \in Nat /\ d * (n \div d) <= n /\ n < d * (n \div d) + d
<1>1. n \div d \in Int /\ n \div d >= 0
  OBVIOUS
<1>2. d * (n \div d) <= n
  OBVIOUS
<1>3. n < d * (n \div d) + d
  OBVIOUS
<1>4. QED
  BY <1>1, <1>2, <1>3

LEMMA Times ==
  \A d \in Nat \ {0}, a \in Nat, b \in Nat :
    /\ a < b => d * a + d <= d * b
    /\ d * a = a * d /\ d * a \in Nat /\ d * (a + 1) = d * a + d
OBVIOUS

\* What n / d is rounded to lies within half of d.
LEMMA NearestValues ==
  ASSUME NEW n \in Nat, NEW d \in Nat \ {0}
  PROVE  /\ Nearest(n, d) # {}
         /\ \A m \in Nearest(n, d) : m \in Nat /\ 2 * (d * m - n) <= d /\ -d <= 2 * (d * m - n)
<1> DEFINE q == n \div d  x == d * q  y == d * (q + 1)
<1>1. q \in Nat /\ x \in Nat /\ y = x + d /\ x = q * d /\ y = (q + 1) * d /\ x <= n /\ n < x + d
  <2>1. q \in Nat /\ x <= n /\ n < x + d
    BY Quotient
  <2> HIDE DEF q
  <2>2. q + 1 \in Nat
    BY <2>1
  <2>3. QED
    BY <2>1, <2>2, Times
<1>2. Nearest(n, d) = {m \in {q, q + 1} : 2 * (m * d - n) \in -d .. d}
  BY DEF Nearest
<1> HIDE DEF q, x, y
<1>3. q \in Nearest(n, d) <=> 2 * (x - n) \in -d .. d
  BY <1>1, <1>2
<1>4. q + 1 \in Nearest(n, d) <=> 2 * (y - n) \in -d .. d
  BY <1>1, <1>2
<1>5. 2 * (x - n) \in -d .. d \/ 2 * (y - n) \in -d .. d
  BY <1>1
<1>6. ASSUME NEW m \in Nearest(n, d) PROVE m \in Nat /\ 2 * (d * m - n) <= d /\ -d <= 2 * (d * m - n)
  <2>1. m = q \/ m = q + 1
    BY <1>2
  <2>2. CASE m = q
    BY <1>1, <1>3, <2>2 DEF x
  <2>3. CASE m = q + 1
    BY <1>1, <1>4, <2>3 DEF y
  <2>4. QED
    BY <2>1, <2>2, <2>3
<1>7. QED
  BY <1>3, <1>4, <1>5, <1>6

\* What is at most 1000 is rounded to at most 1000.
LEMMA NearestBounded ==
  ASSUME NEW n \in Nat, NEW d \in Nat \ {0}, n <= 1000 * d
  PROVE  Nearest(n, d) \subseteq 0..1000
<1> SUFFICES ASSUME NEW m \in Nearest(n, d) PROVE m \in 0..1000
  OBVIOUS
<1>1. m \in Nat /\ 2 * (d * m - n) <= d
  BY NearestValues
<1>2. 1000 < m => d * 1000 + d <= d * m
  BY <1>1, Times
<1>3. d * m \in Nat
  BY <1>1, Times
<1> DEFINE x == d * m
<1> HIDE DEF x
<1>4. ~(1000 < m)
  BY <1>1, <1>2, <1>3 DEF x
<1>5. QED
  BY <1>1, <1>4

-----------------------------------------------------------------------------
(* Scores, grades and what is suggested.                                   *)

\* The bounds a score lies in: d * s is at most half of d from 1000 * n.
LEMMA ScoreBounds ==
  ASSUME NEW kind \in Kinds, NEW tasks, tasks \subseteq Tasks
  PROVE  LET n == Earned(kind, tasks)  d == Possible(kind)  s == PipelineScore(kind, tasks)
         IN  /\ n \in Nat /\ d \in 1..240 /\ n <= d /\ s \in 0..1000 /\ d * s \in Nat
             /\ 2 * (d * s - 1000 * n) <= d /\ -d <= 2 * (d * s - 1000 * n)
<1> DEFINE n == Earned(kind, tasks)  d == Possible(kind)  s == PipelineScore(kind, tasks)
<1>1. n \in Nat /\ d \in 1..240 /\ n <= d
  BY Points
<1>2. s = CHOOSE x \in Nearest(1000 * n, d) : TRUE
  BY DEF PipelineScore
<1> HIDE DEF n, d, s
<1> DEFINE k == 1000 * n
<1>3. k \in Nat /\ d \in Nat \ {0} /\ k <= 1000 * d
  BY <1>1
<1> HIDE DEF k
<1>4. Nearest(k, d) # {}
  BY <1>3, NearestValues
<1>5. s \in Nearest(k, d)
  BY <1>2, <1>4 DEF k
<1>6. s \in Nat /\ 2 * (d * s - k) <= d /\ -d <= 2 * (d * s - k)
  BY <1>3, <1>5, NearestValues
<1>7. s \in 0..1000
  BY <1>3, <1>5, NearestBounded
<1>8. d * s \in Nat
  BY <1>3, <1>6, Times
<1>9. QED
  BY <1>1, <1>6, <1>7, <1>8 DEF n, d, s, k

\* 1000 is for all the points and for nothing less.
LEMMA FullScore ==
  ASSUME NEW kind \in Kinds, NEW tasks, tasks \subseteq Tasks
  PROVE  PipelineScore(kind, tasks) = 1000
           <=> \A d \in Applicable(kind) : DimensionScore(kind, tasks, d) = 3
<1> DEFINE n == Earned(kind, tasks)  d == Possible(kind)  s == PipelineScore(kind, tasks)
<1>1. /\ n \in Nat /\ d \in 1..240 /\ n <= d /\ s \in 0..1000 /\ d * s \in Nat
      /\ 2 * (d * s - 1000 * n) <= d /\ -d <= 2 * (d * s - 1000 * n)
  BY ScoreBounds
<1>2. n = d <=> \A x \in Applicable(kind) : DimensionScore(kind, tasks, x) = 3
  BY Points
<1> HIDE DEF n, d, s
<1>3. ASSUME s = 1000 PROVE n = d
  BY <1>1, <1>3
<1>4. ASSUME n = d, s # 1000 PROVE FALSE
  <2>1. s < 1000 /\ s \in Nat /\ d \in Nat \ {0}
    BY <1>1, <1>4
  <2>2. d * s + d <= d * 1000
    BY <2>1, Times
  <2> DEFINE x == d * s
  <2> HIDE DEF x
  <2>3. QED
    BY <1>1, <1>4, <2>2 DEF x
<1>5. s = 1000 <=> n = d
  BY <1>3, <1>4
<1>6. QED
  BY <1>2, <1>5 DEF s

\* Harder tasks score no less: a point more is more than the rounding takes.
LEMMA ScoreGrows ==
  ASSUME NEW kind \in Kinds, NEW tasks, NEW others, Harder(tasks, others)
  PROVE  PipelineScore(kind, tasks) <= PipelineScore(kind, others)
<1> DEFINE n == Earned(kind, tasks)  m == Earned(kind, others)  d == Possible(kind)
           s == PipelineScore(kind, tasks)  u == PipelineScore(kind, others)
<1>1. /\ n \in Nat /\ d \in 1..240 /\ n <= d /\ s \in 0..1000 /\ d * s \in Nat
      /\ 2 * (d * s - 1000 * n) <= d /\ -d <= 2 * (d * s - 1000 * n)
  BY ScoreBounds DEF Harder
<1>2. /\ m \in Nat /\ m <= d /\ u \in 0..1000 /\ d * u \in Nat
      /\ 2 * (d * u - 1000 * m) <= d /\ -d <= 2 * (d * u - 1000 * m)
  BY ScoreBounds DEF Harder
<1>3. n <= m
  BY MorePoints
<1>4. n = m => s = u
  BY DEF PipelineScore
<1> HIDE DEF n, m, d, s, u
<1>5. ASSUME n < m, u < s PROVE FALSE
  <2>1. d \in Nat \ {0} /\ u \in Nat /\ s \in Nat
    BY <1>1, <1>2
  <2>2. d * u + d <= d * s
    BY <1>5, <2>1, Times
  <2> DEFINE x == d * s  y == d * u
  <2> HIDE DEF x, y
  <2>3. /\ x \in Nat /\ y \in Nat /\ y + d <= x
        /\ 2 * (x - 1000 * n) <= d /\ -d <= 2 * (y - 1000 * m)
    BY <1>1, <1>2, <2>2 DEF x, y
  <2>4. 1000 * n + 1000 <= 1000 * m
    BY <1>1, <1>2, <1>5
  <2>5. QED
    BY <1>1, <1>2, <2>3, <2>4
<1>6. s <= u
  BY <1>1, <1>2, <1>3, <1>4, <1>5
<1>7. QED
  BY <1>6 DEF s, u

\* The bands as numbers.
LEMMA GradeValue ==
  ASSUME NEW s \in 0..1000
  PROVE  Grade(s) = IF s >= 800 THEN 5 ELSE IF s >= 600 THEN 4 ELSE IF s >= 400 THEN 3
                    ELSE IF s >= 200 THEN 2 ELSE 1
<1> DEFINE B == {g \in DOMAIN GradeBands : s >= GradeBands[g]}
           m == IF s >= 800 THEN 5 ELSE IF s >= 600 THEN 4 ELSE IF s >= 400 THEN 3
                ELSE IF s >= 200 THEN 2 ELSE 1
<1>1. DOMAIN GradeBands = 1..5
  BY DEF GradeBands
<1>2. /\ GradeBands[1] = 0 /\ GradeBands[2] = 200 /\ GradeBands[3] = 400
      /\ GradeBands[4] = 600 /\ GradeBands[5] = 800
  BY DEF GradeBands
<1>3. B \subseteq 1..5
  BY <1>1
<1>4. /\ 1 \in B /\ (2 \in B <=> s >= 200) /\ (3 \in B <=> s >= 400)
      /\ (4 \in B <=> s >= 600) /\ (5 \in B <=> s >= 800)
  BY <1>1, <1>2
<1> HIDE DEF B
<1>5. m \in 1..5 /\ m \in B /\ \A x \in B : m >= x
  <2>1. CASE s >= 800
    BY <1>3, <1>4, <2>1
  <2>2. CASE 600 <= s /\ s < 800
    BY <1>3, <1>4, <2>2
  <2>3. CASE 400 <= s /\ s < 600
    BY <1>3, <1>4, <2>3
  <2>4. CASE 200 <= s /\ s < 400
    BY <1>3, <1>4, <2>4
  <2>5. CASE s < 200
    BY <1>3, <1>4, <2>5
  <2>6. QED
    BY <2>1, <2>2, <2>3, <2>4, <2>5
<1> HIDE DEF m
<1>6. Max(B) \in B /\ \A y \in B : Max(B) >= y
  BY <1>5 DEF Max
<1>7. Max(B) = m
  <2> DEFINE x == Max(B)
  <2> HIDE DEF x
  <2>1. x \in 1..5 /\ x >= m /\ m >= x
    BY <1>3, <1>5, <1>6 DEF x
  <2>2. x = m
    BY <1>5, <2>1
  <2>3. QED
    BY <2>2 DEF x
<1>8. QED
  BY <1>7 DEF Grade, B, m

LEMMA GradeGrows ==
  ASSUME NEW s \in 0..1000, NEW u \in 0..1000, s <= u PROVE Grade(s) <= Grade(u)
BY GradeValue

\* In the best band no points are missing, below it some are.
LEMMA PointsToGo == ASSUME NEW s \in 0..1000 PROVE PointsNeeded(s) = 0 <=> Grade(s) = 5
<1> DEFINE A == {GradeBands[g] : g \in {x \in DOMAIN GradeBands : GradeBands[x] > s}}
<1>1. A = {b \in {0, 200, 400, 600, 800} : b > s}
  BY DEF GradeBands
<1>2. Grade(s) = 5 <=> s >= 800
  BY GradeValue
<1>3. PointsNeeded(s) = IF A = {} THEN 0 ELSE Min(A) - s
  BY DEF PointsNeeded
<1> HIDE DEF A
<1>4. s >= 800 => A = {}
  BY <1>1
<1>5. ASSUME s < 800 PROVE A # {} /\ Min(A) > s /\ Min(A) \in Nat
  <2>1. A \subseteq {0, 200, 400, 600, 800} /\ 800 \in A
    BY <1>1, <1>5
  <2>2. \E x \in A : \A y \in A : x <= y
    <3>1. CASE 0 \in A
      BY <2>1, <3>1
    <3>2. CASE 0 \notin A /\ 200 \in A
      BY <2>1, <3>2
    <3>3. CASE 0 \notin A /\ 200 \notin A /\ 400 \in A
      BY <2>1, <3>3
    <3>4. CASE 0 \notin A /\ 200 \notin A /\ 400 \notin A /\ 600 \in A
      BY <2>1, <3>4
    <3>5. CASE 0 \notin A /\ 200 \notin A /\ 400 \notin A /\ 600 \notin A
      BY <2>1, <3>5
    <3>6. QED
      BY <3>1, <3>2, <3>3, <3>4, <3>5
  <2>3. Min(A) \in A
    BY <2>2 DEF Min
  <2>4. QED
    BY <1>1, <2>1, <2>3
<1>6. QED
  BY <1>2, <1>3, <1>4, <1>5

LEMMA HeaviestExist ==
  ASSUME NEW S, S \subseteq Dimensions, S # {} PROVE Heaviest(S) # {}
<1> DEFINE W(d) == DimensionRows[d].weight
<1>1. \A d \in S : W(d) \in {2, 3, 4}
  BY DimensionValues
<1> HIDE DEF W
<1>2. \E d \in S : \A e \in S : W(e) <= W(d)
  <2>1. CASE \E d \in S : W(d) = 4
    BY <1>1, <2>1
  <2>2. CASE (\A d \in S : W(d) # 4) /\ \E d \in S : W(d) = 3
    BY <1>1, <2>2
  <2>3. CASE (\A d \in S : W(d) # 4) /\ \A d \in S : W(d) # 3
    BY <1>1, <2>3
  <2>4. QED
    BY <2>1, <2>2, <2>3
<1>3. QED
  BY <1>2 DEF Heaviest, W

\* Nothing is suggested exactly if every dimension that applies is at its best.
LEMMA NothingSuggested ==
  ASSUME NEW kind, NEW scores, \A d \in Dimensions : scores[d] \in 0..3
  PROVE  Suggested(kind, scores) = {} <=> \A d \in Applicable(kind) : scores[d] = 3
<1> DEFINE Of(V) == {d \in Applicable(kind) : scores[d] \in V}  B == Of({1, 2})  A == Of({0})
<1>1. A \subseteq Dimensions /\ B \subseteq Dimensions /\ \A d \in Applicable(kind) : scores[d] \in 0..3
  BY DEF Applicable
<1>2. Suggested(kind, scores) = Heaviest(IF B # {} THEN B ELSE A)
  BY DEF Suggested
<1>3. A = {} /\ B = {} <=> \A d \in Applicable(kind) : scores[d] = 3
  BY <1>1
<1> HIDE DEF A, B
<1>4. Heaviest({}) = {}
  BY DEF Heaviest
<1>5. QED
  BY <1>1, <1>2, <1>3, <1>4, HeaviestExist

-----------------------------------------------------------------------------
(* The rows.                                                               *)

\* What the type invariant leaves out and the proofs need.
Shape ==
  /\ run \in [status : {"Running", "Succeeded", "Failed"}, has : SUBSET TaskIds,
              said : [TaskIds -> SUBSET ControlIds], spread : SUBSET ControlIds]
  /\ DOMAIN rows \subseteq ControlIds
  /\ users \subseteq Users /\ roles \subseteq Roles
  /\ rated \subseteq Pipelines /\ DOMAIN envs \subseteq Environments

RowsInv == AssessmentTypeOK /\ Shape

LEMMA TaskFunctions ==
  \A f : f \in UNION {[T -> Looks] : T \in SUBSET TaskIds}
         <=> DOMAIN f \subseteq TaskIds /\ f \in [DOMAIN f -> Looks]
<1> TAKE f
<1>1. ASSUME f \in UNION {[T -> Looks] : T \in SUBSET TaskIds}
      PROVE  DOMAIN f \subseteq TaskIds /\ f \in [DOMAIN f -> Looks]
  BY <1>1
<1>2. ASSUME DOMAIN f \subseteq TaskIds, f \in [DOMAIN f -> Looks]
      PROVE  f \in UNION {[T -> Looks] : T \in SUBSET TaskIds}
  BY <1>2
<1>3. QED
  BY <1>1, <1>2

LEMMA Rows ==
  \A p \in Pipelines : RowsInv =>
    /\ pipe[p].kind \in Kinds /\ pipe[p].app \in Applications
    /\ DOMAIN pipe[p].tasks \subseteq TaskIds
    /\ pipe[p].tasks \in [DOMAIN pipe[p].tasks -> Looks]
<1> SUFFICES ASSUME NEW p \in Pipelines, RowsInv
             PROVE  /\ pipe[p].kind \in Kinds /\ pipe[p].app \in Applications
                    /\ DOMAIN pipe[p].tasks \subseteq TaskIds
                    /\ pipe[p].tasks \in [DOMAIN pipe[p].tasks -> Looks]
  OBVIOUS
<1>1. pipe[p] \in PipelineRow
  BY DEF RowsInv, AssessmentTypeOK
<1>2. /\ pipe[p].kind \in Kinds /\ pipe[p].app \in Applications
      /\ pipe[p].tasks \in UNION {[T -> Looks] : T \in SUBSET TaskIds}
  BY <1>1 DEF PipelineRow
<1>3. QED
  BY <1>2, TaskFunctions

LEMMA RowsInit == Init => RowsInv
<1> SUFFICES ASSUME Init PROVE RowsInv
  OBVIOUS
<1>1. Ran \in Pipelines /\ Start \in [Pipelines -> PipelineRow]
      /\ DOMAIN StartEnvironments \subseteq Environments
  BY StartAssumption
<1>2. Start[Ran] \in PipelineRow
  BY <1>1
<1>3. Start[Ran].tasks \in UNION {[T -> Looks] : T \in SUBSET TaskIds}
  BY <1>2 DEF PipelineRow
<1>4. DOMAIN Start[Ran].tasks \subseteq TaskIds
  BY <1>3, TaskFunctions
<1>5. DOMAIN rows = {}
  BY DEF Init
<1>6. AssessmentTypeOK
  BY <1>1, <1>5 DEF Init, AssessmentTypeOK
<1>7. run \in [status : {"Running", "Succeeded", "Failed"}, has : SUBSET TaskIds,
               said : [TaskIds -> SUBSET ControlIds], spread : SUBSET ControlIds]
  BY <1>4 DEF Init
<1>8. QED
  BY <1>1, <1>5, <1>6, <1>7 DEF Init, Shape, RowsInv

\* The groups of variables a step of a request leaves alone.
Standing == UNCHANGED <<pipe, run, rows, users, roles, bindings, filled, envs, rated, scan>>

LEMMA SpreadSets == \A has : Spreads(has) \subseteq SUBSET ControlIds
BY DEF Spreads

LEMMA TasksStep ==
  ASSUME RowsInv, NEW p \in Pipelines, NEW tasks, DOMAIN tasks \subseteq TaskIds,
         tasks \in [DOMAIN tasks -> Looks], SetTasks(p, tasks)
  PROVE  RowsInv'
<1>1. tasks \in UNION {[T -> Looks] : T \in SUBSET TaskIds}
  BY TaskFunctions
<1>2. pipe \in [Pipelines -> PipelineRow] /\ Ran \in Pipelines
  BY StartAssumption DEF RowsInv, AssessmentTypeOK
<1>3. pipe[p] \in PipelineRow
  BY <1>2
<1>4. [pipe[p] EXCEPT !.tasks = tasks] \in PipelineRow
  BY <1>1, <1>3 DEF PipelineRow
<1>5. pipe' = [pipe EXCEPT ![p] = [pipe[p] EXCEPT !.tasks = tasks]]
  BY DEF SetTasks
<1>6. pipe' \in [Pipelines -> PipelineRow]
  BY <1>2, <1>4, <1>5
<1>7. pipe'[p].tasks = tasks /\ \A q \in Pipelines \ {p} : pipe'[q] = pipe[q]
  BY <1>2, <1>3, <1>5 DEF PipelineRow
<1> DEFINE R == [status : {"Running", "Succeeded", "Failed"}, has : SUBSET TaskIds,
                 said : [TaskIds -> SUBSET ControlIds], spread : SUBSET ControlIds]
<1>8. run \in R /\ run.has \subseteq DOMAIN pipe[Ran].tasks
  BY DEF RowsInv, Shape, AssessmentTypeOK
<1>9. run' \in R /\ run'.has \subseteq DOMAIN pipe'[Ran].tasks
  <2>1. CASE p = Ran
    <3>0. run' = run \/ \E spread \in Spreads(run.has \cap DOMAIN tasks) :
                            run' = [run EXCEPT !.has = run.has \cap DOMAIN tasks, !.spread = spread]
      BY <2>1 DEF SetTasks
    <3>1. CASE run' = run
      <4>1. run.has \subseteq DOMAIN tasks
        BY <1>8, <2>1, <3>1 DEF SetTasks
      <4>2. QED
        BY <1>7, <1>8, <2>1, <3>1, <4>1
    <3>2. ASSUME NEW spread \in Spreads(run.has \cap DOMAIN tasks),
                 run' = [run EXCEPT !.has = run.has \cap DOMAIN tasks, !.spread = spread]
          PROVE  run' \in R /\ run'.has \subseteq DOMAIN pipe'[Ran].tasks
      <4>1. spread \in SUBSET ControlIds
        BY SpreadSets
      <4>2. QED
        BY <1>7, <1>8, <2>1, <3>2, <4>1
    <3>3. QED
      BY <3>0, <3>1, <3>2
  <2>2. CASE p # Ran
    BY <1>2, <1>7, <1>8, <2>2 DEF SetTasks
  <2>3. QED
    BY <2>1, <2>2
<1>10. UNCHANGED <<rows, users, roles, bindings, filled, envs, rated>>
  BY DEF SetTasks, estate
<1>11. QED
  BY <1>6, <1>9, <1>10 DEF RowsInv, AssessmentTypeOK, Shape

LEMMA PipelineStep ==
  ASSUME RowsInv, NEW p \in Pipelines, NEW kind \in EditedKinds, NEW app \in Applications,
         UpdatePipeline(p, kind, app)
  PROVE  RowsInv'
<1>1. pipe \in [Pipelines -> PipelineRow] /\ Ran \in Pipelines /\ kind \in Kinds
  BY StartAssumption DEF RowsInv, AssessmentTypeOK
<1>2. pipe[p] \in PipelineRow
  BY <1>1
<1> DEFINE r == [pipe[p] EXCEPT !.kind = kind, !.app = app]
<1>3. r \in PipelineRow /\ r.tasks = pipe[p].tasks
  BY <1>1, <1>2 DEF PipelineRow
<1>4. pipe' = [pipe EXCEPT ![p] = r]
  BY <1>1 DEF UpdatePipeline
<1> HIDE DEF r
<1>5. pipe' \in [Pipelines -> PipelineRow] /\ pipe'[Ran].tasks = pipe[Ran].tasks
  BY <1>1, <1>3, <1>4
<1>6. UNCHANGED <<run, rows, users, roles, bindings, filled, envs, rated>>
  BY DEF UpdatePipeline, estate
<1>7. QED
  BY <1>5, <1>6 DEF RowsInv, AssessmentTypeOK, Shape

LEMMA RunStep ==
  ASSUME RowsInv,
         \/ \E t \in TaskIds, ids \in {{}} \cup {{id} : id \in ControlIds} : WriteLogs(t, ids)
         \/ \E status \in {"Succeeded", "Failed"} : EndRun(status)
  PROVE  RowsInv'
<1> DEFINE R == [status : {"Running", "Succeeded", "Failed"}, has : SUBSET TaskIds,
                 said : [TaskIds -> SUBSET ControlIds], spread : SUBSET ControlIds]
<1>1. run \in R
  BY DEF RowsInv, Shape
<1>2. run' \in R /\ run'.has = run.has
  <2>1. ASSUME NEW t \in TaskIds, NEW ids \in SUBSET ControlIds, WriteLogs(t, ids)
        PROVE  run' \in R /\ run'.has = run.has
    <3>1. PICK spread \in Spreads(run.has) :
            run' = [run EXCEPT !.said = [run.said EXCEPT ![t] = @ \cup ids], !.spread = spread]
      BY <2>1 DEF WriteLogs
    <3>2. [run.said EXCEPT ![t] = @ \cup ids] \in [TaskIds -> SUBSET ControlIds]
      BY <1>1
    <3>3. spread \in SUBSET ControlIds
      BY SpreadSets
    <3>4. QED
      BY <1>1, <3>1, <3>2, <3>3
  <2>2. ASSUME NEW status \in {"Succeeded", "Failed"}, EndRun(status)
        PROVE  run' \in R /\ run'.has = run.has
    BY <1>1, <2>2 DEF EndRun
  <2>3. QED
    BY <2>1, <2>2
<1>3. UNCHANGED <<pipe, rows, users, roles, bindings, filled, envs, rated>>
  BY DEF WriteLogs, EndRun, estate
<1>4. QED
  BY <1>2, <1>3 DEF RowsInv, AssessmentTypeOK, Shape

LEMMA SaveStep ==
  ASSUME RowsInv, NEW id \in ControlIds, NEW r \in OverrideRow, rows' = Put(rows, id, r),
         UNCHANGED <<definition, estate>>
  PROVE  RowsInv'
<1>1. \A i \in DOMAIN rows : rows[i] \in OverrideRow
  BY DEF RowsInv, AssessmentTypeOK
<1>2. DOMAIN rows' = DOMAIN rows \cup {id} /\ \A i \in DOMAIN rows' : rows'[i] \in OverrideRow
  BY <1>1 DEF Put, Over
<1>3. UNCHANGED <<pipe, run, users, roles, bindings, filled, envs, rated>>
  BY DEF definition, estate
<1>4. QED
  BY <1>2, <1>3 DEF RowsInv, AssessmentTypeOK, Shape

LEMMA KeepStep ==
  ASSUME RowsInv, NEW ids \in SUBSET DOMAIN rows, KeepRows(ids)
  PROVE  RowsInv'
<1>1. DOMAIN rows' \subseteq DOMAIN rows /\ \A i \in DOMAIN rows' : rows'[i] = rows[i]
  BY DEF KeepRows
<1>2. UNCHANGED <<pipe, run, users, roles, bindings, filled, envs, rated>>
  BY DEF KeepRows, definition, estate
<1>3. QED
  BY <1>1, <1>2 DEF RowsInv, AssessmentTypeOK, Shape

LEMMA AccessStep ==
  ASSUME RowsInv, NEW us \in SUBSET Users, NEW rs \in SUBSET Roles, NEW bs, SetAccess(us, rs, bs)
  PROVE  RowsInv'
<1>1. users' \subseteq Users /\ roles' \subseteq Roles /\ bindings' \subseteq users' \X roles'
  BY DEF SetAccess
<1>2. UNCHANGED <<pipe, run, rows, filled, envs, rated>>
  BY DEF SetAccess, definition, Rest
<1>3. QED
  BY <1>1, <1>2 DEF RowsInv, AssessmentTypeOK, Shape

LEMMA RestStep ==
  ASSUME RowsInv, NEW tables, NEW es, DOMAIN es \subseteq Environments, NEW ps \in SUBSET Pipelines,
         NEW qs, SetRest(tables, es, ps, qs)
  PROVE  RowsInv'
<1>1. rated' \subseteq Pipelines /\ DOMAIN envs' \subseteq Environments
  BY DEF SetRest
<1>2. UNCHANGED <<pipe, run, rows, users, roles, bindings>>
  BY DEF SetRest, definition, Access
<1>3. QED
  BY <1>1, <1>2 DEF RowsInv, AssessmentTypeOK, Shape

LEMMA RequestsStand == (Framework \/ Overview \/ BeginIso \/ CountNext) => Standing
<1>1. Framework => Standing
  BY DEF Framework, BeginReport, ReadDefinition, ReadControls, ReportStep, definition, estate, Standing
<1>2. Overview => Standing
  BY DEF Overview, BeginOverview, AnswerOverview, ListApplication, ScoreNext, OverviewStep, estate, Standing
<1>3. BeginIso \/ CountNext => Standing
  BY DEF BeginIso, CountNext, IsoStep, definition, Access, Rest, Standing
<1>4. QED
  BY <1>1, <1>2, <1>3

LEMMA RowsStep == RowsInv /\ [Next]_vars => RowsInv'
<1> SUFFICES ASSUME RowsInv, [Next]_vars PROVE RowsInv'
  OBVIOUS
<1>1. ASSUME Standing PROVE RowsInv'
  BY <1>1 DEF Standing, RowsInv, AssessmentTypeOK, Shape
<1>2. ASSUME EditDefinition PROVE RowsInv'
  <2>1. PICK p \in Pipelines :
          \/ \E t \in TaskIds : DeleteTask(p, t) \/ \E look \in Looks : SaveTask(p, t, look)
          \/ \E kind \in EditedKinds, app \in Applications : UpdatePipeline(p, kind, app)
    BY <1>2 DEF EditDefinition
  <2>2. DOMAIN pipe[p].tasks \subseteq TaskIds /\ pipe[p].tasks \in [DOMAIN pipe[p].tasks -> Looks]
    BY Rows
  <2>3. ASSUME NEW t \in TaskIds, DeleteTask(p, t) PROVE RowsInv'
    <3> DEFINE tasks == [u \in DOMAIN pipe[p].tasks \ {t} |-> pipe[p].tasks[u]]
    <3>1. DOMAIN tasks \subseteq TaskIds /\ tasks \in [DOMAIN tasks -> Looks]
      BY <2>2
    <3>2. SetTasks(p, tasks)
      BY <2>3 DEF DeleteTask
    <3> HIDE DEF tasks
    <3>3. QED
      BY <3>1, <3>2, TasksStep
  <2>4. ASSUME NEW t \in TaskIds, NEW look \in Looks, SaveTask(p, t, look) PROVE RowsInv'
    <3> DEFINE tasks == Put(pipe[p].tasks, t, look)
    <3>1. DOMAIN tasks \subseteq TaskIds /\ tasks \in [DOMAIN tasks -> Looks]
      BY <2>2 DEF Put, Over
    <3>2. SetTasks(p, tasks)
      BY <2>4 DEF SaveTask
    <3> HIDE DEF tasks
    <3>3. QED
      BY <3>1, <3>2, TasksStep
  <2>5. QED
    BY <2>1, <2>3, <2>4, PipelineStep
<1>3. ASSUME EditControls PROVE RowsInv'
  <2>0. {} \in SUBSET STRING
    OBVIOUS
  <2>1. ASSUME NEW fw \in Frameworks, NEW id \in ControlIds, NEW enabled \in BOOLEAN,
               NEW fields \in Fields, UpdateControl(fw, id, enabled, fields)
        PROVE  RowsInv'
    <3> DEFINE r == [framework |-> fw, enabled |-> enabled, types |-> fields.types,
                     dims |-> fields.dims, keywords |-> fields.keywords]
    <3>1. r \in OverrideRow
      BY <2>0, <2>1 DEF OverrideRow, Fields
    <3>2. rows' = Put(rows, id, r) /\ UNCHANGED <<definition, estate>>
      BY <2>1 DEF UpdateControl, SaveControl
    <3> HIDE DEF r
    <3>3. QED
      BY <2>1, <3>1, <3>2, SaveStep
  <2>2. ASSUME NEW fw \in Frameworks, NEW id \in ControlIds, AddCustomControl(fw, id)
        PROVE  RowsInv'
    <3>1. PICK words \in {Unset, TRUE} :
            SaveControl(fw, id, TRUE, [types |-> Unset, dims |-> Unset, keywords |-> words])
      BY <2>2 DEF AddCustomControl
    <3> DEFINE r == [framework |-> fw, enabled |-> TRUE, types |-> Unset,
                     dims |-> Unset, keywords |-> words]
    <3>2. r \in OverrideRow
      BY <2>2 DEF OverrideRow
    <3>3. rows' = Put(rows, id, r) /\ UNCHANGED <<definition, estate>>
      BY <3>1 DEF SaveControl
    <3> HIDE DEF r
    <3>4. QED
      BY <2>2, <3>2, <3>3, SaveStep
  <2>3. ASSUME NEW fw \in Frameworks, NEW id \in ControlIds, DeleteControl(fw, id) PROVE RowsInv'
    BY <2>3, KeepStep DEF DeleteControl
  <2>4. ASSUME NEW fw \in Frameworks, ResetControls(fw) PROVE RowsInv'
    BY <2>4, KeepStep DEF ResetControls
  <2>5. QED
    BY <1>3, <2>1, <2>2, <2>3, <2>4 DEF EditControls
<1>4. ASSUME EditAccess PROVE RowsInv'
  <2>1. users \subseteq Users /\ roles \subseteq Roles
    BY DEF RowsInv, Shape
  <2>2. PICK u \in Users, r \in Roles :
          \/ SetAccess(users \cup {u}, roles, bindings)
          \/ SetAccess(users \ {u}, roles, bindings)
          \/ SetAccess(users, roles \cup {r}, bindings)
          \/ SetAccess(users, roles \ {r}, bindings)
          \/ SetAccess(users, roles, bindings \cup ({<<u, r>>} \cap (users \X roles)))
          \/ SetAccess(users, roles, bindings \ {<<u, r>>})
    BY <1>4 DEF EditAccess
  <2>3. /\ users \cup {u} \in SUBSET Users /\ users \ {u} \in SUBSET Users /\ users \in SUBSET Users
        /\ roles \cup {r} \in SUBSET Roles /\ roles \ {r} \in SUBSET Roles /\ roles \in SUBSET Roles
    BY <2>1
  <2>4. QED
    BY <2>2, <2>3, AccessStep
<1>5. ASSUME EditRest PROVE RowsInv'
  <2>1. rated \subseteq Pipelines /\ DOMAIN envs \subseteq Environments
    BY DEF RowsInv, Shape
  <2>2. ASSUME NEW x \in Tables,
               SetRest(filled \cup {x}, envs, rated, scan) \/ SetRest(filled \ {x}, envs, rated, scan)
        PROVE  RowsInv'
    BY <2>1, <2>2, RestStep
  <2>3. ASSUME NEW e \in Environments, NEW name, SetRest(filled, Put(envs, e, name), rated, scan)
        PROVE  RowsInv'
    <3> DEFINE es == Put(envs, e, name)
    <3>1. DOMAIN es \subseteq Environments
      BY <2>1 DEF Put, Over
    <3> HIDE DEF es
    <3>2. QED
      BY <2>1, <2>3, <3>1, RestStep DEF es
  <2>4. ASSUME NEW e \in Environments,
               SetRest(filled, [x \in DOMAIN envs \ {e} |-> envs[x]], rated, scan)
        PROVE  RowsInv'
    <3> DEFINE es == [x \in DOMAIN envs \ {e} |-> envs[x]]
    <3>1. DOMAIN es \subseteq Environments
      BY <2>1
    <3>2. SetRest(filled, es, rated, scan)
      BY <2>4
    <3> HIDE DEF es
    <3>3. QED
      BY <2>1, <3>1, <3>2, RestStep
  <2>5. ASSUME NEW p \in Pipelines, NEW on \in BOOLEAN,
               \/ SetRest(filled, envs, IF on THEN rated \cup {p} ELSE rated \ {p}, scan)
               \/ SetRest(filled, envs, rated, IF on THEN scan \cup {p} ELSE scan \ {p})
        PROVE  RowsInv'
    <3>1. (IF on THEN rated \cup {p} ELSE rated \ {p}) \in SUBSET Pipelines
      BY <2>1
    <3>2. QED
      BY <2>1, <2>5, <3>1, RestStep
  <2>6. QED
    BY <1>5, <2>2, <2>3, <2>4, <2>5 DEF EditRest
<1>6. ASSUME Next PROVE RowsInv'
  BY <1>1, <1>2, <1>3, <1>4, <1>5, <1>6, RequestsStand, RunStep DEF Next, Edit, EditRun
<1>7. ASSUME UNCHANGED vars PROVE RowsInv'
  BY <1>1, <1>7 DEF vars, definition, estate, Standing
<1>8. QED
  BY <1>6, <1>7

LEMMA RowsAlways == Spec => []RowsInv
BY RowsInit, RowsStep, PTL DEF Spec

\* Pipelines, runs, overriding rows and bindings keep their types: a run has rows only of tasks
\* that its pipeline has, and a binding is of a user and a role that exist.
THEOREM AssessmentTypeCorrect == Spec => []AssessmentTypeOK
<1>1. RowsInv => AssessmentTypeOK
  BY DEF RowsInv
<1>2. QED
  BY <1>1, RowsAlways, PTL

-----------------------------------------------------------------------------
(* What a report of a framework says, and access rights in the ISO report. *)

\* A control counts as met exactly if a tag or a keyword of it was found, and is confirmed for
\* no failed run.
LEMMA Claimed ==
  \A c, types, said, scores, status :
    /\ Confidence(c, types, said, scores, status) \in {"partial", "confirmed"}
         <=> c.types \cap types # {} \/ (c.keywords /\ said)
    /\ status = "Failed" => Confidence(c, types, said, scores, status) # "confirmed"
BY DEF Confidence

LEMMA ShownIsClaimed ==
  ASSUME NEW fw, NEW tasks, NEW scores, NEW status, NEW id \in DOMAIN Findings(fw, tasks, scores, status)
  PROVE  /\ id \in Shown(fw, tasks) => Findings(fw, tasks, scores, status)[id] \in {"partial", "confirmed"}
         /\ Findings(fw, tasks, scores, status)[id] \in {"partial", "confirmed"}
              => id \in Shown(fw, tasks) \cup run.spread
         /\ status = "Failed" => Findings(fw, tasks, scores, status)[id] # "confirmed"
<1> DEFINE active == Active(rows, fw)
           c == active[id]
           tags == Tags(tasks)
           f == Findings(fw, tasks, scores, status)[id]
<1>1. id \in DOMAIN active /\ f = Confidence(c, tags, Said(id), scores, status)
  BY DEF Findings
<1>2. id \in Shown(fw, tasks) <=> Artifacts(c, id, tasks) # {}
  BY <1>1 DEF Shown
<1>3. c.types \cap tags # {} <=> \E t \in run.has : t \in DOMAIN tasks /\ tasks[t].tags \cap c.types # {}
  <2> HIDE DEF c
  <2>1. QED
    BY DEF Tags
<1>4. /\ Artifacts(c, id, tasks) # {} => c.types \cap tags # {} \/ (c.keywords /\ Said(id))
      /\ c.types \cap tags # {} \/ (c.keywords /\ Said(id)) => Artifacts(c, id, tasks) # {} \/ id \in run.spread
  <2> HIDE DEF c, tags
  <2>1. QED
    BY <1>3 DEF Artifacts, Said
<1> HIDE DEF c, tags, f
<1>5. /\ f \in {"partial", "confirmed"} <=> c.types \cap tags # {} \/ (c.keywords /\ Said(id))
      /\ status = "Failed" => f # "confirmed"
  BY <1>1, Claimed
<1>6. QED
  BY <1>2, <1>4, <1>5 DEF f

ReportFields == {"at", "framework", "status", "tasks", "scores", "result", "shown", "spread"}

ClaimsInv == DOMAIN report = ReportFields /\ ClaimsAreShown /\ FailedIndicatesOnly

LEMMA NoReportFields == DOMAIN NoReport = ReportFields
BY DEF NoReport, ReportFields

LEMMA ClaimsInit == Init => ClaimsInv
BY NoReportFields DEF Init, NoReport, ClaimsInv, ClaimsAreShown, FailedIndicatesOnly

\* The steps of a framework report.
LEMMA ReportClaims ==
  ASSUME DOMAIN report = ReportFields, ClaimsAreShown, FailedIndicatesOnly, Framework
  PROVE  DOMAIN report' = ReportFields /\ ClaimsAreShown' /\ FailedIndicatesOnly'
<1>1. ASSUME DOMAIN report' = ReportFields, report'.at # "answered"
      PROVE  DOMAIN report' = ReportFields /\ ClaimsAreShown' /\ FailedIndicatesOnly'
  BY <1>1 DEF ClaimsAreShown, FailedIndicatesOnly
<1>2. ASSUME NEW fw \in Frameworks, BeginReport(fw)
      PROVE  DOMAIN report' = ReportFields /\ report'.at = "run"
  BY <1>2 DEF BeginReport, ReportStep, ReportFields
<1>3. ASSUME ReadDefinition
      PROVE  DOMAIN report' = ReportFields /\ report'.at = "definition"
  BY <1>3 DEF ReadDefinition, ReportStep, ReportFields
<1>4. ASSUME ReadControls, report'.at = "answered"
      PROVE  DOMAIN report' = ReportFields /\ ClaimsAreShown' /\ FailedIndicatesOnly'
  <2> DEFINE fw == report.framework  tasks == report.tasks
             scores == report.scores  status == report.status
  <2>1. [NoReport EXCEPT !.at = "raised"].at = "raised"
    BY DEF NoReport
  <2>2. ReportStep([report EXCEPT !.at = "answered", !.scores = <<>>, !.tasks = <<>>,
          !.spread = run.spread, !.shown = Shown(fw, tasks), !.result = Findings(fw, tasks, scores, status)])
    BY <1>4, <2>1 DEF ReadControls, ReportStep
  <2>3. /\ report' = [report EXCEPT !.at = "answered", !.scores = <<>>, !.tasks = <<>>,
                       !.spread = run.spread, !.shown = Shown(fw, tasks), !.result = Findings(fw, tasks, scores, status)]
        /\ UNCHANGED <<run, rows>>
    BY <2>2 DEF ReportStep, definition
  <2>4. /\ DOMAIN report' = ReportFields /\ report'.status = status
        /\ report'.result = Findings(fw, tasks, scores, status) /\ report'.shown = Shown(fw, tasks)
        /\ report'.spread = run.spread
    <3> HIDE DEF fw, tasks, scores
    <3>1. QED
      BY <2>3 DEF ReportFields
  <2> HIDE DEF fw, tasks, scores, status
  <2>5. \A id \in DOMAIN report'.result :
          /\ id \in report'.shown => report'.result[id] \in {"partial", "confirmed"}
          /\ report'.result[id] \in {"partial", "confirmed"} => id \in report'.shown \cup report'.spread
          /\ report'.status = "Failed" => report'.result[id] # "confirmed"
    BY <2>4, ShownIsClaimed
  <2>6. QED
    BY <2>4, <2>5 DEF ClaimsAreShown, FailedIndicatesOnly
<1>5. ASSUME ReadControls, report'.at # "answered"
      PROVE  DOMAIN report' = ReportFields
  BY <1>5, NoReportFields DEF ReadControls, ReportStep
<1>6. QED
  BY <1>1, <1>2, <1>3, <1>4, <1>5 DEF Framework

LEMMA ClaimsStep == ClaimsInv /\ [Next]_vars => ClaimsInv'
<1> SUFFICES ASSUME ClaimsInv, [Next]_vars PROVE ClaimsInv'
  OBVIOUS
<1>1. ASSUME UNCHANGED report PROVE ClaimsInv'
  BY <1>1 DEF ClaimsInv, ClaimsAreShown, FailedIndicatesOnly
<1>2. EditAccess => UNCHANGED report
  BY DEF EditAccess, SetAccess, requests
<1>3. EditDefinition \/ EditRun \/ EditRest => UNCHANGED report
  BY DEF EditDefinition, DeleteTask, SaveTask, SetTasks, UpdatePipeline, EditRun, WriteLogs, EndRun,
         EditRest, SetRest, requests
<1>4. EditControls => UNCHANGED report
  BY DEF EditControls, UpdateControl, AddCustomControl, DeleteControl, ResetControls, SaveControl,
         KeepRows, requests
<1>5. ASSUME Framework PROVE ClaimsInv'
  BY <1>5, ReportClaims DEF ClaimsInv
<1>6. Overview \/ BeginIso \/ CountNext => UNCHANGED report
  BY DEF Overview, BeginOverview, AnswerOverview, ListApplication, ScoreNext, OverviewStep,
         BeginIso, CountNext, IsoStep
<1>7. UNCHANGED vars => UNCHANGED report
  BY DEF vars, requests
<1>8. QED
  BY <1>1, <1>2, <1>3, <1>4, <1>5, <1>6, <1>7 DEF Next, Edit

-----------------------------------------------------------------------------
(* Hardening.                                                              *)

\* What the tasks of a row of a pipeline look like.
LooksOf(r) == {r.tasks[t] : t \in DOMAIN r.tasks}

LEMMA RowScores ==
  ASSUME NEW r \in PipelineRow
  PROVE  /\ r.kind \in Kinds /\ r.app \in Applications
         /\ LooksOf(r) \in SUBSET Looks /\ LooksOf(r) \subseteq Tasks
         /\ ScoreTable[r.kind][LooksOf(r)] = PipelineScore(r.kind, LooksOf(r))
         /\ DimensionTable[r.kind][LooksOf(r)] =
              [d \in Dimensions |-> DimensionScore(r.kind, LooksOf(r), d)]
<1>1. /\ r.kind \in Kinds /\ r.app \in Applications
      /\ r.tasks \in UNION {[T -> Looks] : T \in SUBSET TaskIds}
  BY DEF PipelineRow
<1>2. r.tasks \in [DOMAIN r.tasks -> Looks]
  BY <1>1, TaskFunctions
<1>3. LooksOf(r) \in SUBSET Looks
  BY <1>2 DEF LooksOf
<1>4. LooksOf(r) \subseteq Tasks
  BY <1>3, StartAssumption
<1>5. ScoreTable[r.kind][LooksOf(r)] = PipelineScore(r.kind, LooksOf(r))
  BY <1>1, <1>3 DEF ScoreTable
<1>6. DimensionTable[r.kind][LooksOf(r)] = [d \in Dimensions |-> DimensionScore(r.kind, LooksOf(r), d)]
  BY <1>1, <1>3 DEF DimensionTable
<1>7. QED
  BY <1>1, <1>3, <1>4, <1>5, <1>6

\* q is r with tasks added or hardened.
HarderRow(r, q) ==
  /\ q.kind = r.kind
  /\ DOMAIN r.tasks \subseteq DOMAIN q.tasks
  /\ \A t \in DOMAIN r.tasks : HardenedInto(r.tasks[t], q.tasks[t])

LEMMA HarderLooks ==
  ASSUME NEW r \in PipelineRow, NEW q \in PipelineRow, HarderRow(r, q)
  PROVE  Harder(LooksOf(r), LooksOf(q))
<1>1. LooksOf(r) \subseteq Tasks /\ LooksOf(q) \subseteq Tasks
  BY RowScores
<1>2. \A t \in LooksOf(r) : \E u \in LooksOf(q) : HardenedInto(t, u)
  BY DEF HarderRow, LooksOf
<1>3. QED
  BY <1>1, <1>2 DEF Harder

\* The scores of a hardened row, and what the report of maturity says of it.
Improved(r, q) ==
  LET s == ScoreTable[r.kind][LooksOf(r)]  d == DimensionTable[r.kind][LooksOf(r)]
      u == ScoreTable[q.kind][LooksOf(q)]  e == DimensionTable[q.kind][LooksOf(q)]
  IN  /\ s <= u /\ u \in 0..1000 /\ Grade(s) <= Grade(u)
      /\ \A x \in Dimensions : d[x] \in 0..3 /\ e[x] \in 0..3 /\ d[x] <= e[x]
      /\ Badges(d) \subseteq Badges(e)
      /\ (u = 1000) <=> (Suggested(q.kind, e) = {})
      /\ PointsNeeded(u) = 0 <=> Grade(u) = 5

LEMMA HarderImproves ==
  ASSUME NEW r \in PipelineRow, NEW q \in PipelineRow, HarderRow(r, q)
  PROVE  Improved(r, q)
<1> DEFINE A == LooksOf(r)  B == LooksOf(q)  kind == r.kind
           s == PipelineScore(kind, A)  u == PipelineScore(kind, B)
           d == [x \in Dimensions |-> DimensionScore(kind, A, x)]
           e == [x \in Dimensions |-> DimensionScore(kind, B, x)]
<1>1. /\ kind \in Kinds /\ q.kind = kind /\ A \subseteq Tasks /\ B \subseteq Tasks
      /\ ScoreTable[r.kind][LooksOf(r)] = s /\ ScoreTable[q.kind][LooksOf(q)] = u
      /\ DimensionTable[r.kind][LooksOf(r)] = d /\ DimensionTable[q.kind][LooksOf(q)] = e
  BY RowScores DEF HarderRow
<1>2. Harder(A, B)
  BY HarderLooks
<1>3. q.kind = kind /\ kind \in Kinds /\ A \subseteq Tasks /\ B \subseteq Tasks
  BY <1>1
<1> HIDE DEF A, B, kind
<1>4. s <= u /\ s \in 0..1000 /\ u \in 0..1000
  BY <1>2, <1>3, ScoreGrows, ScoreBounds
<1>5. \A x \in Dimensions : d[x] \in 0..3 /\ e[x] \in 0..3 /\ d[x] <= e[x]
  BY <1>2, <1>3, DimensionScores, HarderDimension
<1>6. u = 1000 <=> \A x \in Applicable(kind) : e[x] = 3
  <2>1. u = 1000 <=> \A x \in Applicable(kind) : DimensionScore(kind, B, x) = 3
    BY <1>3, FullScore
  <2>2. \A x \in Applicable(kind) : x \in Dimensions
    BY DEF Applicable
  <2>3. \A x \in Applicable(kind) : e[x] = DimensionScore(kind, B, x)
    BY <2>2
  <2> HIDE DEF e, u
  <2>4. QED
    BY <2>1, <2>3
<1> HIDE DEF s, u, d, e
<1>7. Suggested(kind, e) = {} <=> \A x \in Applicable(kind) : e[x] = 3
  BY <1>5, NothingSuggested
<1>8. Grade(s) <= Grade(u) /\ (PointsNeeded(u) = 0 <=> Grade(u) = 5)
  BY <1>4, GradeGrows, PointsToGo
<1>9. Badges(d) \subseteq Badges(e)
  BY <1>5 DEF Badges
<1>10. QED
  BY <1>1, <1>3, <1>4, <1>5, <1>6, <1>7, <1>8, <1>9 DEF Improved

LEMMA ScoresOfRows ==
  /\ \A p : TasksOf(p) = LooksOf(pipe[p]) /\ TasksOf(p)' = LooksOf(pipe'[p])
  /\ \A p : /\ Score(p) = ScoreTable[pipe[p].kind][LooksOf(pipe[p])]
            /\ Score(p)' = ScoreTable[pipe'[p].kind][LooksOf(pipe'[p])]
  /\ \A p : /\ Scores(p) = DimensionTable[pipe[p].kind][LooksOf(pipe[p])]
            /\ Scores(p)' = DimensionTable[pipe'[p].kind][LooksOf(pipe'[p])]
BY DEF TasksOf, Score, Scores, LooksOf

\* A pipeline that only got more or harder tasks, in a step between states of the right types.
LEMMA HardenedImproves ==
  ASSUME RowsInv, RowsInv', NEW p \in Pipelines, Hardened(p)
  PROVE  Improved(pipe[p], pipe'[p]) /\ Harder(TasksOf(p), TasksOf(p)')
<1>1. pipe[p] \in PipelineRow /\ pipe'[p] \in PipelineRow
  BY DEF RowsInv, AssessmentTypeOK
<1>2. HarderRow(pipe[p], pipe'[p])
  BY DEF Hardened, HarderRow
<1>3. QED
  BY <1>1, <1>2, HarderImproves, HarderLooks, ScoresOfRows

\* Hardening the tasks of pipelines costs none of them points, a badge or its grade; the full
\* score is reached exactly when there is nothing left to suggest, and the last grade exactly
\* when no points are missing: for any pipelines and any tasks.
THEOREM HardeningNeverHurts == Spec => HardeningHelps
<1> DEFINE Good == AllHardened => \A p \in Pipelines :
       /\ Score(p) <= Score(p)' /\ Score(p)' \in 0..1000 /\ Grade(Score(p)) <= Grade(Score(p)')
       /\ Badges(Scores(p)) \subseteq Badges(Scores(p)')
       /\ (Score(p)' = 1000) <=> (Suggested(pipe'[p].kind, Scores(p)') = {})
       /\ PointsNeeded(Score(p)') = 0 <=> Grade(Score(p)') = 5
<1>1. RowsInv /\ RowsInv' => Good
  <2> SUFFICES ASSUME RowsInv, RowsInv', AllHardened, NEW p \in Pipelines
               PROVE  /\ Score(p) <= Score(p)' /\ Score(p)' \in 0..1000 /\ Grade(Score(p)) <= Grade(Score(p)')
                      /\ Badges(Scores(p)) \subseteq Badges(Scores(p)')
                      /\ (Score(p)' = 1000) <=> (Suggested(pipe'[p].kind, Scores(p)') = {})
                      /\ PointsNeeded(Score(p)') = 0 <=> Grade(Score(p)') = 5
    OBVIOUS
  <2>1. Improved(pipe[p], pipe'[p])
    BY HardenedImproves DEF AllHardened
  <2>2. QED
    BY <2>1, ScoresOfRows DEF Improved
<1>2. QED
  BY <1>1, RowsAlways, PTL DEF HardeningHelps

-----------------------------------------------------------------------------
(* Evidence.                                                               *)

LEMMA FewElements ==
  /\ \A a, b, c, d, e : IsFiniteSet({a, b, c, d, e})
  /\ \A a, b, c, d, e, f : IsFiniteSet({a, b, c, d, e, f})
  /\ \A a, b, c, d, e, f, g : IsFiniteSet({a, b, c, d, e, f, g})
  /\ \A a, b, c, d, e, f, g, h, i : IsFiniteSet({a, b, c, d, e, f, g, h, i})
<1>1. \A a, b, c, d, e : IsFiniteSet({a, b, c, d, e})
  BY FiveElements
<1>2. ASSUME NEW a, NEW b, NEW c, NEW d, NEW e, NEW f PROVE IsFiniteSet({a, b, c, d, e, f})
  <2> DEFINE S == {a, b, c, d, e}
  <2>1. {a, b, c, d, e, f} = S \cup {f} /\ IsFiniteSet(S)
    BY <1>1
  <2> HIDE DEF S
  <2>2. IsFiniteSet(S \cup {f})
    BY <2>1, FS_AddElement
  <2>3. QED
    BY <2>1, <2>2
<1>3. ASSUME NEW a, NEW b, NEW c, NEW d, NEW e, NEW f, NEW g
      PROVE  IsFiniteSet({a, b, c, d, e, f, g})
  <2> DEFINE S == {a, b, c, d, e, f}
  <2>1. {a, b, c, d, e, f, g} = S \cup {g} /\ IsFiniteSet(S)
    BY <1>2
  <2> HIDE DEF S
  <2>2. IsFiniteSet(S \cup {g})
    BY <2>1, FS_AddElement
  <2>3. QED
    BY <2>1, <2>2
<1>4. ASSUME NEW a, NEW b, NEW c, NEW d, NEW e, NEW f, NEW g, NEW h, NEW i
      PROVE  IsFiniteSet({a, b, c, d, e, f, g, h, i})
  <2> DEFINE S == {a, b, c, d, e, f, g}  T == {h, i, i, i, i}
  <2>1. {a, b, c, d, e, f, g, h, i} = S \cup T /\ IsFiniteSet(S) /\ IsFiniteSet(T)
    BY <1>1, <1>3
  <2> HIDE DEF S, T
  <2>2. IsFiniteSet(S \cup T)
    BY <2>1, FS_Union
  <2>3. QED
    BY <2>1, <2>2
<1>5. QED
  BY <1>1, <1>2, <1>3, <1>4

\* A finite table whose controls look for dimensions that there are.
Proper(table) == IsFiniteSet(table) /\ \A r \in table : r.control.dims \subseteq Dimensions

LEMMA ProperTables ==
  /\ Proper(ControlEnvironment) /\ Proper(ControlActivities) /\ Proper(SystemOperations)
  /\ Proper(GovernanceDomains) /\ Proper(TechnologyDomains)
<1>1. Dimensions =
        {"sast", "sca", "dast", "unit_testing", "integration_testing", "code_coverage",
         "smoke_testing", "release_practices", "environment_promotion", "security_gates",
         "container_security", "secret_scanning", "iac_security", "api_security", "supply_chain",
         "observability", "performance_testing", "artifact_management", "compliance_as_code",
         "vulnerability_management"}
  BY DEF Dimensions, DimensionRows, Over, TestingDimensions, DeliveryDimensions, OperationDimensions
<1>2. Proper(ControlEnvironment)
  <2>1. IsFiniteSet(ControlEnvironment)
    BY FewElements DEF ControlEnvironment
  <2>2. \A r \in ControlEnvironment : r.control.dims \subseteq Dimensions
    BY <1>1 DEF ControlEnvironment, Control
  <2>3. QED
    BY <2>1, <2>2 DEF Proper
<1>3. Proper(ControlActivities)
  <2>1. IsFiniteSet(ControlActivities)
    BY FewElements DEF ControlActivities
  <2>2. \A r \in ControlActivities : r.control.dims \subseteq Dimensions
    BY <1>1 DEF ControlActivities, Control
  <2>3. QED
    BY <2>1, <2>2 DEF Proper
<1>4. Proper(SystemOperations)
  <2>1. IsFiniteSet(SystemOperations)
    BY FewElements DEF SystemOperations
  <2>2. \A r \in SystemOperations : r.control.dims \subseteq Dimensions
    BY <1>1 DEF SystemOperations, Control
  <2>3. QED
    BY <2>1, <2>2 DEF Proper
<1>5. Proper(GovernanceDomains)
  <2>1. IsFiniteSet(GovernanceDomains)
    BY FewElements DEF GovernanceDomains
  <2>2. \A r \in GovernanceDomains : r.control.dims \subseteq Dimensions
    BY <1>1 DEF GovernanceDomains, Control
  <2>3. QED
    BY <2>1, <2>2 DEF Proper
<1>6. Proper(TechnologyDomains)
  <2>1. IsFiniteSet(TechnologyDomains)
    BY FewElements DEF TechnologyDomains
  <2>2. \A r \in TechnologyDomains : r.control.dims \subseteq Dimensions
    BY <1>1 DEF TechnologyDomains, Control
  <2>3. QED
    BY <2>1, <2>2 DEF Proper
<1>7. QED
  BY <1>2, <1>3, <1>4, <1>5, <1>6

LEMMA ProperFunction ==
  ASSUME NEW table, Proper(table)
  PROVE  /\ IsFiniteSet(DOMAIN ById(table))
         /\ \A id \in DOMAIN ById(table) : ById(table)[id].dims \subseteq Dimensions
<1> DEFINE Ids == {r.id : r \in table}  f == [r \in table |-> r.id]
<1>1. DOMAIN ById(table) = Ids
  BY DEF ById
<1>2. f \in Surjection(table, Ids)
  BY DEF Surjection
<1>3. IsFiniteSet(Ids)
  <2> HIDE DEF Ids, f
  <2>1. QED
    BY <1>2, FS_Surjection DEF Proper
<1>4. ASSUME NEW id \in Ids PROVE ById(table)[id].dims \subseteq Dimensions
  <2> DEFINE r == CHOOSE x \in table : x.id = id
  <2>1. r \in table
    BY <1>4
  <2>2. ById(table)[id] = r.control
    BY <1>4 DEF ById
  <2> HIDE DEF r
  <2>3. QED
    BY <2>1, <2>2 DEF Proper
<1>5. QED
  BY <1>1, <1>3, <1>4

LEMMA BuiltinControls ==
  ASSUME NEW fw \in Frameworks
  PROVE  /\ IsFiniteSet(DOMAIN Builtin[fw])
         /\ \A id \in DOMAIN Builtin[fw] : Builtin[fw][id].dims \subseteq Dimensions
<1> DEFINE A == ControlEnvironment \cup ControlActivities \cup SystemOperations
           B == GovernanceDomains \cup TechnologyDomains
<1>1. Proper(A)
  <2>1. IsFiniteSet(ControlEnvironment \cup ControlActivities)
    BY ProperTables, FS_Union DEF Proper
  <2>2. IsFiniteSet(A)
    BY <2>1, ProperTables, FS_Union DEF Proper
  <2>3. \A r \in A : r.control.dims \subseteq Dimensions
    BY ProperTables DEF Proper
  <2>4. QED
    BY <2>2, <2>3 DEF Proper
<1>2. Proper(B)
  <2>1. IsFiniteSet(B)
    BY ProperTables, FS_Union DEF Proper
  <2>2. \A r \in B : r.control.dims \subseteq Dimensions
    BY ProperTables DEF Proper
  <2>3. QED
    BY <2>1, <2>2 DEF Proper
<1>3. Builtin = [isae |-> ById(A), acf |-> ById(B)]
  BY DEF Builtin
<1> HIDE DEF A, B
<1>4. Builtin[fw] = ById(A) \/ Builtin[fw] = ById(B)
  BY <1>3 DEF Frameworks
<1>5. QED
  BY <1>1, <1>2, <1>4, ProperFunction

\* The controls that are in force: finitely many, which look for dimensions that there are.
LEMMA ActiveControls ==
  ASSUME RowsInv, NEW fw \in Frameworks
  PROVE  /\ IsFiniteSet(DOMAIN Active(rows, fw))
         /\ \A id \in DOMAIN Active(rows, fw) : Active(rows, fw)[id].dims \subseteq Dimensions
<1> DEFINE D == DOMAIN Active(rows, fw)  E == DOMAIN Builtin[fw] \cup ControlIds
<1>1. IsFiniteSet(ControlIds)
  BY StartAssumption
<1>2. IsFiniteSet(E)
  BY <1>1, BuiltinControls, FS_Union
<1>3. DOMAIN rows \subseteq ControlIds /\ \A id \in DOMAIN rows : rows[id] \in OverrideRow
  BY DEF RowsInv, AssessmentTypeOK, Shape
<1>4. D \subseteq E
  BY <1>3 DEF Active, RowsOf
<1>5. IsFiniteSet(D)
  <2> HIDE DEF D, E
  <2>1. QED
    BY <1>2, <1>4, FS_Subset
<1>6. ASSUME NEW id \in D PROVE Active(rows, fw)[id].dims \subseteq Dimensions
  <2>1. CASE id \in RowsOf(rows, fw)
    <3>1. rows[id] \in OverrideRow
      BY <1>3, <2>1 DEF RowsOf
    <3>2. rows[id].dims \in {Unset} \cup SUBSET Dimensions
      BY <3>1 DEF OverrideRow
    <3>3. Base(fw, id).dims \subseteq Dimensions
      BY BuiltinControls DEF Base, NoControl
    <3>4. Active(rows, fw)[id] = MergedControl(rows[id], Base(fw, id))
      BY <1>6, <2>1 DEF Active
    <3>5. MergedControl(rows[id], Base(fw, id)).dims = Or(rows[id].dims, Base(fw, id).dims)
      BY DEF MergedControl
    <3>6. QED
      BY <3>2, <3>3, <3>4, <3>5 DEF Or
  <2>2. CASE id \notin RowsOf(rows, fw)
    <3>1. id \in DOMAIN Builtin[fw] /\ Active(rows, fw)[id] = Builtin[fw][id]
      BY <1>6, <2>2 DEF Active
    <3>2. QED
      BY <3>1, BuiltinControls
  <2>3. QED
    BY <2>1, <2>2
<1>7. QED
  BY <1>5, <1>6

LEMMA Places == Place("not_met") = 1 /\ Place("partial") = 2 /\ Place("confirmed") = 3
<1>1. DOMAIN Confidences = 1..3
  BY DEF Confidences
<1>2. Confidences[1] = "not_met" /\ Confidences[2] = "partial" /\ Confidences[3] = "confirmed"
  BY DEF Confidences
<1>3. \A i \in 1..3 : i = 1 \/ i = 2 \/ i = 3
  OBVIOUS
<1>4. \A c : Place(c) = CHOOSE i \in 1..3 : Confidences[i] = c
  BY <1>1 DEF Place
<1>5. Place("not_met") = 1
  BY <1>2, <1>3, <1>4
<1>6. Place("partial") = 2
  BY <1>2, <1>3, <1>4
<1>7. Place("confirmed") = 3
  BY <1>2, <1>3, <1>4
<1>8. QED
  BY <1>5, <1>6, <1>7

\* Confidence b is confidence a or a better one.
Better(a, b) ==
  /\ a \in {"confirmed", "partial", "manual", "not_met"} /\ b \in {"confirmed", "partial", "manual", "not_met"}
  /\ a = b \/ (a # "manual" /\ b # "manual" /\ Place(a) < Place(b))

LEMMA ConfidenceGrows ==
  ASSUME NEW c, c.dims \subseteq Dimensions, NEW types, NEW more, types \subseteq more,
         NEW said, NEW told, said => told, NEW status, NEW scores, NEW higher,
         \A d \in Dimensions : scores[d] \in 0..3 /\ higher[d] \in 0..3 /\ scores[d] <= higher[d]
  PROVE  Better(Confidence(c, types, said, scores, status), Confidence(c, more, told, higher, status))
<1> DEFINE S == {scores[d] : d \in c.dims}  T == {higher[d] : d \in c.dims}
           m == Max({0} \cup S)  n == Max({0} \cup T)
<1>1. S \subseteq 0..3 /\ T \subseteq 0..3 /\ \A x \in S : \E y \in T : x <= y
  OBVIOUS
<1> HIDE DEF S, T
<1>2. m \in 0..3 /\ n \in 0..3 /\ m <= n
  BY <1>1, Best, BestGrows
<1> HIDE DEF m, n
<1>3. m >= 2 => n >= 2
  BY <1>2
<1>4. c.types \cap types # {} => c.types \cap more # {}
  OBVIOUS
<1>5. c.types = {} => c.types \cap more = {}
  OBVIOUS
<1> DEFINE a == Confidence(c, types, said, scores, status)  b == Confidence(c, more, told, higher, status)
<1>6. a = IF c.types \cap types # {} /\ m >= 2 /\ status # "Failed" THEN "confirmed"
          ELSE IF c.types \cap types # {} \/ (c.keywords /\ said) THEN "partial"
          ELSE IF c.types = {} /\ ~c.keywords THEN "manual" ELSE "not_met"
  BY DEF Confidence, m, S
<1>7. b = IF c.types \cap more # {} /\ n >= 2 /\ status # "Failed" THEN "confirmed"
          ELSE IF c.types \cap more # {} \/ (c.keywords /\ told) THEN "partial"
          ELSE IF c.types = {} /\ ~c.keywords THEN "manual" ELSE "not_met"
  BY DEF Confidence, n, T
<1> HIDE DEF a, b
<1>8. Better(a, b)
  BY <1>3, <1>4, <1>5, <1>6, <1>7, Places DEF Better
<1>9. QED
  BY <1>8 DEF a, b

\* A step that brings more evidence makes no control worse.
LEMMA FindingsImprove ==
  ASSUME RowsInv, RowsInv', MoreEvidence, NEW fw \in Frameworks
  PROVE  /\ DOMAIN FindingsNow(fw)' = DOMAIN FindingsNow(fw)
         /\ DOMAIN FindingsNow(fw) = DOMAIN Active(rows, fw)
         /\ \A id \in DOMAIN FindingsNow(fw) : Better(FindingsNow(fw)[id], FindingsNow(fw)'[id])
<1> DEFINE tags == Tags(pipe[Ran].tasks)
           active == Active(rows, fw)
<1>0. Ran \in Pipelines
  BY StartAssumption
<1>1. Active(rows, fw)' = active /\ run'.status = run.status
  BY DEF MoreEvidence
<1>2. tags \subseteq tags'
  <2>1. \A t \in run.has : t \in run'.has
    BY DEF MoreEvidence
  <2>2. \A t \in DOMAIN pipe[Ran].tasks :
          t \in DOMAIN pipe'[Ran].tasks /\ pipe[Ran].tasks[t].tags \subseteq pipe'[Ran].tasks[t].tags
    BY DEF MoreEvidence, Hardened, HardenedInto
  <2>3. tags = UNION {pipe[Ran].tasks[t].tags : t \in run.has \cap DOMAIN pipe[Ran].tasks}
    BY DEF Tags
  <2>4. tags' = UNION {pipe'[Ran].tasks[t].tags : t \in run'.has \cap DOMAIN pipe'[Ran].tasks}
    BY DEF Tags
  <2> HIDE DEF tags
  <2>5. QED
    BY <2>1, <2>2, <2>3, <2>4
<1>3. ASSUME NEW id, Said(id) PROVE Said(id)'
  <2>0. CASE id \in run.spread
    BY <2>0 DEF MoreEvidence, Said
  <2> SUFFICES ASSUME id \notin run.spread PROVE Said(id)'
    BY <2>0
  <2>1. PICK t \in run.has : id \in run.said[t]
    BY <1>3 DEF Said
  <2>2. t \in TaskIds
    BY DEF RowsInv, Shape
  <2>3. t \in run'.has /\ id \in run'.said[t]
    BY <2>1, <2>2 DEF MoreEvidence
  <2>4. QED
    BY <2>3 DEF Said
<1>4. \A d \in Dimensions :
        Scores(Ran)[d] \in 0..3 /\ Scores(Ran)'[d] \in 0..3 /\ Scores(Ran)[d] <= Scores(Ran)'[d]
  <2>1. Improved(pipe[Ran], pipe'[Ran])
    BY <1>0, HardenedImproves DEF MoreEvidence
  <2>2. QED
    BY <2>1, ScoresOfRows DEF Improved
<1>5. \A id \in DOMAIN active : active[id].dims \subseteq Dimensions
  BY ActiveControls
<1>6. /\ FindingsNow(fw) =
          [id \in DOMAIN active |-> Confidence(active[id], tags, Said(id), Scores(Ran), run.status)]
      /\ FindingsNow(fw)' =
          [id \in DOMAIN active |-> Confidence(active[id], tags', Said(id)', Scores(Ran)', run.status)]
  BY <1>1 DEF FindingsNow, Findings
<1>7. ASSUME NEW id \in DOMAIN active PROVE Better(FindingsNow(fw)[id], FindingsNow(fw)'[id])
  <2> DEFINE c == active[id]  scores == Scores(Ran)  more == tags'  higher == Scores(Ran)'
  <2>1. /\ FindingsNow(fw)[id] = Confidence(c, tags, Said(id), scores, run.status)
        /\ FindingsNow(fw)'[id] = Confidence(c, more, Said(id)', higher, run.status)
    BY <1>6, <1>7
  <2>2. /\ c.dims \subseteq Dimensions /\ tags \subseteq more /\ (Said(id) => Said(id)')
        /\ \A d \in Dimensions : scores[d] \in 0..3 /\ higher[d] \in 0..3 /\ scores[d] <= higher[d]
    BY <1>2, <1>3, <1>4, <1>5, <1>7
  <2> HIDE DEF c, scores, more, higher, tags
  <2>3. Better(Confidence(c, tags, Said(id), scores, run.status), Confidence(c, more, Said(id)', higher, run.status))
    BY <2>2, ConfidenceGrows
  <2>4. QED
    BY <2>1, <2>3
<1>8. QED
  BY <1>6, <1>7

\* Fewer controls that are not met and more that are confirmed, of as many: no worse a rating.
LEMMA RatingGrows ==
  ASSUME NEW f, NEW g, IsFiniteSet(DOMAIN f), DOMAIN g = DOMAIN f,
         \A id \in DOMAIN f : Better(f[id], g[id])
  PROVE  OverallRating(f) <= OverallRating(g)
<1> DEFINE Of(h, c) == {id \in DOMAIN h : h[id] = c}
           n == Cardinality(DOMAIN f)
           a == Cardinality(Of(f, "not_met"))    b == Cardinality(Of(g, "not_met"))
           c == Cardinality(Of(f, "confirmed"))  d == Cardinality(Of(g, "confirmed"))
<1>1. Of(g, "not_met") \subseteq Of(f, "not_met") /\ Of(f, "confirmed") \subseteq Of(g, "confirmed")
  BY Places DEF Better
<1>2. /\ IsFiniteSet(Of(f, "not_met")) /\ IsFiniteSet(Of(g, "not_met"))
      /\ IsFiniteSet(Of(f, "confirmed")) /\ IsFiniteSet(Of(g, "confirmed"))
  BY FS_Subset
<1> HIDE DEF Of
<1>3. n \in Nat /\ a \in Nat /\ b \in Nat /\ c \in Nat /\ d \in Nat /\ b <= a /\ c <= d
  BY <1>1, <1>2, FS_Subset, FS_CardinalityType
<1> DEFINE Rate(x, y) == IF n = 0 THEN 0 ELSE IF 10 * x > 3 * n THEN 1 ELSE IF 10 * y >= 7 * n THEN 4
                         ELSE IF 10 * y >= 4 * n THEN 3 ELSE 2
<1>4. OverallRating(f) = Rate(a, c)
  <2> HIDE DEF n, a, c
  <2>1. OverallRating(f) =
          CASE n = 0 -> 0
            [] n # 0 /\ 10 * a > 3 * n -> 1
            [] n # 0 /\ 10 * a <= 3 * n /\ 10 * c >= 7 * n -> 4
            [] n # 0 /\ 10 * a <= 3 * n /\ 10 * c \in 4 * n .. 7 * n - 1 -> 3
            [] OTHER -> 2
    BY DEF OverallRating, n, a, c, Of
  <2>2. QED
    BY <1>3, <2>1
<1>5. OverallRating(g) = Rate(b, d)
  <2>0. n = Cardinality(DOMAIN g)
    OBVIOUS
  <2> HIDE DEF n, b, d
  <2>1. OverallRating(g) =
          CASE n = 0 -> 0
            [] n # 0 /\ 10 * b > 3 * n -> 1
            [] n # 0 /\ 10 * b <= 3 * n /\ 10 * d >= 7 * n -> 4
            [] n # 0 /\ 10 * b <= 3 * n /\ 10 * d \in 4 * n .. 7 * n - 1 -> 3
            [] OTHER -> 2
    BY <2>0 DEF OverallRating, b, d, Of
  <2>2. QED
    BY <1>3, <2>1
<1> HIDE DEF n, a, b, c, d
<1>6. Rate(a, c) <= Rate(b, d)
  BY <1>3
<1>7. QED
  BY <1>4, <1>5, <1>6

\* More output or harder tasks turn no control of a framework worse, nor the rating over all of
\* them: for any rows that override the controls, and any number of controls.
THEOREM EvidenceNeverHurts == Spec => EvidenceHelps
<1> DEFINE Good(fw) ==
       LET before == FindingsNow(fw)
           after == FindingsNow(fw)'
       IN  /\ \A id \in DOMAIN before :
                \/ before[id] = after[id]
                \/ before[id] # "manual" /\ Place(before[id]) < Place(after[id])
           /\ OverallRating(before) <= OverallRating(after)
<1>1. ASSUME RowsInv, RowsInv', MoreEvidence, NEW fw \in Frameworks PROVE Good(fw)
  <2> DEFINE before == FindingsNow(fw)  after == FindingsNow(fw)'
  <2>1. /\ DOMAIN after = DOMAIN before /\ DOMAIN before = DOMAIN Active(rows, fw)
        /\ \A id \in DOMAIN before : Better(before[id], after[id])
    BY <1>1, FindingsImprove
  <2>2. IsFiniteSet(DOMAIN before)
    BY <1>1, <2>1, ActiveControls
  <2> HIDE DEF before, after
  <2>3. OverallRating(before) <= OverallRating(after)
    BY <2>1, <2>2, RatingGrows
  <2>4. \A id \in DOMAIN before :
          \/ before[id] = after[id]
          \/ before[id] # "manual" /\ Place(before[id]) < Place(after[id])
    BY <2>1 DEF Better
  <2>5. QED
    BY <2>3, <2>4 DEF before, after
<1> HIDE DEF Good
<1>2. RowsInv /\ RowsInv' => (MoreEvidence => \A fw \in Frameworks : Good(fw))
  BY <1>1
<1>3. QED
  BY <1>2, RowsAlways, PTL DEF EvidenceHelps, Good

-----------------------------------------------------------------------------
(* The ISO report when rows are added.                                     *)

Counts == {"users", "roles", "bindings", "secrets", "events", "rules", "runs", "webhooks",
           "pipelines", "rated", "environmentCount"}

\* d counts everything that c counts.
Grown(c, d) ==
  /\ \A k \in Counts : c[k] \in Nat /\ d[k] \in Nat /\ c[k] <= d[k]
  /\ (c.scan => d.scan) /\ (c.sbom => d.sbom) /\ c.environments \subseteq d.environments

LEMMA ChecksStay ==
  ASSUME NEW c, NEW d, Grown(c, d)
  PROVE  /\ CheckRbac(c) = "pass" => CheckRbac(d) = "pass"
         /\ CheckAuth(c) = "pass" => CheckAuth(d) = "pass"
         /\ CheckSbom(c) = "pass" => CheckSbom(d) = "pass"
         /\ CheckAuditLog(c) = "pass" => CheckAuditLog(d) = "pass"
         /\ CheckPipelineCompliance(c) = "pass" => CheckPipelineCompliance(d) = "pass"
         /\ CheckVulnerabilityScanning(c) = "pass" => CheckVulnerabilityScanning(d) = "pass"
         /\ CheckSecrets(c) = "pass" => CheckSecrets(d) = "pass"
         /\ CheckSegregation(c) = "pass" => CheckSegregation(d) = "pass"
         /\ CheckChangeManagement(c) = "pass" => CheckChangeManagement(d) = "pass"
<1>1. /\ c.users \in Nat /\ d.users \in Nat /\ c.users <= d.users
      /\ c.roles \in Nat /\ d.roles \in Nat /\ c.roles <= d.roles
      /\ c.bindings \in Nat /\ d.bindings \in Nat /\ c.bindings <= d.bindings
      /\ c.secrets \in Nat /\ d.secrets \in Nat /\ c.secrets <= d.secrets
      /\ c.events \in Nat /\ d.events \in Nat /\ c.events <= d.events
  BY DEF Grown, Counts
<1>2. /\ c.rules \in Nat /\ d.rules \in Nat /\ c.rules <= d.rules
      /\ c.runs \in Nat /\ d.runs \in Nat /\ c.runs <= d.runs
      /\ c.rated \in Nat /\ d.rated \in Nat /\ c.rated <= d.rated
      /\ c.environmentCount \in Nat /\ d.environmentCount \in Nat
      /\ c.environmentCount <= d.environmentCount
  BY DEF Grown, Counts
<1>3. (c.scan => d.scan) /\ (c.sbom => d.sbom) /\ c.environments \subseteq d.environments
  BY DEF Grown
<1>4. CheckRbac(c) = "pass" => CheckRbac(d) = "pass"
  BY <1>1 DEF CheckRbac, PassIf
<1>5. CheckAuth(d) = "pass"
  BY DEF CheckAuth
<1>6. CheckSbom(c) = "pass" => CheckSbom(d) = "pass"
  BY <1>3 DEF CheckSbom, PassIf
<1>7. CheckAuditLog(c) = "pass" => CheckAuditLog(d) = "pass"
  BY <1>1 DEF CheckAuditLog, PassIf
<1>8. CheckPipelineCompliance(c) = "pass" => CheckPipelineCompliance(d) = "pass"
  BY <1>2 DEF CheckPipelineCompliance, PassIf
<1>9. CheckVulnerabilityScanning(c) = "pass" => CheckVulnerabilityScanning(d) = "pass"
  BY <1>3 DEF CheckVulnerabilityScanning, PassIf
<1>10. CheckSecrets(c) = "pass" => CheckSecrets(d) = "pass"
  BY <1>1 DEF CheckSecrets, PassIf
<1>11. CheckSegregation(c) = "pass" => CheckSegregation(d) = "pass"
  BY <1>2, <1>3 DEF CheckSegregation, PassIf
<1>12. CheckChangeManagement(c) = "pass" => CheckChangeManagement(d) = "pass"
  BY <1>2 DEF CheckChangeManagement, PassIf
<1>13. QED
  BY <1>4, <1>5, <1>6, <1>7, <1>8, <1>9, <1>10, <1>11, <1>12

LEMMA PassGrows ==
  ASSUME NEW c, NEW d, Grown(c, d) PROVE With("pass", c) \subseteq With("pass", d)
<1> SUFFICES ASSUME NEW id \in Catalogue, Status(id, c) = "pass" PROVE Status(id, d) = "pass"
  BY DEF With
<1>1. QED
  BY ChecksStay DEF Status

LEMMA ContextGrows ==
  ASSUME RowsInv, RowsInv', RowsAdded PROVE Grown(ContextNow, ContextNow')
<1>1. /\ IsFiniteSet(Pipelines) /\ IsFiniteSet(Users) /\ IsFiniteSet(Roles) /\ IsFiniteSet(Environments)
  BY StartAssumption
<1>2. /\ users \subseteq users' /\ users' \subseteq Users /\ roles \subseteq roles' /\ roles' \subseteq Roles
      /\ bindings \subseteq bindings' /\ bindings' \subseteq users' \X roles'
      /\ rated \subseteq rated' /\ rated' \subseteq Pipelines
      /\ DOMAIN envs \subseteq DOMAIN envs' /\ DOMAIN envs' \subseteq Environments
  BY DEF RowsAdded, RowsInv, AssessmentTypeOK, Shape
<1>3. /\ IsFiniteSet(users') /\ IsFiniteSet(roles') /\ IsFiniteSet(rated') /\ IsFiniteSet(DOMAIN envs')
  BY <1>1, <1>2, FS_Subset
<1>4. IsFiniteSet(bindings')
  <2>1. IsFiniteSet(users' \X roles')
    BY <1>3, FS_Product
  <2>2. QED
    BY <1>2, <2>1, FS_Subset
<1>5. \A S, T : S \subseteq T /\ IsFiniteSet(T) =>
        Cardinality(S) \in Nat /\ Cardinality(T) \in Nat /\ Cardinality(S) <= Cardinality(T)
  BY FS_Subset, FS_CardinalityType
<1> DEFINE c == ContextNow  d == ContextNow'
<1>6. /\ c.users = Cardinality(users) /\ d.users = Cardinality(users')
      /\ c.roles = Cardinality(roles) /\ d.roles = Cardinality(roles')
      /\ c.bindings = Cardinality(bindings) /\ d.bindings = Cardinality(bindings')
      /\ c.rated = Cardinality(rated) /\ d.rated = Cardinality(rated')
      /\ c.environmentCount = Cardinality(DOMAIN envs) /\ d.environmentCount = Cardinality(DOMAIN envs')
      /\ c.pipelines = Cardinality(Pipelines) /\ d.pipelines = Cardinality(Pipelines)
  BY DEF ContextNow
<1>7. /\ c.secrets = One("secrets" \in filled) /\ d.secrets = One("secrets" \in filled')
      /\ c.events = One("events" \in filled) /\ d.events = One("events" \in filled')
      /\ c.rules = One("rules" \in filled) /\ d.rules = One("rules" \in filled')
      /\ c.runs = One("runs" \in filled) /\ d.runs = One("runs" \in filled')
      /\ c.webhooks = One("webhooks" \in filled) /\ d.webhooks = One("webhooks" \in filled')
  BY DEF ContextNow
<1>8. /\ c.scan = (scan # {}) /\ d.scan = (scan' # {})
      /\ c.environments = {envs[e] : e \in DOMAIN envs}
      /\ d.environments = {envs'[e] : e \in DOMAIN envs'}
  BY DEF ContextNow
<1>9. /\ c.sbom = (\E p \in Pipelines : \E look \in TasksOf(p) : look.sbom)
      /\ d.sbom = (\E p \in Pipelines : \E look \in TasksOf(p)' : look.sbom)
  BY DEF ContextNow
<1> HIDE DEF c, d
<1>10. c.sbom => d.sbom
  <2> SUFFICES ASSUME NEW p \in Pipelines, NEW look \in TasksOf(p), look.sbom
               PROVE  \E more \in TasksOf(p)' : more.sbom
    BY <1>9
  <2>1. Harder(TasksOf(p), TasksOf(p)')
    BY HardenedImproves DEF RowsAdded
  <2>2. QED
    BY <2>1 DEF Harder, HardenedInto
<1>11. (c.scan => d.scan) /\ c.environments \subseteq d.environments
  BY <1>8 DEF RowsAdded
<1>12. \A k \in {"users", "roles", "bindings", "rated", "environmentCount", "pipelines"} :
         c[k] \in Nat /\ d[k] \in Nat /\ c[k] <= d[k]
  BY <1>1, <1>2, <1>3, <1>4, <1>5, <1>6
<1>13. \A k \in {"secrets", "events", "rules", "runs", "webhooks"} :
         c[k] \in Nat /\ d[k] \in Nat /\ c[k] <= d[k]
  <2>1. filled \subseteq filled'
    BY DEF RowsAdded
  <2>2. QED
    BY <1>7, <2>1 DEF One
<1>14. Grown(c, d)
  BY <1>10, <1>11, <1>12, <1>13 DEF Grown, Counts
<1>15. QED
  BY <1>14 DEF c, d

\* What a control of the ISO report passes it passes still when rows are added and tasks hardened.
THEOREM PassesStay == Spec => PassStays
<1>1. RowsInv /\ RowsInv' => (MoreRows => With("pass", ContextNow) \subseteq With("pass", ContextNow'))
  BY ContextGrows, PassGrows DEF MoreRows
<1>2. QED
  BY <1>1, RowsAlways, PTL DEF PassStays

-----------------------------------------------------------------------------
(* The ISO report while it is made.                                        *)

LEMMA GrownThrough == \A c, d, e : Grown(c, d) /\ Grown(d, e) => Grown(c, e)
<1> SUFFICES ASSUME NEW c, NEW d, NEW e, Grown(c, d), Grown(d, e) PROVE Grown(c, e)
  OBVIOUS
<1>1. \A k \in Counts : c[k] \in Nat /\ d[k] \in Nat /\ e[k] \in Nat /\ c[k] <= d[k] /\ d[k] <= e[k]
  BY DEF Grown
<1>2. \A k \in Counts : c[k] <= e[k]
  BY <1>1
<1>3. QED
  BY <1>1, <1>2 DEF Grown

LEMMA ContextCounts == RowsInv => Grown(ContextNow, ContextNow)
<1> SUFFICES ASSUME RowsInv PROVE Grown(ContextNow, ContextNow)
  OBVIOUS
<1>1. /\ IsFiniteSet(Pipelines) /\ IsFiniteSet(Users) /\ IsFiniteSet(Roles) /\ IsFiniteSet(Environments)
  BY StartAssumption
<1>2. /\ users \subseteq Users /\ roles \subseteq Roles /\ bindings \subseteq users \X roles
      /\ rated \subseteq Pipelines /\ DOMAIN envs \subseteq Environments
  BY DEF RowsInv, AssessmentTypeOK, Shape
<1>3. /\ IsFiniteSet(users) /\ IsFiniteSet(roles) /\ IsFiniteSet(rated) /\ IsFiniteSet(DOMAIN envs)
  BY <1>1, <1>2, FS_Subset
<1>4. IsFiniteSet(bindings)
  <2>1. IsFiniteSet(users \X roles)
    BY <1>3, FS_Product
  <2>2. QED
    BY <1>2, <2>1, FS_Subset
<1>5. /\ Cardinality(users) \in Nat /\ Cardinality(roles) \in Nat /\ Cardinality(bindings) \in Nat
      /\ Cardinality(rated) \in Nat /\ Cardinality(DOMAIN envs) \in Nat /\ Cardinality(Pipelines) \in Nat
  BY <1>1, <1>3, <1>4, FS_CardinalityType
<1>6. \A yes : One(yes) \in Nat
  BY DEF One
<1>7. \A k \in Counts : ContextNow[k] \in Nat
  BY <1>5, <1>6 DEF ContextNow, Counts
<1>8. QED
  BY <1>7 DEF Grown

ContextFields == DOMAIN ContextNow

\* What an ISO report has counted lies between the moment it began and now as long as rows are only
\* added, and passes what passed when it began.
IsoInv ==
  /\ iso.at = "idle" => grown
  /\ iso.at # "idle" /\ grown =>
       /\ DOMAIN iso.context = ContextFields
       /\ Grown(iso.context, ContextNow) /\ iso.passed \subseteq With("pass", iso.context)

IsoFields == {"at", "context", "passed"}

IsoShape == DOMAIN iso = IsoFields

LEMMA SameContext == Standing => ContextNow' = ContextNow
BY DEF Standing, ContextNow, TasksOf

LEMMA IsoBegins ==
  ASSUME RowsInv, IsoShape, IsoInv, BeginIso, grown' = grown PROVE IsoShape' /\ IsoInv'
<1>1. iso' = [at |-> "pipelines", context |-> ContextNow, passed |-> With("pass", ContextNow)]
  BY DEF BeginIso, IsoStep
<1>2. DOMAIN iso' = IsoFields /\ iso'.at = "pipelines" /\ iso'.context = ContextNow
      /\ iso'.passed = With("pass", ContextNow)
  BY <1>1 DEF IsoFields
<1>3. ContextNow' = ContextNow
  BY RequestsStand, SameContext
<1>4. Grown(ContextNow, ContextNow)
  BY ContextCounts
<1>5. QED
  BY <1>2, <1>3, <1>4 DEF IsoShape, IsoInv, ContextFields

\* The counts that come next are at least those of the moment before.
LEMMA CountsNext ==
  ASSUME NEW c, NEW d, NEW K, DOMAIN c = DOMAIN d, Counts \cup {"scan", "sbom", "environments"} \subseteq DOMAIN d,
         Grown(c, d), Grown(d, d)
  PROVE  LET m == [k \in DOMAIN c |-> IF k \in K THEN d[k] ELSE c[k]]
         IN  Grown(c, m) /\ Grown(m, d)
<1> DEFINE m == [k \in DOMAIN c |-> IF k \in K THEN d[k] ELSE c[k]]
<1>1. \A k \in DOMAIN d : m[k] \in {c[k], d[k]}
  OBVIOUS
<1>2. "scan" \in DOMAIN d /\ "sbom" \in DOMAIN d /\ "environments" \in DOMAIN d /\ Counts \subseteq DOMAIN d
  OBVIOUS
<1> HIDE DEF m
<1>3. \A k \in Counts : /\ c[k] \in Nat /\ m[k] \in Nat /\ d[k] \in Nat
                        /\ c[k] <= m[k] /\ m[k] <= d[k]
  <2> TAKE k \in Counts
  <2>1. c[k] \in Nat /\ d[k] \in Nat /\ c[k] <= d[k]
    BY DEF Grown
  <2>2. m[k] \in {c[k], d[k]}
    BY <1>1, <1>2
  <2>3. QED
    BY <2>1, <2>2
<1>4. /\ m.scan \in {c.scan, d.scan} /\ m.sbom \in {c.sbom, d.sbom}
      /\ m.environments \in {c.environments, d.environments}
  BY <1>1, <1>2
<1>5. (c.scan => d.scan) /\ (c.sbom => d.sbom) /\ c.environments \subseteq d.environments
  BY DEF Grown
<1>6. /\ (c.scan => m.scan) /\ (m.scan => d.scan) /\ (c.sbom => m.sbom) /\ (m.sbom => d.sbom)
      /\ c.environments \subseteq m.environments /\ m.environments \subseteq d.environments
  BY <1>4, <1>5
<1>7. QED
  BY <1>3, <1>6 DEF Grown, m

LEMMA IsoCounts ==
  ASSUME RowsInv, IsoShape, IsoInv, CountNext, grown' = grown PROVE IsoShape' /\ IsoInv'
<1> DEFINE c == iso.context  d == ContextNow  K == Counting[iso.at]
           m == [k \in DOMAIN c |-> IF k \in K THEN d[k] ELSE c[k]]
<1>1. /\ iso.at # "idle"
      /\ \E at : at # "idle" /\ iso' = [iso EXCEPT !.at = at, !.context = m]
  <2> DEFINE next == CHOOSE x \in Counting[iso.at] : iso.at = "bindings" \/ Counting[iso.at] = {x}
             at == IF iso.at = "bindings" THEN "answered" ELSE next
  <2>1. iso.at \in DOMAIN Counting /\ iso' = [iso EXCEPT !.at = at, !.context = m]
    BY DEF CountNext, IsoStep
  <2>2. iso.at \in {"pipelines", "users", "roles", "bindings"}
    BY <2>1 DEF Counting
  <2>3. ASSUME iso.at # "bindings" PROVE next # "idle"
    <3>1. \E x \in {"users", "roles", "bindings"} : Counting[iso.at] = {x}
      BY <2>2, <2>3 DEF Counting
    <3>2. next \in {"users", "roles", "bindings"}
      BY <3>1
    <3>3. QED
      BY <3>2
  <2> HIDE DEF next
  <2>4. at # "idle" /\ iso.at # "idle"
    BY <2>2, <2>3
  <2> HIDE DEF at, m
  <2>5. QED
    BY <2>1, <2>4
<1>2. DOMAIN iso' = IsoFields /\ iso'.at # "idle" /\ iso'.context = m /\ iso'.passed = iso.passed
  <2> HIDE DEF m
  <2>1. QED
    BY <1>1 DEF IsoShape, IsoFields
<1>3. ContextNow' = ContextNow
  BY RequestsStand, SameContext
<1>4. ASSUME grown PROVE DOMAIN m = ContextFields /\ Grown(m, d) /\ iso.passed \subseteq With("pass", m)
  <2>1. DOMAIN c = DOMAIN d /\ Grown(c, d) /\ iso.passed \subseteq With("pass", c)
    BY <1>1, <1>4 DEF IsoInv, ContextFields
  <2>2. Counts \cup {"scan", "sbom", "environments"} \subseteq DOMAIN d /\ Grown(d, d)
    BY ContextCounts DEF ContextNow, Counts
  <2>3. DOMAIN m = ContextFields
    BY <2>1 DEF ContextFields
  <2> HIDE DEF c, d, K
  <2>4. Grown(c, m) /\ Grown(m, d)
    BY <2>1, <2>2, CountsNext
  <2> HIDE DEF m
  <2>5. With("pass", c) \subseteq With("pass", m)
    BY <2>4, PassGrows
  <2>6. QED
    BY <2>1, <2>3, <2>4, <2>5
<1> HIDE DEF m
<1>5. QED
  BY <1>2, <1>3, <1>4 DEF IsoShape, IsoInv, ContextFields

LEMMA IsoStays ==
  ASSUME RowsInv, RowsInv', IsoShape, IsoInv, iso' = iso, grown' = (iso.at = "idle" \/ (grown /\ RowsAdded))
  PROVE  IsoShape' /\ IsoInv'
<1>1. CASE iso.at = "idle"
  BY <1>1 DEF IsoShape, IsoInv
<1>2. CASE iso.at # "idle"
  <2>1. ASSUME grown'
        PROVE  /\ DOMAIN iso.context = ContextFields' /\ Grown(iso.context, ContextNow')
               /\ iso.passed \subseteq With("pass", iso.context)
    <3>1. grown /\ RowsAdded
      BY <1>2, <2>1
    <3>2. Grown(ContextNow, ContextNow') /\ Grown(iso.context, ContextNow)
      BY <1>2, <3>1, ContextGrows DEF IsoInv
    <3>3. DOMAIN ContextNow' = DOMAIN ContextNow
      BY DEF ContextNow
    <3>4. QED
      BY <1>2, <3>1, <3>2, <3>3, GrownThrough DEF IsoInv, ContextFields
  <2>2. QED
    BY <1>2, <2>1 DEF IsoShape, IsoInv
<1>3. QED
  BY <1>1, <1>2

LEMMA IsoStands ==
  ASSUME IsoShape, IsoInv, UNCHANGED <<iso, grown>>, Standing PROVE IsoShape' /\ IsoInv'
BY SameContext DEF IsoShape, IsoInv, ContextFields

LEMMA IsoInvStep == RowsInv /\ RowsInv' /\ (IsoShape /\ IsoInv) /\ [Next]_vars => (IsoShape /\ IsoInv)'
<1> SUFFICES ASSUME RowsInv, RowsInv', IsoShape, IsoInv, [Next]_vars PROVE IsoShape' /\ IsoInv'
  OBVIOUS
<1>1. ASSUME Edit, grown' = (iso.at = "idle" \/ (grown /\ RowsAdded)) PROVE IsoShape' /\ IsoInv'
  <2>1. EditAccess => UNCHANGED iso
    BY DEF EditAccess, SetAccess, requests
  <2>2. EditDefinition \/ EditRun \/ EditRest => UNCHANGED iso
    BY DEF EditDefinition, DeleteTask, SaveTask, SetTasks, UpdatePipeline, EditRun, WriteLogs, EndRun,
           EditRest, SetRest, requests
  <2>3. EditControls => UNCHANGED iso
    BY DEF EditControls, UpdateControl, AddCustomControl, DeleteControl, ResetControls, SaveControl,
           KeepRows, requests
  <2>4. QED
    BY <1>1, <2>1, <2>2, <2>3, IsoStays DEF Edit
<1>2. ASSUME Framework \/ Overview, grown' = grown PROVE IsoShape' /\ IsoInv'
  <2>1. UNCHANGED iso
    BY <1>2 DEF Framework, BeginReport, ReadDefinition, ReadControls, ReportStep,
                Overview, BeginOverview, AnswerOverview, ListApplication, ScoreNext, OverviewStep
  <2>2. QED
    BY <1>2, <2>1, RequestsStand, IsoStands
<1>3. ASSUME BeginIso \/ CountNext, grown' = grown PROVE IsoShape' /\ IsoInv'
  BY <1>3, IsoBegins, IsoCounts
<1>4. ASSUME UNCHANGED vars PROVE IsoShape' /\ IsoInv'
  <2>1. UNCHANGED <<iso, grown>> /\ Standing
    BY <1>4 DEF vars, requests, definition, estate, Standing
  <2>2. QED
    BY <2>1, IsoStands
<1>5. QED
  BY <1>1, <1>2, <1>3, <1>4 DEF Next

LEMMA IsoInit == Init => IsoShape /\ IsoInv
BY DEF Init, IsoShape, IsoFields, IsoInv

LEMMA IsoPasses == IsoInv => PassesOfItsTime
BY PassGrows DEF IsoInv, PassesOfItsTime

-----------------------------------------------------------------------------
(* The overview.                                                           *)

LEMMA MeanBounded ==
  ASSUME NEW f, IsFiniteSet(DOMAIN f), \A x \in DOMAIN f : f[x] \in 0..1000
  PROVE  Mean(f) \subseteq 0..1000
<1> DEFINE S == DOMAIN f  n == SumFunctionOnSet(f, S)  d == Cardinality(S)
<1>1. CASE S = {}
  BY <1>1 DEF Mean
<1>2. CASE S # {}
  <2>1. \A x \in S : f[x] \in Nat /\ f[x] <= 1000
    OBVIOUS
  <2>2. Mean(f) = Nearest(n, d)
    BY <1>2 DEF Mean, SumFunction
  <2>3. d \in Nat /\ d # 0
    BY <1>2, FS_CardinalityType, FS_EmptySet
  <2> HIDE DEF S
  <2>4. n \in Nat
    BY <2>1, SumType DEF S
  <2>5. n <= 1000 * d
    BY <2>1, SumBounded DEF S
  <2> HIDE DEF n, d
  <2>6. d \in Nat \ {0}
    BY <2>3
  <2>7. Nearest(n, d) \subseteq 0..1000
    BY <2>4, <2>5, <2>6, NearestBounded, ZenonT(60)
  <2>8. QED
    BY <2>2, <2>7
<1>3. QED
  BY <1>1, <1>2

\* The means of the report, over scores that are in their range.
LEMMA ProductBounded ==
  ASSUME NEW scored, IsFiniteSet(scored), \A x \in scored : x.score \in 0..1000
  PROVE  ProductScores(scored) \subseteq 0..1000
<1> DEFINE Means(a) == ApplicationScores(scored, a)
<1>1. ASSUME NEW a PROVE Means(a) \subseteq 0..1000
  <2> DEFINE S == {y \in scored : y.app = a}  f == [x \in S |-> x.score]
  <2>1. IsFiniteSet(S)
    BY FS_Subset
  <2>2. DOMAIN f = S /\ \A x \in S : f[x] \in 0..1000
    OBVIOUS
  <2>3. Means(a) = Mean(f)
    BY DEF ApplicationScores
  <2> HIDE DEF S, f, Means
  <2>4. QED
    BY <2>1, <2>2, <2>3, MeanBounded
<1> SUFFICES ASSUME NEW s \in ProductScores(scored) PROVE s \in 0..1000
  OBVIOUS
<1>2. PICK g \in [Applications -> UNION {Means(a) : a \in Applications}] :
        s \in Mean(g) /\ \A a \in Applications : g[a] \in Means(a)
  BY DEF ProductScores
<1> HIDE DEF Means
<1>3. IsFiniteSet(Applications)
  BY StartAssumption
<1>4. DOMAIN g = Applications /\ \A a \in Applications : g[a] \in 0..1000
  BY <1>1, <1>2
<1>5. Mean(g) \subseteq 0..1000
  BY <1>3, <1>4, MeanBounded
<1>6. QED
  BY <1>2, <1>5

OverviewFields == {"at", "apps", "app", "listed", "scored"}

\* What an overview has counted of a pipeline.
CountOf(p) == {x \in overview.scored : x.pipeline = p}

\* What the overview holds has the right types.
Held ==
  /\ DOMAIN overview = OverviewFields
  /\ \A p \in DOMAIN overview.listed : overview.listed[p] \in Kinds
  /\ IsFiniteSet(overview.scored)
  /\ \A x \in overview.scored : x.score \in 0..1000 /\ x.tasks \in SUBSET Looks
  /\ overview.at = "idle" => DOMAIN overview.listed = {} /\ overview.scored = {}
  /\ overview.at = "answered" => overview.apps = {} /\ DOMAIN overview.listed = {}

\* A pipeline that stays where it is has been counted once if the turn of its application has
\* come and it is not waiting to be scored, and else not at all.
Turns ==
  overview.at # "idle" =>
    \A p \in Pipelines \ moved :
      /\ p \in DOMAIN overview.listed => pipe[p].app \notin overview.apps
      /\ IF pipe[p].app \in overview.apps \/ p \in DOMAIN overview.listed
         THEN CountOf(p) = {}
         ELSE \E x : CountOf(p) = {x}

OverviewInv == Held /\ Turns

LEMMA OverviewInit == Init => OverviewInv
<1> SUFFICES ASSUME Init PROVE OverviewInv
  OBVIOUS
<1>1. overview = [at |-> "idle", apps |-> {}, app |-> Unset, listed |-> <<>>, scored |-> {}]
  BY DEF Init, NoOverview
<1>2. DOMAIN overview = OverviewFields /\ overview.at = "idle" /\ overview.listed = <<>>
      /\ overview.scored = {} /\ overview.apps = {}
  BY <1>1 DEF OverviewFields
<1>3. DOMAIN overview.listed = {}
  BY <1>2
<1>4. IsFiniteSet(overview.scored)
  BY <1>2, FS_EmptySet
<1>5. QED
  BY <1>2, <1>3, <1>4 DEF OverviewInv, Held, Turns

\* Rows that stay, or move with a note of it, leave the turns as they are.
LEMMA TurnsStand ==
  ASSUME OverviewInv, UNCHANGED overview,
         \A p \in Pipelines \ moved' : p \notin moved /\ pipe'[p].app = pipe[p].app
  PROVE  OverviewInv'
<1>1. Held'
  BY DEF OverviewInv, Held
<1>2. Turns'
  BY DEF OverviewInv, Turns, CountOf
<1>3. QED
  BY <1>1, <1>2 DEF OverviewInv

LEMMA BeginTurns ==
  ASSUME RowsInv, OverviewInv, BeginOverview PROVE OverviewInv'
<1>1. overview.at = "idle" /\ moved' = {}
      /\ overview' = [overview EXCEPT !.at = "reading", !.apps = Applications] /\ pipe' = pipe
  BY DEF BeginOverview, Idle, OverviewStep
<1>2. DOMAIN overview = OverviewFields
  BY DEF OverviewInv, Held
<1>3. /\ DOMAIN overview' = OverviewFields /\ overview'.at = "reading" /\ overview'.apps = Applications
      /\ overview'.listed = overview.listed /\ overview'.scored = overview.scored
  BY <1>1, <1>2 DEF OverviewFields
<1>4. DOMAIN overview.listed = {} /\ overview.scored = {} /\ IsFiniteSet(overview.scored)
  BY <1>1 DEF OverviewInv, Held
<1>5. Held'
  BY <1>3, <1>4 DEF Held
<1>6. \A p \in Pipelines : pipe[p].app \in Applications
  BY Rows
<1>7. Turns'
  BY <1>1, <1>3, <1>4, <1>6 DEF Turns, CountOf
<1>8. QED
  BY <1>5, <1>7 DEF OverviewInv

LEMMA ListTurns ==
  ASSUME RowsInv, OverviewInv, NEW a, ListApplication(a) PROVE OverviewInv'
<1> DEFINE found == {p \in Pipelines : pipe[p].app = a}
           kinds == [p \in found |-> pipe[p].kind]
<1>1. /\ overview.at = "reading" /\ a \in overview.apps /\ DOMAIN overview.listed = {}
      /\ overview' = [overview EXCEPT !.apps = @ \ {a}, !.app = a, !.listed = kinds]
      /\ pipe' = pipe /\ moved' = moved
  BY DEF ListApplication, OverviewStep
<1>2. DOMAIN overview = OverviewFields
  BY DEF OverviewInv, Held
<1>3. DOMAIN kinds = found /\ \A p \in found : kinds[p] \in Kinds
  BY Rows
<1> HIDE DEF kinds
<1>4. /\ DOMAIN overview' = OverviewFields /\ overview'.at = "reading"
      /\ overview'.apps = overview.apps \ {a}
      /\ overview'.listed = kinds /\ overview'.scored = overview.scored
  BY <1>1, <1>2 DEF OverviewFields
<1>5. Held'
  BY <1>3, <1>4 DEF OverviewInv, Held
<1>6. ASSUME NEW p \in Pipelines \ moved
      PROVE  /\ p \in found => pipe[p].app \notin overview.apps \ {a}
             /\ IF pipe[p].app \in overview.apps \ {a} \/ p \in found
                THEN CountOf(p) = {} ELSE \E x : CountOf(p) = {x}
  <2>1. IF pipe[p].app \in overview.apps THEN CountOf(p) = {} ELSE \E x : CountOf(p) = {x}
    BY <1>1 DEF OverviewInv, Turns
  <2>2. p \in found <=> pipe[p].app = a
    OBVIOUS
  <2> HIDE DEF found
  <2>3. QED
    BY <1>1, <2>1, <2>2
<1>7. \A p : CountOf(p)' = CountOf(p)
  BY <1>4 DEF CountOf
<1>8. Turns'
  BY <1>1, <1>3, <1>4, <1>6, <1>7 DEF Turns
<1>9. QED
  BY <1>5, <1>8 DEF OverviewInv

LEMMA ScoreTurns ==
  ASSUME RowsInv, OverviewInv, NEW p \in Pipelines, ScoreNext(p) PROVE OverviewInv'
<1>1. PICK tasks \in {TasksOf(p)} \cup {x.tasks : x \in {y \in overview.scored : y.pipeline = p}} :
        OverviewStep([overview EXCEPT
         !.listed = [q \in DOMAIN @ \ {p} |-> @[q]],
         !.scored = @ \cup {[app |-> overview.app, pipeline |-> p, tasks |-> tasks,
                             score |-> ScoreTable[overview.listed[p]][tasks]]}])
  BY DEF ScoreNext
<1> DEFINE x == [app |-> overview.app, pipeline |-> p, tasks |-> tasks,
                 score |-> ScoreTable[overview.listed[p]][tasks]]
           left == [q \in DOMAIN overview.listed \ {p} |-> overview.listed[q]]
<1>2. /\ overview.at = "reading" /\ p \in DOMAIN overview.listed
      /\ overview' = [overview EXCEPT !.listed = left, !.scored = overview.scored \cup {x}]
      /\ pipe' = pipe /\ moved' = moved
  BY <1>1 DEF ScoreNext, OverviewStep
<1>3. DOMAIN overview = OverviewFields
  BY DEF OverviewInv, Held
<1>4. tasks \in SUBSET Looks /\ tasks \subseteq Tasks
  <2>1. pipe[p] \in PipelineRow
    BY DEF RowsInv, AssessmentTypeOK
  <2>2. TasksOf(p) \in SUBSET Looks
    BY <2>1, RowScores, ScoresOfRows
  <2>3. tasks \in SUBSET Looks
    BY <1>1, <2>2 DEF OverviewInv, Held
  <2>4. QED
    BY <2>3, StartAssumption
<1>5. x.score \in 0..1000 /\ x.tasks = tasks /\ x.pipeline = p
  <2>1. overview.listed[p] \in Kinds
    BY <1>2 DEF OverviewInv, Held
  <2> DEFINE kind == overview.listed[p]
  <2> HIDE DEF kind
  <2>2. kind \in Kinds
    BY <2>1 DEF kind
  <2>3. ScoreTable[kind][tasks] = PipelineScore(kind, tasks)
    BY <1>4, <2>2 DEF ScoreTable
  <2>4. PipelineScore(kind, tasks) \in 0..1000
    BY <1>4, <2>2, ScoreBounds
  <2>5. x.score = ScoreTable[kind][tasks]
    BY DEF kind
  <2>6. QED
    BY <2>3, <2>4, <2>5
<1>6. DOMAIN left = DOMAIN overview.listed \ {p} /\ \A q \in DOMAIN left : left[q] \in Kinds
  BY DEF OverviewInv, Held
<1> HIDE DEF x, left
<1>7. /\ DOMAIN overview' = OverviewFields /\ overview'.at = "reading"
      /\ overview'.apps = overview.apps
      /\ overview'.listed = left /\ overview'.scored = overview.scored \cup {x}
  BY <1>2, <1>3 DEF OverviewFields
<1>8. Held'
  <2>1. IsFiniteSet(overview'.scored)
    BY <1>7, FS_AddElement DEF OverviewInv, Held
  <2>2. \A y \in overview'.scored : y.score \in 0..1000 /\ y.tasks \in SUBSET Looks
    BY <1>4, <1>5, <1>7 DEF OverviewInv, Held
  <2>3. QED
    BY <1>6, <1>7, <2>1, <2>2 DEF Held
<1>9. ASSUME NEW q \in Pipelines \ moved
      PROVE  /\ q \in DOMAIN left => pipe[q].app \notin overview.apps
             /\ IF pipe[q].app \in overview.apps \/ q \in DOMAIN left
                THEN CountOf(q)' = {} ELSE \E y : CountOf(q)' = {y}
  <2>1. /\ q \in DOMAIN overview.listed => pipe[q].app \notin overview.apps
        /\ IF pipe[q].app \in overview.apps \/ q \in DOMAIN overview.listed
           THEN CountOf(q) = {} ELSE \E y : CountOf(q) = {y}
    BY <1>2 DEF OverviewInv, Turns
  <2>2. CASE q = p
    <3>1. CountOf(q)' = {x}
      BY <1>2, <1>5, <1>7, <2>1, <2>2 DEF CountOf
    <3>2. q \notin DOMAIN left /\ pipe[q].app \notin overview.apps
      BY <1>2, <1>6, <2>1, <2>2
    <3>3. QED
      BY <3>1, <3>2
  <2>3. CASE q # p
    <3>1. CountOf(q)' = CountOf(q)
      BY <1>5, <1>7, <2>3 DEF CountOf
    <3>2. q \in DOMAIN left <=> q \in DOMAIN overview.listed
      BY <1>6, <2>3
    <3>3. QED
      BY <2>1, <3>1, <3>2
  <2>4. QED
    BY <2>2, <2>3
<1>10. Turns'
  BY <1>2, <1>7, <1>9 DEF Turns
<1>11. QED
  BY <1>8, <1>10 DEF OverviewInv

LEMMA AnswerTurns ==
  ASSUME OverviewInv, AnswerOverview PROVE OverviewInv'
<1>1. /\ overview.at = "reading" /\ overview.apps = {} /\ DOMAIN overview.listed = {}
      /\ overview' = [overview EXCEPT !.at = "answered"] /\ pipe' = pipe /\ moved' = moved
  BY DEF AnswerOverview, OverviewStep
<1>2. DOMAIN overview = OverviewFields
  BY DEF OverviewInv, Held
<1>3. /\ DOMAIN overview' = OverviewFields /\ overview'.at = "answered"
      /\ overview'.apps = overview.apps /\ overview'.listed = overview.listed
      /\ overview'.scored = overview.scored
  BY <1>1, <1>2 DEF OverviewFields
<1>4. Held'
  BY <1>1, <1>3 DEF OverviewInv, Held
<1>5. Turns'
  BY <1>1, <1>3 DEF OverviewInv, Turns, CountOf
<1>6. QED
  BY <1>4, <1>5 DEF OverviewInv

LEMMA OverviewInvStep == RowsInv /\ OverviewInv /\ [Next]_vars => OverviewInv'
<1> SUFFICES ASSUME RowsInv, OverviewInv, [Next]_vars PROVE OverviewInv'
  OBVIOUS
<1>1. ASSUME UNCHANGED <<overview, pipe, moved>> PROVE OverviewInv'
  BY <1>1, TurnsStand
<1>2. ASSUME EditDefinition PROVE OverviewInv'
  <2>1. pipe \in [Pipelines -> PipelineRow]
    BY DEF RowsInv, AssessmentTypeOK
  <2>2. ASSUME NEW p \in Pipelines, NEW tasks, SetTasks(p, tasks) PROVE OverviewInv'
    <3>1. UNCHANGED overview /\ moved' = moved /\ pipe' = [pipe EXCEPT ![p].tasks = tasks]
      BY <2>2 DEF SetTasks, requests
    <3>2. \A q \in Pipelines : pipe'[q].app = pipe[q].app
      BY <2>1, <3>1 DEF PipelineRow
    <3>3. QED
      BY <3>1, <3>2, TurnsStand
  <2>3. ASSUME NEW p \in Pipelines, NEW kind \in EditedKinds, NEW app \in Applications,
               UpdatePipeline(p, kind, app)
        PROVE  OverviewInv'
    <3>1. /\ UNCHANGED overview /\ pipe' = [pipe EXCEPT ![p].kind = kind, ![p].app = app]
          /\ moved' = IF app = pipe[p].app THEN moved ELSE moved \cup {p}
      BY <2>3 DEF UpdatePipeline, requests
    <3>2. pipe[p] \in PipelineRow
      BY <2>1
    <3>3. pipe'[p].app = app /\ \A q \in Pipelines \ {p} : pipe'[q] = pipe[q]
      BY <2>1, <3>1, <3>2 DEF PipelineRow
    <3>4. \A q \in Pipelines \ moved' : q \notin moved /\ pipe'[q].app = pipe[q].app
      BY <3>1, <3>3
    <3>5. QED
      BY <3>1, <3>4, TurnsStand
  <2>4. QED
    BY <1>2, <2>2, <2>3 DEF EditDefinition, DeleteTask, SaveTask
<1>3. ASSUME EditRun \/ EditControls \/ EditAccess \/ EditRest PROVE OverviewInv'
  <2>1. EditRun => UNCHANGED <<overview, pipe, moved>>
    BY DEF EditRun, WriteLogs, EndRun, requests
  <2>2. EditControls => UNCHANGED <<overview, pipe, moved>>
    BY DEF EditControls, UpdateControl, AddCustomControl, DeleteControl, ResetControls, SaveControl,
           KeepRows, definition, requests
  <2>3. EditAccess => UNCHANGED <<overview, pipe, moved>>
    BY DEF EditAccess, SetAccess, definition, requests
  <2>4. EditRest => UNCHANGED <<overview, pipe, moved>>
    BY DEF EditRest, SetRest, definition, requests
  <2>5. QED
    BY <1>1, <1>3, <2>1, <2>2, <2>3, <2>4
<1>4. ASSUME Framework \/ BeginIso \/ CountNext PROVE OverviewInv'
  <2>1. Framework => UNCHANGED <<overview, pipe, moved>>
    BY DEF Framework, BeginReport, ReadDefinition, ReadControls, ReportStep, definition
  <2>2. BeginIso \/ CountNext => UNCHANGED <<overview, pipe, moved>>
    BY DEF BeginIso, CountNext, IsoStep, definition
  <2>3. QED
    BY <1>1, <1>4, <2>1, <2>2
<1>5. ASSUME Overview PROVE OverviewInv'
  BY <1>5, BeginTurns, AnswerTurns, ListTurns, ScoreTurns DEF Overview
<1>6. ASSUME UNCHANGED vars PROVE OverviewInv'
  BY <1>1, <1>6 DEF vars, definition, requests
<1>7. QED
  BY <1>2, <1>3, <1>4, <1>5, <1>6 DEF Next, Edit

LEMMA TurnsCount == OverviewInv => CountedOnce
<1> SUFFICES ASSUME OverviewInv, overview.at = "answered"
             PROVE  /\ \A p \in Pipelines \ moved : Cardinality({x \in overview.scored : x.pipeline = p}) = 1
                    /\ \A s \in ProductScores(overview.scored) : s \in 0..1000
  BY DEF CountedOnce
<1>1. ASSUME NEW p \in Pipelines \ moved PROVE Cardinality({x \in overview.scored : x.pipeline = p}) = 1
  <2>1. PICK x : CountOf(p) = {x}
    BY DEF OverviewInv, Held, Turns
  <2>2. Cardinality({x}) = 1
    BY FS_Singleton
  <2>3. QED
    BY <2>1, <2>2 DEF CountOf
<1>2. ProductScores(overview.scored) \subseteq 0..1000
  BY ProductBounded DEF OverviewInv, Held
<1>3. QED
  BY <1>1, <1>2

\* The reports that are made while their rows change are sound: what one claims as met it shows,
\* a failed run confirms nothing, an overview counts every pipeline once that stayed where it
\* was, and as long as rows are only added an ISO report passes all that passed when it began and
\* nothing that does not pass in the end.
THEOREM ReportsAreSound == Spec => []ReportsSound
<1> DEFINE J == ClaimsInv /\ OverviewInv /\ IsoShape /\ IsoInv
<1>1. Init => J
  BY ClaimsInit, OverviewInit, IsoInit
<1>2. RowsInv /\ RowsInv' /\ J /\ [Next]_vars => J'
  BY ClaimsStep, OverviewInvStep, IsoInvStep
<1>3. J => ReportsSound
  BY IsoPasses, TurnsCount DEF ClaimsInv, ReportsSound
<1> HIDE DEF J
<1>4. QED
  BY <1>1, <1>2, <1>3, RowsAlways, PTL DEF Spec
=============================================================================
