--------------------------- MODULE DefinitionProofs ---------------------------
(***************************************************************************)
(* What an import makes of a definition, for documents and definitions of  *)
(* any length, and from it the four properties of Definition.  Induction   *)
(* is by the least counterexample.                                         *)
(***************************************************************************)
EXTENDS Definition, FiniteSetTheorems, SequenceTheorems, WellFoundedInduction, NaturalsInduction, TLAPS

\* A set of natural numbers has a least member.
LEMMA Least ==
  ASSUME NEW T \in SUBSET Nat, T # {}
  PROVE  \E m \in T : \A n \in T : m <= n
<1>1. IsWellFoundedOn(OpToRel(<, Nat), Nat)
  BY NatLessThanWellFounded
<1>2. PICK m \in T : \A n \in T : ~(<<n, m>> \in OpToRel(<, Nat))
  BY <1>1, WFMin, Zenon
<1>3. \A n \in T : ~(n < m)
  BY <1>2 DEF OpToRel
<1>4. T \subseteq Nat
  OBVIOUS
<1>5. \A n \in T : m <= n
  BY <1>3, <1>4
<1>6. QED
  BY <1>5

\* Induction up to n: what holds of 0 and goes from each number to the next holds of all.
LEMMA Stepping ==
  ASSUME NEW n \in Nat, NEW P, 0 \in P, \A i \in 1..n : i - 1 \in P => i \in P
  PROVE  \A i \in 0..n : i \in P
<1> DEFINE T == (0..n) \ P
<1> SUFFICES ASSUME T # {} PROVE FALSE
  OBVIOUS
<1>0. T \in SUBSET Nat
  OBVIOUS
<1>1. PICK m \in T : \A i \in T : m <= i
  BY <1>0, Least
<1>2. m \in 1..n /\ m - 1 \in 0..n
  BY <1>1
<1>3. m - 1 \in P
  BY <1>1, <1>2
<1>4. QED
  BY <1>1, <1>2, <1>3

\* Positions have a lowest and a highest.
LEMMA Bounds ==
  ASSUME NEW n \in Nat, NEW S \in SUBSET (1..n), S # {}
  PROVE  /\ Max(S) \in S /\ \A i \in S : i <= Max(S)
         /\ Min(S) \in S /\ \A i \in S : Min(S) <= i
<1>1. \E m \in S : \A i \in S : m <= i
  BY Least
<1>2. \E m \in S : \A i \in S : m >= i
  <2> DEFINE T == {n - i : i \in S}
  <2>0. \A i \in S : n - i \in Nat
    OBVIOUS
  <2>1. T \in SUBSET Nat /\ T # {}
    BY <2>0
  <2>2. PICK t \in T : \A u \in T : t <= u
    BY <2>1, Least
  <2>3. PICK m \in S : t = n - m
    OBVIOUS
  <2>4. \A i \in S : n - i \in T
    OBVIOUS
  <2>5. \A i \in S : n - m <= n - i
    BY <2>2, <2>3, <2>4
  <2>6. QED
    BY <2>5
<1>3. QED
  BY <1>1, <1>2 DEF Max, Min

LEMMA Shape ==
  ASSUME NEW T, NEW s \in Seq(T)
  PROVE  Len(s) \in Nat /\ DOMAIN s = 1..Len(s) /\ \A i \in DOMAIN s : s[i] \in T
BY LenProperties, ElementOfSeq

LEMMA Removed ==
  ASSUME NEW T, NEW s \in Seq(T), NEW i \in DOMAIN s
  PROVE  /\ RemoveAt(s, i) \in Seq(T) /\ Len(RemoveAt(s, i)) = Len(s) - 1
         /\ \A j \in 1..(Len(s) - 1) : RemoveAt(s, i)[j] = IF j < i THEN s[j] ELSE s[j + 1]
<1>1. Len(s) \in Nat /\ i \in 1..Len(s)
  BY Shape
<1>2. /\ SubSeq(s, 1, i - 1) \in Seq(T) /\ Len(SubSeq(s, 1, i - 1)) = i - 1
      /\ \A j \in 1..(i - 1) : SubSeq(s, 1, i - 1)[j] = s[j]
      /\ SubSeq(s, i + 1, Len(s)) \in Seq(T) /\ Len(SubSeq(s, i + 1, Len(s))) = Len(s) - i
      /\ \A j \in 1..(Len(s) - i) : SubSeq(s, i + 1, Len(s))[j] = s[i + j]
  BY <1>1, Shape, SubSeqProperties
<1> DEFINE a == SubSeq(s, 1, i - 1)  b == SubSeq(s, i + 1, Len(s))
<1> HIDE DEF a, b
<1>3. /\ a \o b \in Seq(T) /\ Len(a \o b) = Len(s) - 1
      /\ \A j \in 1..(Len(s) - 1) : (a \o b)[j] = IF j < i THEN s[j] ELSE s[j + 1]
  <2>1. a \in Seq(T) /\ b \in Seq(T) /\ Len(a) = i - 1 /\ Len(b) = Len(s) - i
    BY <1>2 DEF a, b
  <2>2. \A j \in 1..(i - 1) : a[j] = s[j]
    BY <1>2 DEF a
  <2>3. \A j \in 1..(Len(s) - i) : b[j] = s[i + j]
    BY <1>2 DEF b
  <2>4. QED
    BY <1>1, <2>1, <2>2, <2>3, ConcatProperties
<1>4. QED
  BY <1>3 DEF RemoveAt, a, b

InsertedAt(s, i, e, new) ==
  /\ Len(new) = Len(s) + 1
  /\ \A j \in 1..(Len(s) + 1) : new[j] = IF j < i THEN s[j] ELSE IF j = i THEN e ELSE s[j - 1]

LEMMA Inserted ==
  ASSUME NEW T, NEW s \in Seq(T), NEW e \in T, NEW i \in 1..(Len(s) + 1), NEW new, new = InsertAt(s, i, e)
  PROVE  new \in Seq(T) /\ InsertedAt(s, i, e, new)
<1>1. Len(s) \in Nat
  BY Shape
<1>2. /\ SubSeq(s, 1, i - 1) \in Seq(T) /\ Len(SubSeq(s, 1, i - 1)) = i - 1
      /\ \A j \in 1..(i - 1) : SubSeq(s, 1, i - 1)[j] = s[j]
      /\ SubSeq(s, i, Len(s)) \in Seq(T) /\ Len(SubSeq(s, i, Len(s))) = Len(s) - i + 1
      /\ \A j \in 1..(Len(s) - i + 1) : SubSeq(s, i, Len(s))[j] = s[i + j - 1]
  BY <1>1, Shape, SubSeqProperties
<1> DEFINE a == SubSeq(s, 1, i - 1)  b == SubSeq(s, i, Len(s))
<1> HIDE DEF a, b
<1>0. a \in Seq(T) /\ b \in Seq(T) /\ Len(a) = i - 1 /\ Len(b) = Len(s) - i + 1
  BY <1>2 DEF a, b
<1>5. \A j \in 1..(i - 1) : a[j] = s[j]
  BY <1>2 DEF a
<1>6. \A j \in 1..(Len(s) - i + 1) : b[j] = s[i + j - 1]
  BY <1>2 DEF b
<1>3. /\ a \o <<e>> \in Seq(T) /\ Len(a \o <<e>>) = i
      /\ \A j \in 1..i : (a \o <<e>>)[j] = IF j < i THEN s[j] ELSE e
  BY <1>0, <1>1, <1>5, ConcatProperties
<1> DEFINE c == a \o <<e>>
<1> HIDE DEF c
<1>7. c \in Seq(T) /\ Len(c) = i /\ \A j \in 1..i : c[j] = IF j < i THEN s[j] ELSE e
  BY <1>3 DEF c
<1>9. /\ c \o b \in Seq(T) /\ Len(c \o b) = Len(s) + 1
      /\ \A j \in 1..(Len(s) + 1) : (c \o b)[j] = IF j <= i THEN c[j] ELSE b[j - i]
  <2>1. /\ c \o b \in Seq(T) /\ Len(c \o b) = Len(c) + Len(b)
        /\ \A j \in 1..(Len(c) + Len(b)) : (c \o b)[j] = IF j <= Len(c) THEN c[j] ELSE b[j - Len(c)]
    BY <1>0, <1>7, ConcatProperties
  <2>2. Len(c) = i /\ Len(c) + Len(b) = Len(s) + 1
    BY <1>0, <1>1, <1>7
  <2>3. QED
    BY <2>1, <2>2
<1>10. \A j \in 1..(Len(s) + 1) : j > i => b[j - i] = s[j - 1]
  <2>1. ASSUME NEW j \in 1..(Len(s) + 1), j > i PROVE b[j - i] = s[j - 1]
    <3>1. j - i \in 1..(Len(s) - i + 1) /\ i + (j - i) - 1 = j - 1
      BY <1>1, <2>1
    <3>2. QED
      BY <1>6, <3>1
  <2>2. QED
    BY <2>1
<1>8. /\ c \o b \in Seq(T) /\ Len(c \o b) = Len(s) + 1
      /\ \A j \in 1..(Len(s) + 1) : (c \o b)[j] = IF j < i THEN s[j] ELSE IF j = i THEN e ELSE s[j - 1]
  BY <1>1, <1>7, <1>9, <1>10
<1>4. QED
  BY <1>8 DEF InsertAt, InsertedAt, a, b, c

-----------------------------------------------------------------------------
(* Rows and their names.                                                   *)

Unique(rows) == \A i, j \in DOMAIN rows : rows[i].name = rows[j].name => i = j

\* A row found by its name has that name.
LEMMA FoundHere ==
  ASSUME NEW T, NEW rows \in Seq(T), NEW n, Named(rows, n) # {}, NEW last
  PROVE  Found(rows, n, last) \in DOMAIN rows /\ rows[Found(rows, n, last)].name = n
<1>1. Len(rows) \in Nat /\ Named(rows, n) \in SUBSET (1..Len(rows))
  BY Shape DEF Named
<1>2. Max(Named(rows, n)) \in Named(rows, n) /\ Min(Named(rows, n)) \in Named(rows, n)
  BY <1>1, Bounds
<1>3. Found(rows, n, last) \in Named(rows, n)
  BY <1>2 DEF Found
<1>4. QED
  BY <1>3 DEF Named

\* Without one row of a name, where names are unique: the others are left, in their order.
LEMMA WithoutName ==
  ASSUME NEW T, NEW rows \in Seq(T), Unique(rows), NEW n
  PROVE  /\ Without(rows, n) \in Seq(T) /\ Unique(Without(rows, n))
         /\ \A j \in DOMAIN Without(rows, n) : Without(rows, n)[j].name # n
         /\ \A j \in DOMAIN Without(rows, n) : \E i \in DOMAIN rows : Without(rows, n)[j] = rows[i]
         /\ \A i \in DOMAIN rows : rows[i].name # n => \E j \in DOMAIN Without(rows, n) : Without(rows, n)[j] = rows[i]
<1>1. CASE Named(rows, n) = {}
  BY <1>1 DEF Without, Named
<1>2. CASE Named(rows, n) # {}
  <2> DEFINE k == Max(Named(rows, n))
             w == RemoveAt(rows, k)
  <2>1. Len(rows) \in Nat /\ Named(rows, n) \in SUBSET (1..Len(rows)) /\ DOMAIN rows = 1..Len(rows)
    BY Shape DEF Named
  <2>2. k \in Named(rows, n)
    BY <1>2, <2>1, Bounds
  <2>3. k \in 1..Len(rows) /\ rows[k].name = n
    BY <2>1, <2>2 DEF Named
  <2> HIDE DEF k
  <2>4. /\ w \in Seq(T) /\ Len(w) = Len(rows) - 1
        /\ \A j \in 1..(Len(rows) - 1) : w[j] = IF j < k THEN rows[j] ELSE rows[j + 1]
    BY <2>1, <2>3, Removed
  <2>5. DOMAIN w = 1..(Len(rows) - 1)
    BY <2>4, Shape
  <2>6. Without(rows, n) = w
    BY <1>2 DEF Without, k
  <2> HIDE DEF w
  <2>7. \A j \in DOMAIN w : \E i \in DOMAIN rows : i # k /\ w[j] = rows[i]
    <3>1. ASSUME NEW j \in DOMAIN w PROVE \E i \in DOMAIN rows : i # k /\ w[j] = rows[i]
      <4>1. CASE j < k
        BY <2>1, <2>4, <2>5, <4>1
      <4>2. CASE ~(j < k)
        <5>1. j + 1 \in DOMAIN rows /\ j + 1 # k /\ w[j] = rows[j + 1]
          BY <2>1, <2>3, <2>4, <2>5, <4>2
        <5>2. QED
          BY <5>1
      <4>3. QED
        BY <4>1, <4>2
    <3>2. QED
      BY <3>1
  <2>8. \A i \in DOMAIN rows : i # k => \E j \in DOMAIN w : w[j] = rows[i]
    <3>1. ASSUME NEW i \in DOMAIN rows, i # k PROVE \E j \in DOMAIN w : w[j] = rows[i]
      <4>1. CASE i < k
        BY <2>1, <2>3, <2>4, <2>5, <4>1
      <4>2. CASE ~(i < k)
        <5>1. i - 1 \in DOMAIN w /\ w[i - 1] = rows[i]
          BY <2>1, <2>3, <2>4, <2>5, <3>1, <4>2
        <5>2. QED
          BY <5>1
      <4>3. QED
        BY <4>1, <4>2
    <3>2. QED
      BY <3>1
  <2>9. Unique(w)
    <3>1. ASSUME NEW i \in DOMAIN w, NEW j \in DOMAIN w, w[i].name = w[j].name PROVE i = j
      <4> DEFINE o(x) == IF x < k THEN x ELSE x + 1
      <4>1. o(i) \in DOMAIN rows /\ o(j) \in DOMAIN rows /\ w[i] = rows[o(i)] /\ w[j] = rows[o(j)]
        BY <2>1, <2>3, <2>4, <2>5
      <4>2. o(i) = o(j)
        BY <3>1, <4>1 DEF Unique
      <4>3. QED
        BY <2>1, <2>3, <2>5, <4>2
    <3>2. QED
      BY <3>1 DEF Unique
  <2>10. \A j \in DOMAIN w : w[j].name # n
    BY <2>2, <2>3, <2>1, <2>7 DEF Unique
  <2>11. QED
    BY <2>3, <2>4, <2>6, <2>7, <2>8, <2>9, <2>10
<1>3. QED
  BY <1>1, <1>2

\* A row put in the place of the one of its name.
Put(rows, row) == Append(Without(rows, row.name), row)

Replaced(rows, row, put) ==
  /\ \E j \in DOMAIN put : put[j] = row
  /\ \A j \in DOMAIN put : put[j] = row \/ put[j].name # row.name
  /\ \A j \in DOMAIN put : put[j] = row \/ \E i \in DOMAIN rows : put[j] = rows[i]
  /\ \A i \in DOMAIN rows : rows[i].name # row.name => \E j \in DOMAIN put : put[j] = rows[i]

LEMMA PutLast ==
  ASSUME NEW T, NEW rows \in Seq(T), Unique(rows), NEW row \in T, NEW put, put = Put(rows, row)
  PROVE  put \in Seq(T) /\ Unique(put) /\ Replaced(rows, row, put)
<1> DEFINE w == Without(rows, row.name)
<1>1. /\ w \in Seq(T) /\ Unique(w) /\ \A j \in DOMAIN w : w[j].name # row.name
      /\ \A j \in DOMAIN w : \E i \in DOMAIN rows : w[j] = rows[i]
      /\ \A i \in DOMAIN rows : rows[i].name # row.name => \E j \in DOMAIN w : w[j] = rows[i]
  BY WithoutName
<1>0. put = Append(w, row)
  BY DEF Put
<1> HIDE DEF w
<1>2. /\ put \in Seq(T) /\ Len(put) = Len(w) + 1 /\ \A j \in 1..Len(w) : put[j] = w[j]
      /\ put[Len(w) + 1] = row
  BY <1>0, <1>1, AppendProperties
<1>3. Len(w) \in Nat /\ DOMAIN w = 1..Len(w) /\ DOMAIN put = 1..(Len(w) + 1)
  BY <1>1, <1>2, Shape
<1>4. ASSUME NEW j \in DOMAIN put PROVE (j \in DOMAIN w /\ put[j] = w[j]) \/ (j = Len(w) + 1 /\ put[j] = row)
  <2>1. j \in 1..Len(w) \/ j = Len(w) + 1
    BY <1>3
  <2>2. QED
    BY <1>2, <1>3, <2>1
<1>5. Unique(put)
  BY <1>1, <1>4 DEF Unique
<1>6. \A i \in DOMAIN w : i \in DOMAIN put /\ put[i] = w[i]
  BY <1>2, <1>3
<1>7. Len(w) + 1 \in DOMAIN put
  BY <1>3
<1>8. /\ \E j \in DOMAIN put : put[j] = row
      /\ \A j \in DOMAIN put : put[j] = row \/ put[j].name # row.name
      /\ \A j \in DOMAIN put : put[j] = row \/ \E i \in DOMAIN rows : put[j] = rows[i]
      /\ \A i \in DOMAIN rows : rows[i].name # row.name => \E j \in DOMAIN put : put[j] = rows[i]
  BY <1>1, <1>2, <1>4, <1>6, <1>7
<1>9. QED
  BY <1>2, <1>5, <1>8 DEF Replaced

-----------------------------------------------------------------------------
(* Imports, row by row.                                                    *)

LEMMA TasksOneByOne ==
  ASSUME NEW old, NEW specs, Len(specs) \in Nat, NEW last
  PROVE  \E kept : /\ kept[0] = <<>>
                   /\ \A i \in 1..Len(specs) : kept[i] = WithTask(kept[i - 1], old, specs[i], last)
                   /\ MergedTasks(old, specs, last) = kept[Len(specs)]
<1> DEFINE n == Len(specs)
           F(g, i) == IF i = 0 THEN <<>> ELSE WithTask(g[i - 1], old, specs[i], last)
           Table(g, m) == g = [i \in 0..m |-> F(g, i)]
           P == {m \in 0..n : \E g : Table(g, m)}
<1>1. 0 \in P
  <2> DEFINE zero == [i \in 0..0 |-> <<>>]
  <2>1. Table(zero, 0) /\ 0 \in 0..n
    OBVIOUS
  <2> HIDE DEF zero, Table
  <2>2. QED
    BY <2>1
<1>2. ASSUME NEW m \in 1..n, m - 1 \in P PROVE m \in P
  <2>1. PICK g : Table(g, m - 1)
    BY <1>2
  <2> DEFINE h == [i \in 0..m |-> IF i < m THEN g[i] ELSE F(g, m)]
  <2>2. \A i \in 0..(m - 1) : g[i] = F(g, i)
    BY <2>1
  <2>3. \A i \in 1..m : h[i - 1] = g[i - 1]
    OBVIOUS
  <2>4. \A i \in 0..m : F(h, i) = F(g, i)
    BY <2>3
  <2>5. \A i \in 0..m : h[i] = F(g, i)
    BY <2>2
  <2>6. h = [i \in 0..m |-> h[i]]
    OBVIOUS
  <2> HIDE DEF h, F
  <2>7. Table(h, m)
    BY <2>4, <2>5, <2>6
  <2>8. QED
    BY <2>7
<1> HIDE DEF P
<1>3. n \in P
  <2>1. \A m \in 1..n : m - 1 \in P => m \in P
    BY <1>2
  <2>2. \A m \in 0..n : m \in P
    BY <1>1, <2>1, Stepping
  <2>3. QED
    BY <2>2
<1>4. PICK g : Table(g, n)
  BY <1>3 DEF P
<1> DEFINE k == CHOOSE h : Table(h, n)
<1>5. Table(k, n)
  BY <1>4
<1>6. MergedTasks(old, specs, last) = k[n]
  BY DEF MergedTasks
<1> HIDE DEF k
<1>7. \A i \in 0..n : k[i] = F(k, i)
  BY <1>5
<1>8. QED
  BY <1>6, <1>7

LEMMA StagesOneByOne ==
  ASSUME NEW d, NEW doc, Len(doc) \in Nat, NEW last
  PROVE  \E kept : /\ kept[0] = <<>>
                   /\ \A i \in 1..Len(doc) : kept[i] = WithStage(kept[i - 1], d, doc[i], last)
                   /\ Merged(d, doc, last) = kept[Len(doc)]
<1> DEFINE n == Len(doc)
           F(g, i) == IF i = 0 THEN <<>> ELSE WithStage(g[i - 1], d, doc[i], last)
           Table(g, m) == g = [i \in 0..m |-> F(g, i)]
           P == {m \in 0..n : \E g : Table(g, m)}
<1>1. 0 \in P
  <2> DEFINE zero == [i \in 0..0 |-> <<>>]
  <2>1. Table(zero, 0) /\ 0 \in 0..n
    OBVIOUS
  <2> HIDE DEF zero, Table
  <2>2. QED
    BY <2>1
<1>2. ASSUME NEW m \in 1..n, m - 1 \in P PROVE m \in P
  <2>1. PICK g : Table(g, m - 1)
    BY <1>2
  <2> DEFINE h == [i \in 0..m |-> IF i < m THEN g[i] ELSE F(g, m)]
  <2>2. \A i \in 0..(m - 1) : g[i] = F(g, i)
    BY <2>1
  <2>3. \A i \in 1..m : h[i - 1] = g[i - 1]
    OBVIOUS
  <2>4. \A i \in 0..m : F(h, i) = F(g, i)
    BY <2>3
  <2>5. \A i \in 0..m : h[i] = F(g, i)
    BY <2>2
  <2>6. h = [i \in 0..m |-> h[i]]
    OBVIOUS
  <2> HIDE DEF h, F
  <2>7. Table(h, m)
    BY <2>4, <2>5, <2>6
  <2>8. QED
    BY <2>7
<1> HIDE DEF P
<1>3. n \in P
  <2>1. \A m \in 1..n : m - 1 \in P => m \in P
    BY <1>2
  <2>2. \A m \in 0..n : m \in P
    BY <1>1, <2>1, Stepping
  <2>3. QED
    BY <2>2
<1>4. PICK g : Table(g, n)
  BY <1>3 DEF P
<1> DEFINE k == CHOOSE h : Table(h, n)
<1>5. Table(k, n)
  BY <1>4
<1>6. Merged(d, doc, last) = k[n]
  BY DEF Merged
<1> HIDE DEF k
<1>7. \A i \in 0..n : k[i] = F(k, i)
  BY <1>5
<1>8. QED
  BY <1>6, <1>7

LEMMA TaskPut ==
  ASSUME NEW kept \in Seq(Task), NEW old \in Seq(Task), NEW s \in TaskSpec, s.name # Blank, NEW last
  PROVE  \E row \in Task : row.name = s.name /\ WithTask(kept, old, s, last) = Put(kept, row)
<1> DEFINE new == [name |-> s.name, extra |-> FALSE, ran |-> FALSE]
           row == CASE Named(kept, s.name) # {} -> kept[Found(kept, s.name, last)]
                    [] Named(kept, s.name) = {} /\ Named(old, s.name) # {} -> old[Found(old, s.name, last)]
                    [] OTHER -> new
<1>1. new \in Task /\ new.name = s.name
  BY DEF Task, TaskSpec
<1> HIDE DEF new
<1>2. CASE Named(kept, s.name) # {}
  BY <1>2, FoundHere, Shape DEF WithTask, Put
<1>3. CASE Named(kept, s.name) = {} /\ Named(old, s.name) # {}
  <2> DEFINE found == old[Found(old, s.name, last)]
  <2>1. found \in Task /\ found.name = s.name
    BY <1>3, FoundHere, Shape
  <2>2. WithTask(kept, old, s, last) = Append(Without(kept, s.name), found)
    BY <1>3 DEF WithTask
  <2> HIDE DEF found
  <2>3. QED
    BY <2>1, <2>2 DEF Put
<1>4. CASE Named(kept, s.name) = {} /\ Named(old, s.name) = {}
  BY <1>1, <1>4 DEF WithTask, Put, new
<1>5. QED
  BY <1>2, <1>3, <1>4

\* An import leaves a stage with the tasks that the document names, each once; blank names are skipped.
LEMMA TasksMerged ==
  ASSUME NEW old \in Seq(Task), NEW specs \in Seq(TaskSpec), NEW last
  PROVE  LET new == MergedTasks(old, specs, last)
         IN  new \in Seq(Task) /\ Unique(new) /\ NamesOf(new) = NamesOf(specs) \ {Blank}
<1>1. Len(specs) \in Nat /\ DOMAIN specs = 1..Len(specs) /\ \A i \in 1..Len(specs) : specs[i] \in TaskSpec
  BY Shape
<1>2. PICK kept : /\ kept[0] = <<>>
                  /\ \A i \in 1..Len(specs) : kept[i] = WithTask(kept[i - 1], old, specs[i], last)
                  /\ MergedTasks(old, specs, last) = kept[Len(specs)]
  BY <1>1, TasksOneByOne
<1> DEFINE Good(i) == kept[i] \in Seq(Task) /\ Unique(kept[i]) /\ NamesOf(kept[i]) = {specs[j].name : j \in 1..i} \ {Blank}
           P == {i \in 0..Len(specs) : Good(i)}
<1>3. Good(0)
  BY <1>2, EmptySeq DEF Unique, NamesOf
<1>9. ASSUME NEW i \in 1..Len(specs), Good(i - 1), specs[i].name = Blank PROVE Good(i)
  <2>1. kept[i] = kept[i - 1]
    BY <1>2, <1>9 DEF WithTask
  <2>2. 1..i = (1..(i - 1)) \cup {i}
    BY <1>1
  <2>3. QED
    BY <1>9, <2>1, <2>2
<1>4. ASSUME NEW i \in 1..Len(specs), Good(i - 1), specs[i].name # Blank PROVE Good(i)
  <2>1. PICK row \in Task : row.name = specs[i].name /\ kept[i] = Put(kept[i - 1], row)
    <3> DEFINE before == kept[i - 1]  spec == specs[i]
    <3>1. /\ before \in Seq(Task) /\ spec \in TaskSpec /\ kept[i] = WithTask(before, old, spec, last)
          /\ spec.name # Blank
      BY <1>1, <1>2, <1>4
    <3> HIDE DEF before, spec, Good
    <3>2. \E row \in Task : row.name = spec.name /\ WithTask(before, old, spec, last) = Put(before, row)
      BY <3>1, TaskPut
    <3>3. QED
      BY <3>1, <3>2 DEF before, spec
  <2>2. /\ kept[i] \in Seq(Task) /\ Unique(kept[i])
        /\ \E j \in DOMAIN kept[i] : kept[i][j] = row
        /\ \A j \in DOMAIN kept[i] : kept[i][j] = row \/ \E k \in DOMAIN kept[i - 1] : kept[i][j] = kept[i - 1][k]
        /\ \A k \in DOMAIN kept[i - 1] : kept[i - 1][k].name # row.name => \E j \in DOMAIN kept[i] : kept[i][j] = kept[i - 1][k]
    <3> DEFINE before == kept[i - 1]  put == kept[i]
    <3>1. before \in Seq(Task) /\ Unique(before) /\ put = Put(before, row)
      BY <1>4, <2>1
    <3> HIDE DEF before, put
    <3>2. put \in Seq(Task) /\ Unique(put) /\ Replaced(before, row, put)
      BY <3>1, PutLast
    <3>3. QED
      BY <3>2 DEF before, put, Replaced
  <2>3. NamesOf(kept[i]) = NamesOf(kept[i - 1]) \cup {specs[i].name}
    <3> HIDE DEF Good
    <3>1. NamesOf(kept[i]) \subseteq NamesOf(kept[i - 1]) \cup {specs[i].name}
      BY <2>1, <2>2 DEF NamesOf
    <3>2. specs[i].name \in NamesOf(kept[i])
      BY <2>1, <2>2 DEF NamesOf
    <3>3. ASSUME NEW n \in NamesOf(kept[i - 1]) PROVE n \in NamesOf(kept[i])
      <4>1. PICK k \in DOMAIN kept[i - 1] : n = kept[i - 1][k].name
        BY <3>3 DEF NamesOf
      <4>2. CASE n # row.name
        BY <2>2, <4>1, <4>2 DEF NamesOf
      <4>3. QED
        BY <2>1, <3>2, <4>2
    <3>4. QED
      BY <3>1, <3>2, <3>3
  <2>4. 1..i = (1..(i - 1)) \cup {i}
    BY <1>1
  <2>5. QED
    BY <1>4, <2>2, <2>3, <2>4
<1> HIDE DEF Good
<1>5. Good(Len(specs))
  <2>1. 0 \in P /\ \A i \in 1..Len(specs) : i - 1 \in P => i \in P
    BY <1>1, <1>3, <1>4, <1>9
  <2> HIDE DEF P
  <2>2. \A i \in 0..Len(specs) : i \in P
    BY <1>1, <2>1, Stepping
  <2>3. QED
    BY <1>1, <2>2 DEF P
<1>6. QED
  BY <1>1, <1>2, <1>5 DEF Good, NamesOf

StageRow(kept, d, s, last, row) ==
  /\ row.name = s.name /\ WithStage(kept, d, s, last) = Put(kept, row)
  /\ Unique(row.tasks) /\ NamesOf(row.tasks) = NamesOf(s.tasks) \ {Blank}
  /\ Named(kept, s.name) # {} => row.ran = kept[Found(kept, s.name, last)].ran
  /\ Named(kept, s.name) = {} /\ Named(d, s.name) # {} => row.ran = d[Found(d, s.name, last)].ran

LEMMA StagePut ==
  ASSUME NEW kept \in Seq(Stage), NEW d \in Seq(Stage), NEW s \in StageSpec, s.name # Blank, NEW last
  PROVE  \E row \in Stage : StageRow(kept, d, s, last, row)
<1> DEFINE new == [name |-> s.name, mode |-> "sequential", language |-> Null, ran |-> FALSE, tasks |-> <<>>]
           Row(old) == [old EXCEPT !.mode = ModeOf(old, s), !.language = LanguageOf(old, s),
                                   !.tasks = MergedTasks(old.tasks, s.tasks, last)]
<1>1. new \in Stage /\ new.name = s.name
  BY EmptySeq DEF Stage, StageSpec, Modes
<1> HIDE DEF new
<1>2. ASSUME NEW old \in Stage, old.name = s.name
      PROVE  /\ Row(old) \in Stage /\ Row(old).name = s.name /\ Row(old).ran = old.ran
             /\ Unique(Row(old).tasks) /\ NamesOf(Row(old).tasks) = NamesOf(s.tasks) \ {Blank}
  <2>1. old.tasks \in Seq(Task) /\ s.tasks \in Seq(TaskSpec)
    BY DEF Stage, StageSpec
  <2>2. /\ MergedTasks(old.tasks, s.tasks, last) \in Seq(Task) /\ Unique(MergedTasks(old.tasks, s.tasks, last))
        /\ NamesOf(MergedTasks(old.tasks, s.tasks, last)) = NamesOf(s.tasks) \ {Blank}
    BY <2>1, TasksMerged
  <2>3. ModeOf(old, s) \in Modes /\ LanguageOf(old, s) \in Languages \cup {Null}
    BY DefinitionAssumption DEF ModeOf, LanguageOf, Stage, StageSpec
  <2>4. Row(old) \in Stage /\ Row(old).name = old.name /\ Row(old).ran = old.ran
        /\ Row(old).tasks = MergedTasks(old.tasks, s.tasks, last)
    BY <2>2, <2>3 DEF Stage
  <2>5. QED
    BY <1>2, <2>2, <2>4
<1>3. CASE Named(kept, s.name) # {}
  <2> DEFINE old == kept[Found(kept, s.name, last)]
  <2>1. old \in Stage /\ old.name = s.name
    BY <1>3, FoundHere, Shape
  <2>2. WithStage(kept, d, s, last) = Append(Without(kept, s.name), Row(old))
    BY <1>3 DEF WithStage
  <2> HIDE DEF old, Row
  <2>3. QED
    BY <1>2, <1>3, <2>1, <2>2 DEF old, Put, StageRow
<1>4. CASE Named(kept, s.name) = {} /\ Named(d, s.name) # {}
  <2> DEFINE old == d[Found(d, s.name, last)]
  <2>1. old \in Stage /\ old.name = s.name
    BY <1>4, FoundHere, Shape
  <2>2. WithStage(kept, d, s, last) = Append(Without(kept, s.name), Row(old))
    BY <1>4 DEF WithStage
  <2> HIDE DEF old, Row
  <2>3. QED
    BY <1>2, <1>4, <2>1, <2>2 DEF old, Put, StageRow
<1>5. CASE Named(kept, s.name) = {} /\ Named(d, s.name) = {}
  <2>1. WithStage(kept, d, s, last) = Append(Without(kept, s.name), Row(new))
    BY <1>5 DEF WithStage, new
  <2> HIDE DEF Row
  <2>2. QED
    BY <1>1, <1>2, <1>5, <2>1 DEF Put, StageRow
<1>6. QED
  BY <1>3, <1>4, <1>5

\* An import leaves the stages that the document names, each once, with the tasks that it names
\* for them last, each once; what runs refer to stays so.
Imported(d, doc, last, new) ==
  /\ new \in Seq(Stage) /\ Unique(new) /\ NamesOf(new) = NamesOf(doc) \ {Blank}
  /\ \A j \in DOMAIN new :
       /\ LastSpec(doc, new[j].name) \in StageSpec /\ Unique(new[j].tasks)
       /\ NamesOf(new[j].tasks) = NamesOf(LastSpec(doc, new[j].name).tasks) \ {Blank}
  /\ \A j \in DOMAIN new : Named(d, new[j].name) # {} => new[j].ran = d[Found(d, new[j].name, last)].ran

LEMMA StagesMerged ==
  ASSUME NEW d \in Seq(Stage), NEW doc \in Seq(StageSpec), NEW last
  PROVE  Imported(d, doc, last, Merged(d, doc, last))
<1>1. Len(doc) \in Nat /\ DOMAIN doc = 1..Len(doc) /\ \A i \in 1..Len(doc) : doc[i] \in StageSpec
  BY Shape
<1>2. PICK kept : /\ kept[0] = <<>>
                  /\ \A i \in 1..Len(doc) : kept[i] = WithStage(kept[i - 1], d, doc[i], last)
                  /\ Merged(d, doc, last) = kept[Len(doc)]
  BY <1>1, StagesOneByOne
<1> DEFINE Recent(row, i) == \E l \in 1..i : /\ doc[l].name = row.name /\ \A x \in (l + 1)..i : doc[x].name # row.name
                                             /\ Unique(row.tasks) /\ NamesOf(row.tasks) = NamesOf(doc[l].tasks) \ {Blank}
           Ranning(row) == Named(d, row.name) # {} => row.ran = d[Found(d, row.name, last)].ran
           Rows(i) == kept[i] \in Seq(Stage) /\ Unique(kept[i]) /\ NamesOf(kept[i]) = {doc[j].name : j \in 1..i} \ {Blank}
           Good(i) == Rows(i) /\ \A j \in DOMAIN kept[i] : Recent(kept[i][j], i) /\ Ranning(kept[i][j])
           P == {i \in 0..Len(doc) : Good(i)}
<1>3. Good(0)
  BY <1>2, EmptySeq DEF Unique, NamesOf
<1>9. ASSUME NEW i \in 1..Len(doc), Good(i - 1), doc[i].name = Blank PROVE Good(i)
  <2>1. kept[i] = kept[i - 1]
    BY <1>2, <1>9 DEF WithStage
  <2>2. 1..i = (1..(i - 1)) \cup {i}
    BY <1>1
  <2>3. Rows(i)
    <3>1. {doc[j].name : j \in 1..i} \ {Blank} = {doc[j].name : j \in 1..(i - 1)} \ {Blank}
      <4>1. \A j \in 1..i : j \in 1..(i - 1) \/ doc[j].name = Blank
        BY <1>9, <2>2
      <4>2. \A j \in 1..(i - 1) : j \in 1..i
        BY <2>2
      <4>3. QED
        BY <4>1, <4>2
    <3>2. /\ kept[i - 1] \in Seq(Stage) /\ Unique(kept[i - 1])
          /\ NamesOf(kept[i - 1]) = {doc[j].name : j \in 1..(i - 1)} \ {Blank}
      BY <1>9
    <3>3. QED
      BY <2>1, <3>1, <3>2
  <2>4. ASSUME NEW j \in DOMAIN kept[i] PROVE Recent(kept[i][j], i) /\ Ranning(kept[i][j])
    <3>0. Recent(kept[i - 1][j], i - 1) /\ Ranning(kept[i - 1][j])
      BY <1>9, <2>1
    <3>1. PICK l \in 1..(i - 1) : /\ doc[l].name = kept[i][j].name /\ \A x \in (l + 1)..(i - 1) : doc[x].name # kept[i][j].name
                                  /\ Unique(kept[i][j].tasks) /\ NamesOf(kept[i][j].tasks) = NamesOf(doc[l].tasks) \ {Blank}
      BY <2>1, <3>0
    <3>2. kept[i][j].name # Blank
      BY <2>3 DEF NamesOf
    <3>3. l \in 1..i /\ \A x \in (l + 1)..i : x = i \/ x \in (l + 1)..(i - 1)
      BY <1>1
    <3>4. \A x \in (l + 1)..i : doc[x].name # kept[i][j].name
      BY <1>9, <3>1, <3>2, <3>3
    <3>5. Ranning(kept[i][j])
      BY <1>9, <2>1
    <3>6. QED
      BY <3>1, <3>3, <3>4, <3>5
  <2>5. QED
    BY <2>3, <2>4
<1>4. ASSUME NEW i \in 1..Len(doc), Good(i - 1), doc[i].name # Blank PROVE Good(i)
  <2> DEFINE before == kept[i - 1]  put == kept[i]  spec == doc[i]
  <2>1. /\ before \in Seq(Stage) /\ Unique(before) /\ spec \in StageSpec /\ put = WithStage(before, d, spec, last)
        /\ NamesOf(before) = {doc[j].name : j \in 1..(i - 1)} \ {Blank} /\ spec.name # Blank
    BY <1>1, <1>2, <1>4
  <2>2. \A j \in DOMAIN before : Recent(before[j], i - 1) /\ Ranning(before[j])
    BY <1>4
  <2> HIDE DEF before, put, spec, Recent, Ranning
  <2>0. PICK row \in Stage : StageRow(before, d, spec, last, row)
    BY <2>1, StagePut
  <2>3. /\ row.name = spec.name /\ put = Put(before, row)
        /\ Unique(row.tasks) /\ NamesOf(row.tasks) = NamesOf(spec.tasks) \ {Blank}
        /\ Named(before, spec.name) # {} => row.ran = before[Found(before, spec.name, last)].ran
        /\ Named(before, spec.name) = {} /\ Named(d, spec.name) # {} => row.ran = d[Found(d, spec.name, last)].ran
    BY <2>0, <2>1 DEF StageRow
  <2>4. put \in Seq(Stage) /\ Unique(put) /\ Replaced(before, row, put)
    BY <2>1, <2>3, PutLast
  <2>5. NamesOf(put) = NamesOf(before) \cup {spec.name}
    <3>1. NamesOf(put) \subseteq NamesOf(before) \cup {spec.name}
      BY <2>3, <2>4 DEF NamesOf, Replaced
    <3>2. spec.name \in NamesOf(put)
      BY <2>3, <2>4 DEF NamesOf, Replaced
    <3>3. ASSUME NEW n \in NamesOf(before) PROVE n \in NamesOf(put)
      <4>1. PICK k \in DOMAIN before : n = before[k].name
        BY <3>3 DEF NamesOf
      <4>2. CASE n # row.name
        BY <2>4, <4>1, <4>2 DEF NamesOf, Replaced
      <4>3. QED
        BY <2>3, <3>2, <4>2
    <3>4. QED
      BY <3>1, <3>2, <3>3
  <2>6. 1..i = (1..(i - 1)) \cup {i}
    BY <1>1
  <2>7. NamesOf(put) = {doc[j].name : j \in 1..i} \ {Blank}
    BY <2>1, <2>5, <2>6 DEF spec
  <2>8. Recent(row, i)
    BY <1>1, <2>3 DEF Recent, spec
  <2>9. Ranning(row)
    <3>1. CASE Named(before, spec.name) # {}
      <4> DEFINE k == Found(before, spec.name, last)
      <4>1. k \in DOMAIN before /\ before[k].name = spec.name
        BY <2>1, <3>1, FoundHere
      <4> HIDE DEF k
      <4>2. row.ran = before[k].ran /\ Ranning(before[k])
        BY <2>2, <2>3, <3>1, <4>1 DEF k
      <4>3. QED
        BY <2>3, <4>1, <4>2 DEF Ranning
    <3>2. CASE Named(before, spec.name) = {}
      BY <2>3, <3>2 DEF Ranning
    <3>3. QED
      BY <3>1, <3>2
  <2>10. ASSUME NEW k \in DOMAIN before, before[k].name # row.name PROVE Recent(before[k], i)
    <3>1. PICK l \in 1..(i - 1) : /\ doc[l].name = before[k].name /\ \A x \in (l + 1)..(i - 1) : doc[x].name # before[k].name
                                  /\ Unique(before[k].tasks) /\ NamesOf(before[k].tasks) = NamesOf(doc[l].tasks) \ {Blank}
      BY <2>2 DEF Recent
    <3>2. l \in 1..i /\ \A x \in (l + 1)..i : x = i \/ x \in (l + 1)..(i - 1)
      BY <1>1
    <3>3. doc[i].name # before[k].name
      BY <2>3, <2>10 DEF spec
    <3>4. \A x \in (l + 1)..i : doc[x].name # before[k].name
      BY <3>1, <3>2, <3>3
    <3>5. QED
      BY <3>1, <3>2, <3>4 DEF Recent
  <2>11. ASSUME NEW j \in DOMAIN put PROVE Recent(put[j], i) /\ Ranning(put[j])
    <3>1. CASE put[j] = row
      BY <2>8, <2>9, <3>1
    <3>2. CASE put[j] # row
      <4>1. PICK k \in DOMAIN before : put[j] = before[k]
        BY <2>4, <3>2 DEF Replaced
      <4>2. put[j].name # row.name
        BY <2>4, <3>2 DEF Replaced
      <4>3. QED
        BY <2>2, <2>10, <4>1, <4>2
    <3>3. QED
      BY <3>1, <3>2
  <2>12. QED
    BY <2>4, <2>7, <2>11 DEF put
<1> HIDE DEF Good
<1>5. Good(Len(doc))
  <2>1. 0 \in P /\ \A i \in 1..Len(doc) : i - 1 \in P => i \in P
    BY <1>1, <1>3, <1>4, <1>9
  <2> HIDE DEF P
  <2>2. \A i \in 0..Len(doc) : i \in P
    BY <1>1, <2>1, Stepping
  <2>3. QED
    BY <1>1, <2>2 DEF P
<1> DEFINE new == kept[Len(doc)]
<1>6. /\ new \in Seq(Stage) /\ Unique(new) /\ NamesOf(new) = NamesOf(doc) \ {Blank}
      /\ \A j \in DOMAIN new : Recent(new[j], Len(doc)) /\ Ranning(new[j])
  BY <1>1, <1>5 DEF Good, NamesOf
<1> HIDE DEF new, Recent, Ranning
<1>7. ASSUME NEW j \in DOMAIN new
      PROVE  /\ LastSpec(doc, new[j].name) \in StageSpec /\ Unique(new[j].tasks)
             /\ NamesOf(new[j].tasks) = NamesOf(LastSpec(doc, new[j].name).tasks) \ {Blank}
  <2> DEFINE n == new[j].name
  <2>1. PICK l \in 1..Len(doc) : /\ doc[l].name = n /\ \A x \in (l + 1)..Len(doc) : doc[x].name # n
                                 /\ Unique(new[j].tasks) /\ NamesOf(new[j].tasks) = NamesOf(doc[l].tasks) \ {Blank}
    BY <1>6 DEF Recent
  <2> DEFINE S == Named(doc, n)
  <2>2. S \in SUBSET (1..Len(doc)) /\ l \in S /\ \A x \in S : doc[x].name = n
    BY <1>1, <2>1 DEF Named
  <2>3. Max(S) \in S /\ l <= Max(S)
    BY <1>1, <2>2, Bounds
  <2> HIDE DEF S, n
  <2>4. Max(S) = l
    <3>1. Max(S) \in 1..Len(doc) /\ doc[Max(S)].name = n
      BY <2>2, <2>3
    <3>2. ~(Max(S) \in (l + 1)..Len(doc))
      BY <2>1, <3>1
    <3>3. QED
      BY <1>1, <2>3, <3>1, <3>2
  <2>5. LastSpec(doc, n) = doc[l]
    BY <2>4 DEF LastSpec, S
  <2>6. NamesOf(LastSpec(doc, n).tasks) = NamesOf(doc[l].tasks)
    BY <2>5
  <2>7. QED
    BY <1>1, <2>1, <2>5, <2>6 DEF n
<1>8. QED
  BY <1>2, <1>6, <1>7 DEF Imported, new, Ranning

-----------------------------------------------------------------------------
(* What the requests make of a definition.                                 *)

RanIn(d) == {i \in DOMAIN d : d[i].ran}

Keeps(d, e) == Cardinality(RanIn(d)) <= Cardinality(RanIn(e))

LEMMA KeptByInjection ==
  ASSUME NEW d \in Seq(Stage), NEW e \in Seq(Stage), NEW f,
         \A i \in RanIn(d) : f[i] \in RanIn(e), \A i, j \in RanIn(d) : f[i] = f[j] => i = j
  PROVE  Keeps(d, e)
<1> DEFINE g == [i \in RanIn(d) |-> f[i]]
<1>1. g \in Injection(RanIn(d), RanIn(e))
  BY DEF Injection, IsInjective
<1>2. Len(e) \in Nat /\ RanIn(e) \in SUBSET (1..Len(e))
  BY Shape DEF RanIn
<1>3. IsFiniteSet(RanIn(e))
  <2>1. IsFiniteSet(1..Len(e))
    BY <1>2, FS_Interval
  <2>2. QED
    BY <1>2, <2>1, FS_Subset
<1> HIDE DEF g
<1>4. QED
  BY <1>1, <1>3, FS_Injection DEF Keeps

LEMMA KeptInPlace ==
  ASSUME NEW d \in Seq(Stage), NEW e \in Seq(Stage), \A i \in RanIn(d) : i \in DOMAIN e /\ e[i].ran
  PROVE  Keeps(d, e)
<1> DEFINE f == [i \in RanIn(d) |-> i]
<1>1. (\A i \in RanIn(d) : f[i] \in RanIn(e)) /\ \A i, j \in RanIn(d) : f[i] = f[j] => i = j
  BY DEF RanIn
<1> HIDE DEF f
<1>2. QED
  BY <1>1, KeptByInjection

LEMMA ASeq ==
  ASSUME NEW T, NEW n \in Nat, NEW f, DOMAIN f = 1..n, f = [i \in 1..n |-> f[i]], \A i \in 1..n : f[i] \in T
  PROVE  f \in Seq(T) /\ Len(f) = n
<1>1. f \in [1..n -> T]
  OBVIOUS
<1>2. f \in Seq(T)
  BY <1>1, SeqDef
<1>3. QED
  BY <1>1, <1>2, LenProperties

LEMMA SavedTyped ==
  ASSUME NEW d \in Seq(Stage)
  PROVE  Saved(d) \in Seq(StageSpec)
<1>1. Len(d) \in Nat /\ DOMAIN d = 1..Len(d) /\ \A i \in DOMAIN d : d[i] \in Stage
  BY Shape
<1>2. ASSUME NEW i \in DOMAIN d PROVE Saved(d)[i] \in StageSpec
  <2> DEFINE old == d[i].tasks
             new == [k \in DOMAIN old |-> [name |-> old[k].name, extra |-> old[k].extra]]
  <2>1. old \in Seq(Task)
    BY <1>1 DEF Stage
  <2>2. Len(old) \in Nat /\ DOMAIN old = 1..Len(old) /\ \A k \in DOMAIN old : old[k] \in Task
    BY <2>1, Shape
  <2>3. \A k \in DOMAIN old : new[k] \in TaskSpec
    BY <2>2 DEF Task, TaskSpec
  <2>4. DOMAIN new = 1..Len(old) /\ new = [k \in 1..Len(old) |-> new[k]]
    BY <2>2
  <2>5. Saved(d)[i] = [name |-> d[i].name, mode |-> Unset, language |-> d[i].language, tasks |-> new]
    BY DEF Saved
  <2> HIDE DEF new
  <2>6. new \in Seq(TaskSpec)
    BY <2>2, <2>3, <2>4, ASeq
  <2>7. QED
    BY <1>1, <2>5, <2>6 DEF Stage, StageSpec
<1>3. DOMAIN Saved(d) = 1..Len(d) /\ Saved(d) = [i \in 1..Len(d) |-> Saved(d)[i]]
  BY <1>1 DEF Saved
<1>4. QED
  BY <1>1, <1>2, <1>3, ASeq

LEMMA WrittenTyped ==
  ASSUME NEW d \in Seq(Stage), NEW modes \in BOOLEAN
  PROVE  Written(d, modes) \in Seq(StageSpec)
<1>1. Len(d) \in Nat /\ DOMAIN d = 1..Len(d) /\ \A i \in DOMAIN d : d[i] \in Stage
  BY Shape
<1>2. ASSUME NEW i \in DOMAIN d PROVE Written(d, modes)[i] \in StageSpec
  <2> DEFINE old == d[i].tasks
             new == [k \in DOMAIN old |-> [name |-> old[k].name, extra |-> FALSE]]
             mode == IF modes THEN d[i].mode ELSE Unset
             language == IF modes THEN d[i].language ELSE Unset
  <2>1. old \in Seq(Task)
    BY <1>1 DEF Stage
  <2>2. Len(old) \in Nat /\ DOMAIN old = 1..Len(old) /\ \A k \in DOMAIN old : old[k] \in Task
    BY <2>1, Shape
  <2>3. \A k \in DOMAIN old : new[k] \in TaskSpec
    BY <2>2 DEF Task, TaskSpec
  <2>4. DOMAIN new = 1..Len(old) /\ new = [k \in 1..Len(old) |-> new[k]]
    BY <2>2
  <2>5. Written(d, modes)[i] = [name |-> d[i].name, mode |-> mode, language |-> language, tasks |-> new]
    BY DEF Written
  <2>8. mode \in Modes \cup {Unset} /\ language \in Languages \cup {Null, Unset}
    BY <1>1 DEF Stage
  <2> HIDE DEF new, mode, language
  <2>6. new \in Seq(TaskSpec)
    BY <2>2, <2>3, <2>4, ASeq
  <2>7. QED
    BY <1>1, <2>5, <2>6, <2>8 DEF Stage, StageSpec
<1>3. DOMAIN Written(d, modes) = 1..Len(d) /\ Written(d, modes) = [i \in 1..Len(d) |-> Written(d, modes)[i]]
  BY <1>1 DEF Written
<1>4. QED
  BY <1>1, <1>2, <1>3, ASeq

\* Names that have been stripped, in a document that has been read.
LEMMA ReadTyped ==
  ASSUME NEW doc \in Seq(StageSpec)
  PROVE  /\ Read(doc) \in Seq(StageSpec) /\ DOMAIN Read(doc) = DOMAIN doc
         /\ \A i \in DOMAIN doc :
              /\ Stripped[Read(doc)[i].name] = Read(doc)[i].name
              /\ DOMAIN Read(doc)[i].tasks = DOMAIN doc[i].tasks
              /\ \A k \in DOMAIN doc[i].tasks : Stripped[Read(doc)[i].tasks[k].name] = Read(doc)[i].tasks[k].name
<1>1. Len(doc) \in Nat /\ DOMAIN doc = 1..Len(doc) /\ \A i \in DOMAIN doc : doc[i] \in StageSpec
  BY Shape
<1>2. ASSUME NEW i \in DOMAIN doc
      PROVE  /\ Read(doc)[i] \in StageSpec /\ Stripped[Read(doc)[i].name] = Read(doc)[i].name
             /\ DOMAIN Read(doc)[i].tasks = DOMAIN doc[i].tasks
             /\ \A k \in DOMAIN doc[i].tasks : Stripped[Read(doc)[i].tasks[k].name] = Read(doc)[i].tasks[k].name
  <2> DEFINE old == doc[i].tasks
             new == ReadTasks(old)
  <2>1. old \in Seq(TaskSpec) /\ doc[i] \in StageSpec
    BY <1>1 DEF StageSpec
  <2>2. Len(old) \in Nat /\ DOMAIN old = 1..Len(old) /\ \A k \in DOMAIN old : old[k] \in TaskSpec
    BY <2>1, Shape
  <2>3. \A k \in DOMAIN old : new[k] \in TaskSpec /\ Stripped[new[k].name] = new[k].name
    <3>1. \A k \in DOMAIN old : new[k] = [old[k] EXCEPT !.name = Stripped[old[k].name]]
      BY DEF ReadTasks
    <3>2. \A k \in DOMAIN old : /\ old[k].name \in TaskNames /\ Stripped[old[k].name] \in TaskNames
                                 /\ Stripped[Stripped[old[k].name]] = Stripped[old[k].name]
      BY <2>2, DefinitionAssumption DEF TaskSpec
    <3> HIDE DEF new, old
    <3>3. QED
      BY <2>2, <3>1, <3>2 DEF TaskSpec
  <2>4. DOMAIN new = 1..Len(old) /\ new = [k \in 1..Len(old) |-> new[k]]
    BY <2>2 DEF ReadTasks
  <2>5. Read(doc)[i] = [doc[i] EXCEPT !.name = Stripped[doc[i].name], !.tasks = new]
    BY DEF Read
  <2> HIDE DEF new
  <2>6. new \in Seq(TaskSpec)
    BY <2>2, <2>3, <2>4, ASeq
  <2>7. doc[i].name \in Names /\ Stripped[doc[i].name] \in Names /\ Stripped[Stripped[doc[i].name]] = Stripped[doc[i].name]
    BY <2>1, DefinitionAssumption DEF StageSpec
  <2>8. Read(doc)[i].name = Stripped[doc[i].name] /\ Read(doc)[i].tasks = new /\ Read(doc)[i] \in StageSpec
    BY <2>1, <2>5, <2>6, <2>7 DEF StageSpec
  <2>9. QED
    BY <2>2, <2>3, <2>4, <2>7, <2>8
<1>3. DOMAIN Read(doc) = 1..Len(doc) /\ Read(doc) = [i \in 1..Len(doc) |-> Read(doc)[i]]
  BY <1>1 DEF Read
<1>4. QED
  BY <1>1, <1>2, <1>3, ASeq

LEMMA CreatedTyped ==
  ASSUME NEW doc \in Seq(StageSpec)
  PROVE  Created(doc) \in Seq(Stage)
<1>1. Len(doc) \in Nat /\ DOMAIN doc = 1..Len(doc) /\ \A i \in DOMAIN doc : doc[i] \in StageSpec
  BY Shape
<1>2. ASSUME NEW i \in DOMAIN doc PROVE Created(doc)[i] \in Stage
  <2> DEFINE mode == IF doc[i].mode = Unset THEN "sequential" ELSE doc[i].mode
             language == IF doc[i].language = Unset THEN Null ELSE doc[i].language
  <2>1. mode \in Modes /\ language \in Languages \cup {Null}
    BY <1>1 DEF StageSpec, Modes
  <2>2. Created(doc)[i] = [name |-> doc[i].name, mode |-> mode, language |-> language, ran |-> FALSE, tasks |-> <<>>]
    BY DEF Created
  <2> HIDE DEF mode, language
  <2>3. QED
    BY <1>1, <2>1, <2>2, EmptySeq DEF StageSpec, Stage
<1>3. DOMAIN Created(doc) = 1..Len(doc) /\ Created(doc) = [i \in 1..Len(doc) |-> Created(doc)[i]]
  BY <1>1 DEF Created
<1>4. QED
  BY <1>1, <1>2, <1>3, ASeq

LEMMA StageInserted ==
  ASSUME NEW d \in Seq(Stage), NEW e \in Stage, NEW i \in 1..(Len(d) + 1)
  PROVE  InsertAt(d, i, e) \in Seq(Stage) /\ Keeps(d, InsertAt(d, i, e))
<1> DEFINE new == InsertAt(d, i, e)
           f == [j \in RanIn(d) |-> IF j < i THEN j ELSE j + 1]
<1>0. new = InsertAt(d, i, e) /\ Len(d) \in Nat /\ DOMAIN d = 1..Len(d)
  BY Shape
<1> HIDE DEF new
<1>1. /\ new \in Seq(Stage) /\ Len(new) = Len(d) + 1 /\ Len(d) \in Nat /\ DOMAIN d = 1..Len(d)
      /\ \A j \in 1..(Len(d) + 1) : new[j] = IF j < i THEN d[j] ELSE IF j = i THEN e ELSE d[j - 1]
  <2>1. new \in Seq(Stage) /\ InsertedAt(d, i, e, new)
    BY <1>0, Inserted
  <2>2. QED
    BY <1>0, <2>1 DEF InsertedAt
<1>2. DOMAIN new = 1..(Len(d) + 1)
  BY <1>1, Shape
<1>3. ASSUME NEW j \in RanIn(d) PROVE f[j] \in RanIn(new)
  <2>1. j \in 1..Len(d) /\ d[j].ran
    BY <1>1 DEF RanIn
  <2>2. f[j] \in DOMAIN new /\ new[f[j]] = d[j]
    BY <1>1, <1>2, <2>1
  <2>3. QED
    BY <2>1, <2>2 DEF RanIn
<1>4. \A j, k \in RanIn(d) : f[j] = f[k] => j = k
  <2>1. \A j \in RanIn(d) : j \in Int
    BY <1>1 DEF RanIn
  <2>2. QED
    BY <2>1
<1> HIDE DEF f
<1>5. QED
  BY <1>1, <1>3, <1>4, KeptByInjection DEF new

\* Taken out and, unless no run refers to it, put in again elsewhere.
LEMMA StageRemoved ==
  ASSUME NEW d \in Seq(Stage), NEW i \in DOMAIN d
  PROVE  /\ RemoveAt(d, i) \in Seq(Stage) /\ Len(RemoveAt(d, i)) = Len(d) - 1
         /\ ~d[i].ran => Keeps(d, RemoveAt(d, i))
         /\ \A e \in Stage, j \in DOMAIN d : e.ran = d[i].ran =>
              InsertAt(RemoveAt(d, i), j, e) \in Seq(Stage) /\ Keeps(d, InsertAt(RemoveAt(d, i), j, e))
<1> DEFINE out == RemoveAt(d, i)
           g(k) == IF k < i THEN k ELSE k - 1
           f == [k \in RanIn(d) |-> g(k)]
<1>1. /\ out \in Seq(Stage) /\ Len(out) = Len(d) - 1 /\ Len(d) \in Nat /\ DOMAIN d = 1..Len(d)
      /\ \A k \in 1..(Len(d) - 1) : out[k] = IF k < i THEN d[k] ELSE d[k + 1]
  BY Removed, Shape
<1> HIDE DEF out
<1>2. DOMAIN out = 1..(Len(d) - 1)
  BY <1>1, Shape
<1>3. ASSUME NEW k \in DOMAIN d, k # i PROVE g(k) \in DOMAIN out /\ out[g(k)] = d[k]
  BY <1>1, <1>2, <1>3
<1>4. ASSUME NEW k \in DOMAIN d, NEW l \in DOMAIN d, k # i, l # i, g(k) = g(l) PROVE k = l
  BY <1>1, <1>4
<1>5. ASSUME ~d[i].ran PROVE Keeps(d, out)
  <2>1. \A k \in RanIn(d) : k \in DOMAIN d /\ k # i /\ d[k].ran
    BY <1>5 DEF RanIn
  <2>2. \A k \in RanIn(d) : f[k] \in RanIn(out)
    BY <1>3, <2>1 DEF RanIn
  <2>3. \A k, l \in RanIn(d) : f[k] = f[l] => k = l
    BY <1>4, <2>1
  <2> HIDE DEF f
  <2>4. QED
    BY <1>1, <2>2, <2>3, KeptByInjection
<1>6. ASSUME NEW e \in Stage, NEW j \in DOMAIN d, e.ran = d[i].ran
      PROVE  InsertAt(out, j, e) \in Seq(Stage) /\ Keeps(d, InsertAt(out, j, e))
  <2> DEFINE new == InsertAt(out, j, e)
             h == [k \in RanIn(d) |-> IF k = i THEN j ELSE IF g(k) < j THEN g(k) ELSE g(k) + 1]
  <2>1. j \in 1..(Len(out) + 1)
    BY <1>1
  <2>2. /\ new \in Seq(Stage) /\ Len(new) = Len(d)
        /\ \A k \in 1..Len(d) : new[k] = IF k < j THEN out[k] ELSE IF k = j THEN e ELSE out[k - 1]
    <3>0. new = InsertAt(out, j, e) /\ out \in Seq(Stage)
      BY <1>1
    <3> HIDE DEF new
    <3>1. new \in Seq(Stage) /\ InsertedAt(out, j, e, new)
      BY <2>1, <3>0, Inserted
    <3>2. Len(out) + 1 = Len(d)
      BY <1>1
    <3>3. QED
      BY <3>1, <3>2 DEF InsertedAt
  <2> HIDE DEF new
  <2>3. DOMAIN new = 1..Len(d)
    BY <2>2, Shape
  <2>4. ASSUME NEW k \in RanIn(d) PROVE h[k] \in RanIn(new)
    <3>1. k \in 1..Len(d) /\ d[k].ran
      BY <1>1 DEF RanIn
    <3>2. CASE k = i
      BY <1>1, <1>6, <2>2, <2>3, <3>1, <3>2 DEF RanIn
    <3>3. CASE k # i
      <4>1. g(k) \in 1..(Len(d) - 1) /\ out[g(k)] = d[k]
        BY <1>1, <1>2, <1>3, <3>1, <3>3
      <4> HIDE DEF g
      <4>2. h[k] \in 1..Len(d) /\ new[h[k]] = out[g(k)]
        BY <1>1, <2>2, <3>3, <4>1
      <4>3. QED
        BY <2>3, <3>1, <4>1, <4>2 DEF RanIn
    <3>4. QED
      BY <3>2, <3>3
  <2>5. ASSUME NEW k \in RanIn(d), NEW l \in RanIn(d), h[k] = h[l] PROVE k = l
    <3>1. k \in 1..Len(d) /\ l \in 1..Len(d) /\ i \in 1..Len(d) /\ j \in 1..Len(d)
      BY <1>1 DEF RanIn
    <3>2. QED
      BY <1>1, <2>5, <3>1
  <2> HIDE DEF h
  <2>6. QED
    BY <2>2, <2>4, <2>5, KeptByInjection DEF new
<1>7. QED
  BY <1>1, <1>5, <1>6 DEF out

LEMMA TasksEdited ==
  ASSUME NEW d \in Seq(Stage), NEW i \in DOMAIN d, NEW tasks \in Seq(Task), NEW e, e = [d EXCEPT ![i].tasks = tasks]
  PROVE  e \in Seq(Stage) /\ Keeps(d, e)
<1>1. Len(d) \in Nat /\ DOMAIN d = 1..Len(d) /\ \A k \in DOMAIN d : d[k] \in Stage
  BY Shape
<1> DEFINE row == [d[i] EXCEPT !.tasks = tasks]
<1>2. row \in Stage /\ row.ran = d[i].ran
  BY <1>1 DEF Stage
<1>3. e = [d EXCEPT ![i] = row]
  OBVIOUS
<1> HIDE DEF row
<1>4. e \in Seq(Stage) /\ Len(e) = Len(d) /\ \A k \in 1..Len(d) : e[k] = IF k = i THEN row ELSE d[k]
  BY <1>1, <1>2, <1>3, ExceptSeq
<1>5. DOMAIN e = 1..Len(d)
  BY <1>4, Shape
<1>6. \A k \in RanIn(d) : k \in DOMAIN e /\ e[k].ran
  BY <1>1, <1>2, <1>4, <1>5 DEF RanIn
<1>7. QED
  BY <1>4, <1>6, KeptInPlace

LEMMA TaskReplaced ==
  ASSUME NEW tasks \in Seq(Task), NEW k \in DOMAIN tasks, NEW t \in Task
  PROVE  [tasks EXCEPT ![k] = t] \in Seq(Task)
<1>1. k \in 1..Len(tasks)
  BY Shape
<1>2. QED
  BY <1>1, ExceptSeq

LEMMA RunStarted ==
  ASSUME NEW d \in Seq(Stage), NEW e,
         e = [i \in DOMAIN d |-> [d[i] EXCEPT !.ran = TRUE, !.tasks = [k \in DOMAIN d[i].tasks |-> [d[i].tasks[k] EXCEPT !.ran = TRUE]]]]
  PROVE  e \in Seq(Stage) /\ Keeps(d, e)
<1>1. Len(d) \in Nat /\ DOMAIN d = 1..Len(d) /\ \A i \in DOMAIN d : d[i] \in Stage
  BY Shape
<1>2. ASSUME NEW i \in DOMAIN d PROVE e[i] \in Stage /\ e[i].ran
  <2> DEFINE old == d[i].tasks
             new == [k \in DOMAIN old |-> [old[k] EXCEPT !.ran = TRUE]]
  <2>1. old \in Seq(Task) /\ d[i] \in Stage
    BY <1>1 DEF Stage
  <2>2. Len(old) \in Nat /\ DOMAIN old = 1..Len(old) /\ \A k \in DOMAIN old : old[k] \in Task
    BY <2>1, Shape
  <2>3. \A k \in DOMAIN old : new[k] \in Task
    BY <2>2 DEF Task
  <2>4. DOMAIN new = 1..Len(old) /\ new = [k \in 1..Len(old) |-> new[k]]
    BY <2>2
  <2>5. e[i] = [d[i] EXCEPT !.ran = TRUE, !.tasks = new]
    OBVIOUS
  <2> HIDE DEF new
  <2>6. new \in Seq(Task)
    BY <2>2, <2>3, <2>4, ASeq
  <2>7. QED
    BY <2>1, <2>5, <2>6 DEF Stage
<1>3. DOMAIN e = 1..Len(d) /\ e = [i \in 1..Len(d) |-> e[i]]
  BY <1>1
<1>4. e \in Seq(Stage)
  BY <1>1, <1>2, <1>3, ASeq
<1>5. \A i \in RanIn(d) : i \in DOMAIN e /\ e[i].ran
  BY <1>1, <1>2, <1>3 DEF RanIn
<1>6. QED
  BY <1>4, <1>5, KeptInPlace

\* An import that is not refused finds every stage that a run refers to, under a name of its own.
LEMMA ImportKeeps ==
  ASSUME NEW d \in Seq(Stage), NEW doc \in Seq(StageSpec), NEW last, ~Refused(d, doc, last)
  PROVE  Merged(d, doc, last) \in Seq(Stage) /\ Keeps(d, Merged(d, doc, last))
<1> DEFINE new == Merged(d, doc, last)
           kept == {Found(d, d[i].name, last) : i \in {j \in DOMAIN d : Named(new, d[j].name) # {}}}
           f == [i \in RanIn(d) |-> CHOOSE j \in DOMAIN new : new[j].name = d[i].name]
<1>1. \A i \in DOMAIN d : i \in kept \/ ~d[i].ran
  BY DEF Refused
<1>2. Imported(d, doc, last, new)
  BY StagesMerged
<1> HIDE DEF new
<1>3. \A n : Named(d, n) # {} => Found(d, n, last) \in DOMAIN d /\ d[Found(d, n, last)].name = n
  BY FoundHere
<1>4. ASSUME NEW i \in RanIn(d)
      PROVE  /\ i \in DOMAIN d /\ i = Found(d, d[i].name, last)
             /\ \E j \in DOMAIN new : new[j].name = d[i].name
             /\ d[i].ran
  <2>1. i \in DOMAIN d /\ d[i].ran /\ i \in kept
    BY <1>1 DEF RanIn
  <2>2. PICK j \in DOMAIN d : Named(new, d[j].name) # {} /\ i = Found(d, d[j].name, last)
    BY <2>1
  <2>3. Named(d, d[j].name) # {}
    BY DEF Named
  <2>4. d[i].name = d[j].name
    BY <1>3, <2>2, <2>3
  <2>5. QED
    BY <2>1, <2>2, <2>4 DEF Named
<1> HIDE DEF kept
<1>5. ASSUME NEW i \in RanIn(d) PROVE f[i] \in RanIn(new) /\ new[f[i]].name = d[i].name
  <2>1. f[i] \in DOMAIN new /\ new[f[i]].name = d[i].name
    BY <1>4
  <2>2. Named(d, d[i].name) # {}
    BY <1>4 DEF Named
  <2> HIDE DEF f
  <2>3. new[f[i]].ran = d[i].ran
    BY <1>2, <1>4, <2>1, <2>2 DEF Imported
  <2>4. QED
    BY <1>4, <2>1, <2>3 DEF RanIn
<1>6. \A i, j \in RanIn(d) : f[i] = f[j] => i = j
  BY <1>4, <1>5
<1>7. new \in Seq(Stage)
  BY <1>2 DEF Imported
<1> HIDE DEF f
<1>8. QED
  BY <1>5, <1>6, <1>7, KeptByInjection DEF new

-----------------------------------------------------------------------------
(* The invariant, and stages that runs refer to.                           *)

Sync == [at : {"idle", "pull", "push", "over"}, pipeline : Edited \cup {Unset}, doc : Seq(StageSpec), head : 0..Len(commits)]

SyncOK ==
  /\ sync = [q \in Syncs |-> sync[q]]
  /\ \A q \in Syncs : sync[q] \in Sync /\ (sync[q].at \in {"pull", "push"} => sync[q].pipeline \in Edited)

Inv == TypeOK /\ SyncOK

\* What a step may do to the stages that runs refer to.
StagesKept == \A p \in Pipelines : Present(p) /\ Present(p)' => Keeps(def[p], def'[p])

LEMMA CommitsShape ==
  ASSUME Inv
  PROVE  /\ Len(commits) \in Nat /\ DOMAIN commits = 1..Len(commits) /\ \A c \in DOMAIN commits : commits[c] \in Seq(StageSpec)
         /\ Tip \in 0..Len(commits) /\ (Tip # 0 => Tip \in DOMAIN commits)
<1>1. Len(commits) \in Nat /\ DOMAIN commits = 1..Len(commits) /\ \A c \in DOMAIN commits : commits[c] \in Seq(StageSpec)
  BY Shape DEF Inv, TypeOK
<1>2. branch \in SUBSET (1..Len(commits))
  BY <1>1 DEF Inv, TypeOK
<1>3. branch # {} => Max(branch) \in branch
  BY <1>1, <1>2, Bounds
<1>4. CASE branch = {}
  BY <1>1, <1>4 DEF Tip
<1>5. CASE branch # {}
  <2>1. Tip = Max(branch)
    BY <1>5 DEF Tip
  <2>2. Tip \in 1..Len(commits)
    BY <1>2, <1>3, <1>5, <2>1
  <2>3. QED
    BY <1>1, <2>2
<1>6. QED
  BY <1>4, <1>5

LEMMA KeepsItself == \A d : d \in Seq(Stage) => Keeps(d, d)
BY KeptInPlace DEF RanIn

\* Steps that only store a definition.
LEMMA StoreKept ==
  ASSUME Inv, NEW p \in Pipelines, NEW d \in Seq(Stage), Store(p, d), Present(p) => Keeps(def[p], d)
  PROVE  Inv' /\ StagesKept
<1>1. /\ Present(p) /\ def' = [def EXCEPT ![p] = d]
      /\ UNCHANGED <<status, sha, template, commits, branch, sync>>
  BY DEF Store, git
<1>2. TypeOK'
  BY <1>1 DEF Inv, TypeOK, Present
<1>3. SyncOK'
  BY <1>1 DEF Inv, SyncOK, Sync
<1>4. StagesKept
  BY <1>1, KeepsItself DEF StagesKept, Inv, TypeOK
<1>5. QED
  BY <1>2, <1>3, <1>4 DEF Inv

LEMMA WholeKept ==
  ASSUME Inv, NEW p \in Pipelines, Whole(p)
  PROVE  Inv' /\ StagesKept
<1> USE DEF Inv
<1>1. ASSUME NEW doc \in Seq(StageSpec), Create(p, doc) PROVE Inv' /\ StagesKept
  <2>1. Created(doc) \in Seq(Stage)
    BY CreatedTyped
  <2>2. /\ status[p] = "absent" /\ status' = [status EXCEPT ![p] = "present"] /\ def' = [def EXCEPT ![p] = Created(doc)]
        /\ UNCHANGED <<sha, template, commits, branch, sync>>
    BY <1>1 DEF Create, git
  <2>3. TypeOK'
    BY <2>1, <2>2 DEF TypeOK, Present
  <2>4. SyncOK'
    BY <2>2 DEF SyncOK, Sync
  <2>5. StagesKept
    BY <2>2, KeepsItself DEF StagesKept, TypeOK, Present
  <2>6. QED
    BY <2>3, <2>4, <2>5
<1>2. CASE CreatePipeline(p)
  BY <1>1, <1>2, DefinitionAssumption DEF CreatePipeline
<1>3. CASE CreatePipelineFromTemplate(p)
  BY <1>1, <1>3 DEF CreatePipelineFromTemplate, TypeOK
<1>4. ASSUME NEW src \in Pipelines, CopyPipeline(src, p) PROVE Inv' /\ StagesKept
  BY <1>1, <1>4, SavedTyped DEF CopyPipeline, TypeOK
<1>5. CASE DeletePipeline(p)
  <2>1. /\ status' = [status EXCEPT ![p] = "deleted"] /\ def' = [def EXCEPT ![p] = <<>>] /\ sha' = [sha EXCEPT ![p] = 0]
        /\ UNCHANGED <<template, commits, branch, sync>>
    BY <1>5 DEF DeletePipeline, git
  <2>2. Len(commits) \in Nat
    BY CommitsShape
  <2>3. TypeOK'
    BY <2>1, <2>2, EmptySeq DEF TypeOK, Present
  <2>4. SyncOK'
    BY <2>1 DEF SyncOK, Sync
  <2>5. StagesKept
    BY <2>1, KeepsItself DEF StagesKept, TypeOK, Present
  <2>6. QED
    BY <2>3, <2>4, <2>5
<1>6. ASSUME NEW doc, doc = Unset \/ doc \in Seq(StageSpec), StoreTemplate(doc) PROVE Inv' /\ StagesKept
  <2>1. template' = doc /\ UNCHANGED <<status, def, sha, commits, branch, sync>>
    BY <1>6 DEF StoreTemplate, pipelines, git
  <2>2. TypeOK' /\ SyncOK'
    BY <1>6, <2>1 DEF TypeOK, SyncOK, Sync, Present
  <2>3. StagesKept
    BY <2>1, KeepsItself DEF StagesKept, TypeOK
  <2>4. QED
    BY <2>2, <2>3
<1>7. CASE TemplateFromPipeline(p)
  BY <1>6, <1>7, SavedTyped DEF TemplateFromPipeline, TypeOK
<1>8. CASE UpdatePipeline(p)
  <2>1. PICK c \in branch \cup {0} : sha' = [sha EXCEPT ![p] = c]
    BY <1>8 DEF UpdatePipeline
  <2>2. c \in 0..Len(commits)
    BY CommitsShape DEF TypeOK
  <2>3. Present(p) /\ UNCHANGED <<status, def, template, commits, branch, sync>>
    BY <1>8 DEF UpdatePipeline, git
  <2>4. TypeOK' /\ SyncOK'
    BY <2>1, <2>2, <2>3 DEF TypeOK, SyncOK, Sync, Present
  <2>5. StagesKept
    BY <2>3, KeepsItself DEF StagesKept, TypeOK
  <2>6. QED
    BY <2>4, <2>5
<1>9. QED
  BY <1>2, <1>3, <1>4, <1>5, <1>7, <1>8 DEF Whole

LEMMA TemplateKept ==
  ASSUME Inv, (\E doc \in Documents : StoreTemplate(doc)) \/ DeleteTemplate
  PROVE  Inv' /\ StagesKept
<1>1. PICK doc : (doc = Unset \/ doc \in Seq(StageSpec)) /\ StoreTemplate(doc)
  BY DefinitionAssumption DEF DeleteTemplate
<1>2. template' = doc /\ UNCHANGED <<status, def, sha, commits, branch, sync>>
  BY <1>1 DEF StoreTemplate, pipelines, git
<1>3. TypeOK' /\ SyncOK'
  BY <1>1, <1>2 DEF Inv, TypeOK, SyncOK, Sync, Present
<1>4. StagesKept
  BY <1>2, KeepsItself DEF StagesKept, Inv, TypeOK
<1>5. QED
  BY <1>3, <1>4 DEF Inv

LEMMA EditKept ==
  ASSUME Inv, NEW p \in Pipelines, Edit(p)
  PROVE  Inv' /\ StagesKept
<1> DEFINE d == def[p]
<1>1. d \in Seq(Stage) /\ Len(d) \in Nat /\ DOMAIN d = 1..Len(d) /\ \A i \in DOMAIN d : d[i] \in Stage /\ d[i].tasks \in Seq(Task)
  <2>1. d \in Seq(Stage)
    BY DEF Inv, TypeOK
  <2>2. Len(d) \in Nat /\ DOMAIN d = 1..Len(d) /\ \A i \in DOMAIN d : d[i] \in Stage
    BY <2>1, Shape
  <2>3. QED
    BY <2>1, <2>2 DEF Stage
<1>2. ASSUME NEW e \in Seq(Stage), Keeps(d, e), Store(p, e) PROVE Inv' /\ StagesKept
  BY <1>2, StoreKept
<1>3. ASSUME NEW n \in Names, NEW mode \in Modes, NEW language \in Languages \cup {Null}, NEW i,
             CreateStage(p, n, mode, language, i)
      PROVE  Inv' /\ StagesKept
  <2> DEFINE row == [name |-> Stripped[n], mode |-> mode, language |-> language, ran |-> FALSE, tasks |-> <<>>]
  <2>1. row \in Stage
    BY EmptySeq, DefinitionAssumption DEF Stage
  <2>2. i \in 1..(Len(d) + 1) /\ Store(p, InsertAt(d, i, row))
    BY <1>3 DEF CreateStage
  <2> HIDE DEF row, d
  <2>3. QED
    BY <1>1, <1>2, <2>1, <2>2, StageInserted
<1>4. ASSUME NEW n \in Names, NEW mode \in Modes, NEW language \in Languages \cup {Null}, NEW i, NEW j,
             UpdateStage(p, i, n, mode, language, j)
      PROVE  Inv' /\ StagesKept
  <2> DEFINE row == [d[i] EXCEPT !.name = n, !.mode = mode, !.language = language]
  <2>1. i \in DOMAIN d /\ j \in DOMAIN d /\ Store(p, InsertAt(RemoveAt(d, i), j, row))
    BY <1>4 DEF UpdateStage
  <2>2. row \in Stage /\ row.ran = d[i].ran
    BY <1>1, <2>1 DEF Stage
  <2> HIDE DEF row, d
  <2>3. QED
    BY <1>1, <1>2, <2>1, <2>2, StageRemoved
<1>5. ASSUME NEW i, DeleteStage(p, i) PROVE Inv' /\ StagesKept
  <2>1. i \in DOMAIN d /\ ~d[i].ran /\ Store(p, RemoveAt(d, i))
    BY <1>5 DEF DeleteStage
  <2> HIDE DEF d
  <2>2. QED
    BY <1>1, <1>2, <2>1, StageRemoved
<1>6. ASSUME NEW i \in DOMAIN d, NEW tasks \in Seq(Task), Store(p, [d EXCEPT ![i].tasks = tasks]) PROVE Inv' /\ StagesKept
  <2> DEFINE e == [d EXCEPT ![i].tasks = tasks]
  <2>1. Store(p, e)
    BY <1>6
  <2>2. e \in Seq(Stage) /\ Keeps(d, e)
    BY <1>1, TasksEdited
  <2> HIDE DEF e, d
  <2>3. QED
    BY <1>2, <2>1, <2>2
<1>7. ASSUME NEW i, NEW k, DeleteTask(p, i, k) PROVE Inv' /\ StagesKept
  <2>1. i \in DOMAIN d /\ k \in DOMAIN d[i].tasks /\ Store(p, [d EXCEPT ![i].tasks = RemoveAt(d[i].tasks, k)])
    BY <1>7 DEF DeleteTask
  <2>2. RemoveAt(d[i].tasks, k) \in Seq(Task)
    BY <1>1, <2>1, Removed
  <2> HIDE DEF d
  <2>3. QED
    BY <1>6, <2>1, <2>2
<1>8. ASSUME NEW i, NEW k, NEW n \in TaskNames, NEW extra \in BOOLEAN, CreateTask(p, i, n, extra, k) PROVE Inv' /\ StagesKept
  <2> DEFINE t == [name |-> Stripped[n], extra |-> extra, ran |-> FALSE]
  <2>1. i \in DOMAIN d /\ k \in 1..(Len(d[i].tasks) + 1) /\ Store(p, [d EXCEPT ![i].tasks = InsertAt(d[i].tasks, k, t)])
    BY <1>8 DEF CreateTask
  <2>2. t \in Task
    BY DefinitionAssumption DEF Task
  <2> HIDE DEF t
  <2>3. InsertAt(d[i].tasks, k, t) \in Seq(Task)
    BY <1>1, <2>1, <2>2, Inserted
  <2> HIDE DEF d
  <2>4. QED
    BY <1>6, <2>1, <2>3
<1>9. ASSUME NEW i, NEW k, NEW n \in TaskNames, NEW extra \in BOOLEAN, UpdateTask(p, i, k, n, extra) PROVE Inv' /\ StagesKept
  <2> DEFINE old == d[i].tasks
             t == [old[k] EXCEPT !.name = n, !.extra = extra]
             tasks == [old EXCEPT ![k] = t]
  <2>1. i \in DOMAIN d /\ k \in DOMAIN old
    BY <1>9 DEF UpdateTask
  <2>2. Store(p, [d EXCEPT ![i].tasks = tasks])
    BY <1>9 DEF UpdateTask
  <2>3. old \in Seq(Task) /\ old[k] \in Task
    BY <1>1, <2>1, Shape
  <2>4. t \in Task
    BY <2>3 DEF Task
  <2> HIDE DEF t, old
  <2>5. tasks \in Seq(Task)
    BY <2>1, <2>3, <2>4, TaskReplaced
  <2> HIDE DEF d, tasks
  <2>6. QED
    BY <1>6, <2>1, <2>2, <2>5
<1>10. QED
  BY <1>3, <1>4, <1>5, <1>7, <1>8, <1>9 DEF Edit

LEMMA RunKept ==
  ASSUME Inv, NEW p \in Pipelines, StartPipelineRun(p)
  PROVE  Inv' /\ StagesKept
<1> DEFINE d == def[p]
           e == [i \in DOMAIN d |-> [d[i] EXCEPT !.ran = TRUE, !.tasks = [k \in DOMAIN d[i].tasks |-> [d[i].tasks[k] EXCEPT !.ran = TRUE]]]]
<1>1. d \in Seq(Stage)
  BY DEF Inv, TypeOK
<1>2. Store(p, e)
  BY DEF StartPipelineRun
<1>3. e \in Seq(Stage) /\ Keeps(d, e)
  BY <1>1, RunStarted
<1> HIDE DEF e
<1>4. QED
  BY <1>2, <1>3, StoreKept

LEMMA ImportKept ==
  ASSUME Inv, NEW p \in Pipelines, Import(p)
  PROVE  Inv' /\ StagesKept
<1>1. PICK doc \in Files, last \in BOOLEAN : ImportPipeline(p, doc, last)
  BY DEF Import
<1>2. doc \in Seq(StageSpec) /\ def[p] \in Seq(Stage)
  BY WrittenTyped, DefinitionAssumption DEF Files, Inv, TypeOK
<1>3. ~Refused(def[p], Read(doc), last) /\ Store(p, Merged(def[p], Read(doc), last))
  BY <1>1 DEF ImportPipeline
<1>4. Merged(def[p], Read(doc), last) \in Seq(Stage) /\ Keeps(def[p], Merged(def[p], Read(doc), last))
  BY <1>2, <1>3, ReadTyped, ImportKeeps
<1>5. QED
  BY <1>3, <1>4, StoreKept

LEMMA GitKept ==
  ASSUME Inv, NEW q \in Syncs, Git(q)
  PROVE  Inv' /\ StagesKept
<1> USE DEF Inv
<1>1. /\ Len(commits) \in Nat /\ DOMAIN commits = 1..Len(commits) /\ \A c \in DOMAIN commits : commits[c] \in Seq(StageSpec)
      /\ Tip \in 0..Len(commits) /\ (Tip # 0 => Tip \in DOMAIN commits)
  BY CommitsShape
<1>2. NoSync \in [at : {"idle"}, pipeline : {Unset}, doc : Seq(StageSpec), head : {0}]
  BY EmptySeq DEF NoSync
<1>3. ASSUME NEW s \in Sync, s.at \in {"pull", "push"} => s.pipeline \in Edited, sync' = [sync EXCEPT ![q] = s],
             UNCHANGED <<status, def, sha, template, commits, branch>>
      PROVE  Inv' /\ StagesKept
  <2>1. TypeOK'
    BY <1>1, <1>3 DEF TypeOK, Present, SyncOK, Sync
  <2>2. SyncOK'
    BY <1>3 DEF SyncOK, Sync
  <2>3. StagesKept
    BY <1>3, KeepsItself DEF StagesKept, TypeOK
  <2>4. QED
    BY <2>1, <2>2, <2>3
<1>4. ASSUME NEW p \in Edited, BeginPull(q, p) PROVE Inv' /\ StagesKept
  <2> DEFINE s == [at |-> "pull", pipeline |-> p, doc |-> commits[Tip], head |-> Tip]
  <2>1. sync' = [sync EXCEPT ![q] = s] /\ UNCHANGED <<status, def, sha, template, commits, branch>> /\ Tip # 0
    BY <1>4 DEF BeginPull, pipelines, git
  <2>2. s \in Sync /\ s.pipeline \in Edited
    BY <1>1, <2>1 DEF Sync
  <2> HIDE DEF s
  <2>3. QED
    BY <1>3, <2>1, <2>2
<1>5. ASSUME NEW p \in Edited, BeginPush(q, p) PROVE Inv' /\ StagesKept
  <2> DEFINE s == [at |-> "push", pipeline |-> p, doc |-> Written(def[p], TRUE), head |-> Tip]
  <2>1. sync' = [sync EXCEPT ![q] = s] /\ UNCHANGED <<status, def, sha, template, commits, branch>>
    BY <1>5 DEF BeginPush, pipelines, git
  <2>2. Written(def[p], TRUE) \in Seq(StageSpec)
    BY WrittenTyped, DefinitionAssumption DEF TypeOK
  <2>3. s \in Sync /\ s.pipeline \in Edited
    BY <1>1, <2>2 DEF Sync
  <2> HIDE DEF s
  <2>4. QED
    BY <1>3, <2>1, <2>3
<1>6. [NoSync EXCEPT !.at = "over"] \in [at : {"over"}, pipeline : {Unset}, doc : Seq(StageSpec), head : {0}]
  BY <1>2
<1> DEFINE over == [NoSync EXCEPT !.at = "over"]
<1> HIDE DEF over
<1>7. ASSUME NEW last \in BOOLEAN, FinishPull(q, last) PROVE Inv' /\ StagesKept
  <2> DEFINE p == sync[q].pipeline  doc == Read(sync[q].doc)  new == Merged(def[p], doc, last)
  <2>1. /\ p \in Pipelines /\ doc \in Seq(StageSpec) /\ sync[q].head \in 0..Len(commits) /\ def[p] \in Seq(Stage)
        /\ sync' = [sync EXCEPT ![q] = over] /\ UNCHANGED <<status, template, commits, branch>>
    BY <1>7, DefinitionAssumption, ReadTyped DEF FinishPull, SyncOK, Sync, TypeOK, git, over
  <2>2. SyncOK'
    <3>1. over \in Sync /\ over.at = "over"
      BY <1>1, <1>6 DEF Sync, over
    <3>2. QED
      BY <2>1, <3>1 DEF SyncOK, Sync
  <2>3. CASE Present(p) /\ ~Refused(def[p], doc, last)
    <3>1. def' = [def EXCEPT ![p] = new] /\ sha' = [sha EXCEPT ![p] = sync[q].head]
      BY <1>7, <2>3 DEF FinishPull
    <3> HIDE DEF p, doc
    <3>2. new \in Seq(Stage) /\ Keeps(def[p], new)
      BY <2>1, <2>3, ImportKeeps
    <3> HIDE DEF new
    <3>3. TypeOK'
      BY <2>1, <2>2, <2>3, <3>1, <3>2 DEF TypeOK, Present, SyncOK, Sync
    <3>4. StagesKept
      BY <2>1, <3>1, <3>2, KeepsItself DEF StagesKept, TypeOK
    <3>5. QED
      BY <2>2, <3>3, <3>4
  <2>4. CASE ~(Present(p) /\ ~Refused(def[p], doc, last))
    <3>1. UNCHANGED <<def, sha>>
      BY <1>7, <2>4 DEF FinishPull
    <3>2. TypeOK'
      BY <2>1, <2>2, <3>1 DEF TypeOK, Present, SyncOK, Sync
    <3>3. StagesKept
      BY <2>1, <3>1, KeepsItself DEF StagesKept, TypeOK
    <3>4. QED
      BY <2>2, <3>2, <3>3
  <2>5. QED
    BY <2>3, <2>4
<1>8. CASE FinishPush(q)
  <2> DEFINE p == sync[q].pipeline  c == Len(commits) + 1
  <2>1. /\ sync[q].doc \in Seq(StageSpec) /\ p \in Pipelines
        /\ commits' = Append(commits, sync[q].doc) /\ sync' = [sync EXCEPT ![q] = over]
        /\ branch' \in {branch, branch \cup {c}} /\ sha' = (IF Present(p) THEN [sha EXCEPT ![p] = c] ELSE sha)
        /\ UNCHANGED <<status, def, template>>
    BY <1>8, DefinitionAssumption DEF FinishPush, Commit, SyncOK, Sync, over
  <2>2. commits' \in Seq(Seq(StageSpec)) /\ Len(commits') = c
    BY <2>1, AppendProperties DEF TypeOK
  <2>3. DOMAIN commits' = 1..c /\ 0..Len(commits) \subseteq 0..c /\ DOMAIN commits \subseteq DOMAIN commits' /\ c \in 1..c
    <3>1. DOMAIN commits' = 1..c
      BY <2>2, Shape
    <3>2. QED
      BY <1>1, <3>1
  <2> HIDE DEF p, c
  <2>4. \A r \in Syncs : sync'[r].head \in 0..c /\ sync'[r] = IF r = q THEN over ELSE sync[r]
    BY <1>1, <1>6, <2>1, <2>3 DEF SyncOK, Sync, over
  <2>5. SyncOK'
    BY <1>1, <1>6, <2>1, <2>2, <2>3, <2>4 DEF SyncOK, Sync, over
  <2>6. TypeOK'
    BY <1>1, <2>1, <2>2, <2>3, <2>4 DEF TypeOK, Present
  <2>7. StagesKept
    BY <2>1, KeepsItself DEF StagesKept, TypeOK
  <2>8. QED
    BY <2>5, <2>6, <2>7
<1>9. QED
  BY <1>4, <1>5, <1>7, <1>8 DEF Git

LEMMA OutsiderKept ==
  ASSUME Inv, NEW doc \in Documents, OutsiderPushes(doc)
  PROVE  Inv' /\ StagesKept
<1> USE DEF Inv
<1> DEFINE c == Len(commits) + 1
<1>1. Len(commits) \in Nat /\ DOMAIN commits = 1..Len(commits)
  BY CommitsShape
<1>2. doc \in Seq(StageSpec) /\ commits' = Append(commits, doc) /\ branch' = branch \cup {c}
      /\ UNCHANGED <<status, def, sha, template, sync>>
  BY DefinitionAssumption DEF OutsiderPushes, Commit, pipelines
<1>3. commits' \in Seq(Seq(StageSpec)) /\ Len(commits') = c
  BY <1>2, AppendProperties DEF TypeOK
<1>4. DOMAIN commits' = 1..c /\ 0..Len(commits) \subseteq 0..c /\ DOMAIN commits \subseteq DOMAIN commits' /\ c \in 1..c
  <2>1. DOMAIN commits' = 1..c
    BY <1>3, Shape
  <2>2. QED
    BY <1>1, <2>1
<1> HIDE DEF c
<1>5. TypeOK'
  BY <1>1, <1>2, <1>3, <1>4 DEF TypeOK, Present
<1>6. SyncOK'
  BY <1>1, <1>2, <1>3, <1>4 DEF SyncOK, Sync
<1>7. StagesKept
  BY <1>2, KeepsItself DEF StagesKept, TypeOK
<1>8. QED
  BY <1>5, <1>6, <1>7

LEMMA InvInit == Init => Inv
<1> SUFFICES ASSUME Init PROVE Inv
  OBVIOUS
<1>1. Len(commits) = 0 /\ commits \in Seq(Seq(StageSpec)) /\ <<>> \in Seq(Stage) /\ <<>> \in Seq(StageSpec)
  BY EmptySeq DEF Init
<1>2. NoSync \in Sync /\ NoSync.at = "idle" /\ NoSync.head = 0
  BY <1>1 DEF NoSync, Sync
<1>3. TypeOK
  BY <1>1, <1>2 DEF Init, TypeOK
<1>4. SyncOK
  BY <1>2 DEF Init, SyncOK
<1>5. QED
  BY <1>3, <1>4 DEF Inv

LEMMA InvStep == Inv /\ [Next]_vars => Inv' /\ StagesKept
<1> SUFFICES ASSUME Inv, [Next]_vars PROVE Inv' /\ StagesKept
  OBVIOUS
<1>1. CASE Request
  <2>1. \A p \in Edited : p \in Pipelines
    BY DefinitionAssumption
  <2>2. QED
    BY <1>1, <2>1, WholeKept, TemplateKept, EditKept, RunKept, ImportKept DEF Request
<1>2. CASE UNCHANGED vars
  <2>1. UNCHANGED <<status, def, sha, template, commits, branch, sync>>
    BY <1>2 DEF vars, pipelines, git
  <2>2. TypeOK' /\ SyncOK'
    BY <2>1 DEF Inv, TypeOK, SyncOK, Sync, Present
  <2>3. StagesKept
    BY <2>1, KeepsItself DEF StagesKept, Inv, TypeOK
  <2>4. QED
    BY <2>2, <2>3 DEF Inv
<1>3. QED
  BY <1>1, <1>2, GitKept, OutsiderKept DEF Next

\* Definitions, documents and commits stay well-formed, whatever is edited, imported or synchronised.
THEOREM DefinitionTypeCorrect == Spec => []TypeOK
<1>1. Spec => []Inv
  BY InvInit, InvStep, PTL DEF Spec
<1>2. QED
  BY <1>1, PTL DEF Inv

\* For definitions and documents of any length: while a pipeline exists, no edit, import or pull takes
\* away a stage that the rows of a run refer to.
THEOREM RunsKeepTheirStages == Spec => RunsKeepStages
<1>1. Inv /\ [Next]_vars => [\A p \in Pipelines : Present(p) /\ Present(p)' => Cardinality(Ran(p)) <= Cardinality(Ran(p)')]_vars
  <2> SUFFICES ASSUME Inv, [Next]_vars, NEW p \in Pipelines, Present(p), Present(p)'
               PROVE  Cardinality(Ran(p)) <= Cardinality(Ran(p)')
    OBVIOUS
  <2>1. Keeps(def[p], def'[p])
    BY InvStep DEF StagesKept
  <2>2. QED
    BY <2>1 DEF Keeps, RanIn, Ran
<1>2. QED
  BY <1>1, InvInit, InvStep, PTL DEF Spec, RunsKeepStages

-----------------------------------------------------------------------------
(* Pulls.                                                                  *)

\* A name that rows have once is that of one row.
LEMMA OnceIsUnique ==
  ASSUME NEW T, NEW rows \in Seq(T)
  PROVE  Unique(rows) <=> \A i \in DOMAIN rows : Cardinality(Named(rows, rows[i].name)) = 1
<1>1. Len(rows) \in Nat /\ DOMAIN rows = 1..Len(rows) /\ IsFiniteSet(1..Len(rows))
  BY Shape, FS_Interval
<1>2. ASSUME NEW i \in DOMAIN rows
      PROVE  Cardinality(Named(rows, rows[i].name)) = 1 <=> \A j \in DOMAIN rows : rows[j].name = rows[i].name => j = i
  <2> DEFINE S == Named(rows, rows[i].name)
  <2>1. IsFiniteSet(S) /\ i \in S
    BY <1>1, FS_Subset DEF Named
  <2> HIDE DEF S
  <2>2. Cardinality(S) = 1 <=> \E x : S = {x}
    BY <2>1, FS_Singleton
  <2>3. (\E x : S = {x}) <=> \A j \in S : j = i
    BY <2>1
  <2>4. QED
    BY <2>2, <2>3 DEF S, Named
<1>3. QED
  BY <1>2 DEF Unique

\* No request of another kind ends a Git request.
LEMMA RequestSyncs == ASSUME Request PROVE sync' = sync
<1>1. \A p, doc : Create(p, doc) => sync' = sync
  BY DEF Create
<1>2. \A doc : StoreTemplate(doc) => sync' = sync
  BY DEF StoreTemplate
<1>3. \A p, d : Store(p, d) => sync' = sync
  BY DEF Store
<1>4. ASSUME NEW p \in Pipelines, Whole(p) PROVE sync' = sync
  BY <1>1, <1>2, <1>4 DEF Whole, CreatePipeline, CreatePipelineFromTemplate, CopyPipeline, DeletePipeline,
     TemplateFromPipeline, UpdatePipeline
<1>5. ASSUME NEW p \in Edited, Edit(p) PROVE sync' = sync
  BY <1>3, <1>5 DEF Edit, CreateStage, UpdateStage, DeleteStage, CreateTask, UpdateTask, DeleteTask
<1>6. ASSUME NEW p \in Edited, Import(p) \/ StartPipelineRun(p) PROVE sync' = sync
  BY <1>3, <1>6 DEF Import, ImportPipeline, StartPipelineRun
<1>7. QED
  BY <1>2, <1>4, <1>5, <1>6 DEF Request, DeleteTemplate

\* Only its own merge ends a pull.
LEMMA PullEnds ==
  ASSUME Inv, [Next]_vars, NEW q \in Syncs, sync[q].at = "pull", sync'[q].at = "over"
  PROVE  \E last \in BOOLEAN : FinishPull(q, last)
<1>1. sync' # sync
  OBVIOUS
<1>2. PICK r \in Syncs : Git(r)
  BY <1>1, RequestSyncs DEF Next, vars, OutsiderPushes
<1>3. CASE \E p \in Edited : BeginPull(r, p) \/ BeginPush(r, p)
  <2>1. sync[r].at = "idle" /\ \E s : sync' = [sync EXCEPT ![r] = s]
    BY <1>3 DEF BeginPull, BeginPush
  <2>2. r # q
    BY <2>1
  <2>3. sync'[q] = sync[q]
    BY <2>1, <2>2 DEF Inv, SyncOK
  <2>4. QED
    BY <2>3
<1>4. CASE \E last \in BOOLEAN : FinishPull(r, last)
  <2>1. \E s : sync' = [sync EXCEPT ![r] = s]
    BY <1>4 DEF FinishPull
  <2>2. r = q
    BY <2>1 DEF Inv, SyncOK
  <2>3. QED
    BY <1>4, <2>2
<1>5. CASE FinishPush(r)
  <2>1. sync[r].at = "push" /\ \E s : sync' = [sync EXCEPT ![r] = s]
    BY <1>5 DEF FinishPush
  <2>2. r # q
    BY <2>1
  <2>3. sync'[q] = sync[q]
    BY <2>1, <2>2 DEF Inv, SyncOK
  <2>4. QED
    BY <2>3
<1>6. QED
  BY <1>2, <1>3, <1>4, <1>5 DEF Git

\* A pull that goes through leaves the stages and tasks of its document, their names stripped and none
\* blank, whatever was edited since the clone.
THEOREM PullLeavesTheDocument == Spec => PullReplaces
<1> DEFINE Left(q, p) ==
             /\ NamesOf(def'[p]) = NamesOf(Read(sync[q].doc)) \ {Blank}
             /\ \A i \in DOMAIN def'[p] :
                  LET s == def'[p][i]
                  IN  /\ Cardinality(Named(def'[p], s.name)) = 1
                      /\ NamesOf(s.tasks) = NamesOf(LastSpec(Read(sync[q].doc), s.name).tasks) \ {Blank}
<1>1. ASSUME Inv, [Next]_vars, NEW q \in Syncs, sync[q].at = "pull", sync'[q].at = "over", sha' # sha
      PROVE  Left(q, sync[q].pipeline)
  <2> DEFINE p == sync[q].pipeline  doc == Read(sync[q].doc)
  <2>1. PICK last \in BOOLEAN : FinishPull(q, last)
    BY <1>1, PullEnds
  <2>2. p \in Pipelines /\ doc \in Seq(StageSpec) /\ def[p] \in Seq(Stage) /\ DOMAIN def = Pipelines
    BY <1>1, DefinitionAssumption, ReadTyped DEF Inv, SyncOK, Sync, TypeOK
  <2>3. def' = [def EXCEPT ![p] = Merged(def[p], doc, last)]
    BY <1>1, <2>1 DEF FinishPull
  <2> HIDE DEF p, doc
  <2>4. def'[p] = Merged(def[p], doc, last)
    BY <2>2, <2>3
  <2>5. Imported(def[p], doc, last, def'[p])
    BY <2>2, <2>4, StagesMerged
  <2> DEFINE new == def'[p]
  <2>6. /\ new \in Seq(Stage) /\ Unique(new) /\ NamesOf(new) = NamesOf(doc) \ {Blank}
        /\ \A j \in DOMAIN new : NamesOf(new[j].tasks) = NamesOf(LastSpec(doc, new[j].name).tasks) \ {Blank}
    BY <2>5 DEF Imported
  <2>7. \A i \in DOMAIN new : Cardinality(Named(new, new[i].name)) = 1
    BY <2>6, OnceIsUnique
  <2>8. QED
    BY <2>6, <2>7 DEF p, doc
<1>2. Inv /\ [Next]_vars => [\A q \in Syncs : sync[q].at = "pull" /\ sync'[q].at = "over" /\ sha' # sha
                                => Left(q, sync[q].pipeline)]_vars
  BY <1>1
<1>3. QED
  BY <1>2, InvInit, InvStep, PTL DEF Spec, PullReplaces

-----------------------------------------------------------------------------
(* Round trips.                                                            *)

\* The rows before the i-th, and their next one.
Grown(rows, i, before) ==
  /\ Append(before, rows[i]) = SubSeq(rows, 1, i)
  /\ Named(before, rows[i].name) = {} /\ Without(before, rows[i].name) = before
  /\ Named(rows, rows[i].name) # {} /\ \A last : Found(rows, rows[i].name, last) = i

LEMMA OneMore ==
  ASSUME NEW T, NEW rows \in Seq(T), NEW i \in 1..Len(rows), Unique(rows)
  PROVE  Grown(rows, i, SubSeq(rows, 1, i - 1))
<1> DEFINE before == SubSeq(rows, 1, i - 1)  n == rows[i].name
<1>1. Len(rows) \in Nat /\ DOMAIN rows = 1..Len(rows)
  BY Shape
<1>2. before \in Seq(T) /\ Len(before) = i - 1 /\ \A j \in 1..(i - 1) : before[j] = rows[j]
  BY <1>1, Shape, SubSeqProperties
<1>3. Append(before, rows[i]) = SubSeq(rows, 1, i)
  BY <1>1, SubSeqRecursiveSecond
<1>4. DOMAIN before = 1..(i - 1)
  BY <1>2, Shape
<1> HIDE DEF before
<1>5. Named(before, n) = {}
  <2>1. \A j \in 1..(i - 1) : before[j].name # n
    BY <1>1, <1>2 DEF Unique
  <2>2. QED
    BY <1>4, <2>1 DEF Named
<1>6. Without(before, n) = before
  BY <1>5 DEF Without
<1>7. i \in Named(rows, n)
  BY <1>1 DEF Named
<1>8. ASSUME NEW last PROVE Found(rows, n, last) = i
  <2>1. Found(rows, n, last) \in DOMAIN rows /\ rows[Found(rows, n, last)].name = n
    BY <1>7, FoundHere
  <2>2. QED
    BY <1>1, <2>1 DEF Unique
<1>9. QED
  BY <1>3, <1>5, <1>6, <1>7, <1>8 DEF before, Grown

\* Tasks of their own stage come back as they were.
LEMMA TasksBack ==
  ASSUME NEW old \in Seq(Task), Unique(old), NEW specs, DOMAIN specs = DOMAIN old, Len(specs) = Len(old),
         \A k \in DOMAIN old : specs[k].name = old[k].name /\ old[k].name # Blank, NEW last
  PROVE  MergedTasks(old, specs, last) = old
<1>1. Len(old) \in Nat /\ DOMAIN old = 1..Len(old)
  BY Shape
<1>0. Len(specs) \in Nat /\ Len(specs) = Len(old)
  BY <1>1
<1>9. \E kept : /\ kept[0] = <<>>
                /\ \A i \in 1..Len(specs) : kept[i] = WithTask(kept[i - 1], old, specs[i], last)
                /\ MergedTasks(old, specs, last) = kept[Len(specs)]
  BY <1>0, TasksOneByOne
<1>2. PICK kept : /\ kept[0] = <<>>
                  /\ \A i \in 1..Len(old) : kept[i] = WithTask(kept[i - 1], old, specs[i], last)
                  /\ MergedTasks(old, specs, last) = kept[Len(old)]
  BY <1>0, <1>9
<1> DEFINE P == {i \in 0..Len(old) : kept[i] = SubSeq(old, 1, i)}
<1>3. 0 \in P
  <2>1. SubSeq(old, 1, 0) = <<>>
    BY SubSeqEmpty
  <2>2. kept[0] = SubSeq(old, 1, 0)
    BY <1>2, <2>1, Zenon
  <2>3. 0 \in 0..Len(old)
    BY <1>1
  <2>4. QED
    BY <2>2, <2>3, Zenon
<1>4. ASSUME NEW i \in 1..Len(old), i - 1 \in P PROVE i \in P
  <2> DEFINE before == SubSeq(old, 1, i - 1)  n == old[i].name
  <2>1. /\ Append(before, old[i]) = SubSeq(old, 1, i)
        /\ Named(before, n) = {} /\ Without(before, n) = before
        /\ Named(old, n) # {} /\ Found(old, n, last) = i
    <3>1. Grown(old, i, before)
      BY OneMore
    <3> HIDE DEF before
    <3>2. QED
      BY <3>1 DEF Grown
  <2>2. kept[i] = WithTask(before, old, specs[i], last) /\ specs[i].name = n /\ n # Blank
    BY <1>1, <1>2, <1>4
  <2> HIDE DEF before, n
  <2>3. WithTask(before, old, specs[i], last) = Append(before, old[i])
    BY <2>1, <2>2 DEF WithTask
  <2>4. QED
    BY <2>1, <2>2, <2>3
<1> HIDE DEF P
<1>5. Len(old) \in P
  <2>1. \A i \in 1..Len(old) : i - 1 \in P => i \in P
    BY <1>4
  <2>2. \A i \in 0..Len(old) : i \in P
    BY <1>1, <1>3, <2>1, Stepping
  <2>3. QED
    BY <1>1, <2>2
<1>6. SubSeq(old, 1, Len(old)) = old
  BY SubSeqFull
<1>7. QED
  BY <1>2, <1>5, <1>6 DEF P

CleanRows(rows) == Unique(rows) /\ \A i \in DOMAIN rows : Stripped[rows[i].name] = rows[i].name /\ rows[i].name # Blank

LEMMA WellNamedRows ==
  ASSUME NEW T, NEW rows \in Seq(T)
  PROVE  WellNamed(rows) <=> CleanRows(rows)
BY OnceIsUnique DEF WellNamed, CleanRows

\* What an import reads of a stage that an export or a push has written, when names are clean.
WrittenRow(d, modes, i, s) ==
  /\ s.name = d[i].name /\ s.mode = (IF modes THEN d[i].mode ELSE Unset)
  /\ s.language = (IF modes THEN d[i].language ELSE Unset)
  /\ DOMAIN s.tasks = DOMAIN d[i].tasks /\ Len(s.tasks) = Len(d[i].tasks)
  /\ \A k \in DOMAIN d[i].tasks : s.tasks[k].name = d[i].tasks[k].name

LEMMA WrittenRows ==
  ASSUME NEW d \in Seq(Stage), CleanRows(d), \A i \in DOMAIN d : CleanRows(d[i].tasks), NEW modes
  PROVE  /\ Len(Read(Written(d, modes))) = Len(d)
         /\ \A i \in DOMAIN d : WrittenRow(d, modes, i, Read(Written(d, modes))[i])
<1>1. Len(d) \in Nat /\ DOMAIN d = 1..Len(d) /\ \A i \in DOMAIN d : d[i] \in Stage
  BY Shape
<1> DEFINE doc == Written(d, modes)
<1>2. DOMAIN doc = 1..Len(d)
  BY <1>1 DEF Written
<1>5. DOMAIN Read(doc) = 1..Len(d) /\ Len(Read(doc)) = Len(d)
  <2> HIDE DEF doc
  <2>1. QED
    BY <1>1, <1>2 DEF Read
<1>3. ASSUME NEW i \in DOMAIN d PROVE WrittenRow(d, modes, i, Read(doc)[i])
  <2> DEFINE old == d[i].tasks
             new == [k \in DOMAIN old |-> [name |-> old[k].name, extra |-> FALSE]]
             back == ReadTasks(new)
  <2>1. Len(old) \in Nat /\ DOMAIN old = 1..Len(old)
    <3>1. old \in Seq(Task)
      BY <1>1 DEF Stage
    <3>2. QED
      BY <3>1, Shape
  <2>2. doc[i] = [name |-> d[i].name, mode |-> IF modes THEN d[i].mode ELSE Unset,
                  language |-> IF modes THEN d[i].language ELSE Unset, tasks |-> new]
    BY DEF Written
  <2>3. \A k \in DOMAIN old : Stripped[old[k].name] = old[k].name
    BY DEF CleanRows
  <2>4. DOMAIN back = DOMAIN old /\ Len(back) = Len(old) /\ \A k \in DOMAIN old : back[k].name = old[k].name
    <3>1. DOMAIN back = 1..Len(old)
      BY <2>1 DEF ReadTasks
    <3>2. \A k \in DOMAIN old : new[k].name = old[k].name /\ back[k] = [new[k] EXCEPT !.name = Stripped[new[k].name]]
                                /\ "name" \in DOMAIN new[k]
      BY DEF ReadTasks
    <3> HIDE DEF new, back
    <3>3. \A k \in DOMAIN old : back[k].name = old[k].name
      BY <2>3, <3>2
    <3>4. QED
      BY <2>1, <3>1, <3>3
  <2>5. Read(doc)[i] = [doc[i] EXCEPT !.name = Stripped[doc[i].name], !.tasks = back]
    <3> HIDE DEF doc
    <3>1. i \in DOMAIN doc
      BY <1>1, <1>2
    <3> HIDE DEF new
    <3>2. doc[i].tasks = new
      BY <2>2
    <3>3. QED
      BY <3>1, <3>2 DEF Read
  <2>6. Stripped[d[i].name] = d[i].name
    BY DEF CleanRows
  <2> HIDE DEF back, new, doc
  <2>7. QED
    BY <2>2, <2>4, <2>5, <2>6 DEF WrittenRow
<1>4. QED
  BY <1>3, <1>5

LEMMA FilledRow ==
  ASSUME NEW d \in Seq(Stage), NEW modes, NEW i \in DOMAIN d
  PROVE  Filled(d, modes)[i] = [d[i] EXCEPT !.language = IF ~modes /\ d[i].language = Null THEN "bash" ELSE d[i].language]
BY DEF Filled

LEMMA FilledRows ==
  ASSUME NEW d \in Seq(Stage), NEW modes
  PROVE  /\ Filled(d, modes) \in Seq(Stage) /\ Len(Filled(d, modes)) = Len(d) /\ DOMAIN Filled(d, modes) = DOMAIN d
         /\ \A i \in DOMAIN d : Filled(d, modes)[i].name = d[i].name /\ Filled(d, modes)[i].tasks = d[i].tasks
         /\ Unique(d) => Unique(Filled(d, modes))
<1>1. Len(d) \in Nat /\ DOMAIN d = 1..Len(d) /\ \A i \in DOMAIN d : d[i] \in Stage
  BY Shape
<1> DEFINE new == Filled(d, modes)
<1>2. /\ DOMAIN new = 1..Len(d) /\ new = [i \in 1..Len(d) |-> new[i]]
      /\ \A i \in DOMAIN d : new[i] = [d[i] EXCEPT !.language = IF ~modes /\ d[i].language = Null THEN "bash" ELSE d[i].language]
  BY <1>1 DEF Filled
<1> HIDE DEF new
<1>3. ASSUME NEW i \in DOMAIN d PROVE new[i] \in Stage /\ new[i].name = d[i].name /\ new[i].tasks = d[i].tasks
  <2> DEFINE language == IF ~modes /\ d[i].language = Null THEN "bash" ELSE d[i].language
  <2>1. d[i] \in Stage /\ new[i] = [d[i] EXCEPT !.language = language]
    BY <1>1, <1>2
  <2>2. language \in Languages \cup {Null}
    BY <2>1, DefinitionAssumption DEF Stage
  <2> HIDE DEF language
  <2>3. QED
    BY <2>1, <2>2 DEF Stage
<1>4. new \in Seq(Stage) /\ Len(new) = Len(d)
  BY <1>1, <1>2, <1>3, ASeq
<1>5. Unique(d) => Unique(new)
  BY <1>1, <1>2, <1>3 DEF Unique
<1>6. QED
  BY <1>1, <1>2, <1>3, <1>4, <1>5 DEF new

\* A definition with clean names survives the import of its own document.
LEMMA StagesBack ==
  ASSUME NEW d \in Seq(Stage), CleanRows(d), \A i \in DOMAIN d : CleanRows(d[i].tasks), NEW modes, NEW last
  PROVE  Merged(d, Read(Written(d, modes)), last) = Filled(d, modes)
<1> DEFINE doc == Read(Written(d, modes))  e == Filled(d, modes)
<1>1. Len(d) \in Nat /\ DOMAIN d = 1..Len(d) /\ \A i \in DOMAIN d : d[i] \in Stage
  BY Shape
<1>0. Len(doc) = Len(d) /\ \A i \in DOMAIN d : WrittenRow(d, modes, i, doc[i])
  BY WrittenRows
<1>8. /\ e \in Seq(Stage) /\ Len(e) = Len(d) /\ DOMAIN e = DOMAIN d /\ Unique(e)
      /\ \A i \in DOMAIN d : e[i].name = d[i].name
  BY FilledRows DEF CleanRows
<1>9. \A i \in DOMAIN d : e[i] = [d[i] EXCEPT !.language = IF ~modes /\ d[i].language = Null THEN "bash" ELSE d[i].language]
  BY FilledRow
<1> HIDE DEF doc, e
<1>2. PICK kept : /\ kept[0] = <<>>
                  /\ \A i \in 1..Len(d) : kept[i] = WithStage(kept[i - 1], d, doc[i], last)
                  /\ Merged(d, doc, last) = kept[Len(d)]
  BY <1>0, <1>1, StagesOneByOne
<1> DEFINE P == {i \in 0..Len(d) : kept[i] = SubSeq(e, 1, i)}
<1>3. 0 \in P
  <2>1. SubSeq(e, 1, 0) = <<>>
    BY SubSeqEmpty
  <2>2. kept[0] = SubSeq(e, 1, 0)
    BY <1>2, <2>1, Zenon
  <2>3. 0 \in 0..Len(d)
    BY <1>1
  <2>4. QED
    BY <2>2, <2>3, Zenon
<1>4. ASSUME NEW i \in 1..Len(d), i - 1 \in P PROVE i \in P
  <2> DEFINE before == SubSeq(e, 1, i - 1)  n == d[i].name  spec == doc[i]  old == d[i]
             row == [old EXCEPT !.mode = ModeOf(old, spec), !.language = LanguageOf(old, spec),
                                !.tasks = MergedTasks(old.tasks, spec.tasks, last)]
  <2>1. /\ Append(before, e[i]) = SubSeq(e, 1, i)
        /\ Named(before, n) = {} /\ Without(before, n) = before
    <3>1. Grown(e, i, before)
      BY <1>8, OneMore
    <3> HIDE DEF before
    <3>2. e[i].name = n
      BY <1>1, <1>8
    <3>3. QED
      BY <3>1, <3>2 DEF Grown
  <2>11. Named(d, n) # {} /\ Found(d, n, last) = i
    <3>1. Grown(d, i, SubSeq(d, 1, i - 1))
      BY OneMore DEF CleanRows
    <3>2. QED
      BY <3>1 DEF Grown
  <2>2. kept[i] = WithStage(before, d, spec, last)
    BY <1>1, <1>2, <1>4
  <2>3. WrittenRow(d, modes, i, spec)
    BY <1>0, <1>1
  <2>4. old \in Stage /\ old.tasks \in Seq(Task) /\ CleanRows(old.tasks) /\ n # Blank
    BY <1>1 DEF Stage, CleanRows
  <2> HIDE DEF before, spec
  <2>5. MergedTasks(old.tasks, spec.tasks, last) = old.tasks
    BY <2>3, <2>4, TasksBack DEF WrittenRow, CleanRows
  <2>6. /\ ModeOf(old, spec) = old.mode
        /\ LanguageOf(old, spec) = IF ~modes /\ old.language = Null THEN "bash" ELSE old.language
    BY <1>1, <2>3, <2>4, DefinitionAssumption DEF ModeOf, LanguageOf, WrittenRow, Stage
  <2>7. row = e[i]
    <3>1. e[i] = [old EXCEPT !.language = IF ~modes /\ old.language = Null THEN "bash" ELSE old.language]
      BY <1>1, <1>9
    <3>2. QED
      BY <2>4, <2>5, <2>6, <3>1 DEF Stage
  <2>8. spec.name = n
    BY <2>3 DEF WrittenRow
  <2>9. WithStage(before, d, spec, last) = Append(before, row)
    BY <2>1, <2>4, <2>8, <2>11 DEF WithStage
  <2> HIDE DEF row
  <2>10. QED
    BY <2>1, <2>2, <2>7, <2>9
<1> HIDE DEF P
<1>5. Len(d) \in P
  <2>1. \A i \in 1..Len(d) : i - 1 \in P => i \in P
    BY <1>4
  <2>2. \A i \in 0..Len(d) : i \in P
    BY <1>1, <1>3, <2>1, Stepping
  <2>3. QED
    BY <1>1, <2>2
<1>6. SubSeq(e, 1, Len(d)) = e
  BY <1>8, SubSeqFull
<1>7. QED
  BY <1>2, <1>5, <1>6 DEF P, doc, e

\* Whatever was written, what has been read of it has clean names.
LEMMA ReadIsClean ==
  ASSUME NEW d \in Seq(Stage), NEW doc \in Seq(StageSpec), NEW last
  PROVE  LET new == Merged(d, Read(doc), last)
         IN  new \in Seq(Stage) /\ CleanRows(new) /\ \A j \in DOMAIN new : CleanRows(new[j].tasks)
<1> DEFINE specs == Read(doc)  new == Merged(d, specs, last)
<1>1. /\ specs \in Seq(StageSpec) /\ \A i \in DOMAIN specs :
           /\ Stripped[specs[i].name] = specs[i].name
           /\ \A k \in DOMAIN specs[i].tasks : Stripped[specs[i].tasks[k].name] = specs[i].tasks[k].name
  BY ReadTyped
<1> HIDE DEF specs
<1>2. Imported(d, specs, last, new)
  BY <1>1, StagesMerged
<1> HIDE DEF new
<1>3. new \in Seq(Stage) /\ Unique(new) /\ NamesOf(new) = NamesOf(specs) \ {Blank}
  BY <1>2 DEF Imported
<1>4. \A j \in DOMAIN new : new[j].name # Blank /\ \E i \in DOMAIN specs : new[j].name = specs[i].name
  BY <1>3 DEF NamesOf
<1>5. CleanRows(new)
  BY <1>1, <1>3, <1>4 DEF CleanRows
<1>6. ASSUME NEW j \in DOMAIN new PROVE CleanRows(new[j].tasks)
  <2> DEFINE spec == LastSpec(specs, new[j].name)
  <2>1. Unique(new[j].tasks) /\ NamesOf(new[j].tasks) = NamesOf(spec.tasks) \ {Blank}
    BY <1>2 DEF Imported
  <2>2. \E i \in DOMAIN specs : spec = specs[i]
    <3>1. Named(specs, new[j].name) # {} /\ Named(specs, new[j].name) \in SUBSET (1..Len(specs)) /\ Len(specs) \in Nat
      BY <1>1, <1>4, Shape DEF Named
    <3>2. Max(Named(specs, new[j].name)) \in Named(specs, new[j].name)
      BY <3>1, Bounds
    <3>3. QED
      BY <3>2 DEF LastSpec, Named
  <2> HIDE DEF spec
  <2>3. \A k \in DOMAIN spec.tasks : Stripped[spec.tasks[k].name] = spec.tasks[k].name
    BY <1>1, <2>2
  <2>4. \A k \in DOMAIN new[j].tasks : new[j].tasks[k].name # Blank /\ \E l \in DOMAIN spec.tasks : new[j].tasks[k].name = spec.tasks[l].name
    BY <2>1 DEF NamesOf
  <2>5. QED
    BY <2>1, <2>3, <2>4 DEF CleanRows
<1>7. QED
  BY <1>3, <1>5, <1>6 DEF new, specs

\* An import that leaves every stage its name and its tasks is not refused.
LEMMA NothingRefused ==
  ASSUME NEW d \in Seq(Stage), Unique(d), NEW doc, NEW last, NEW e \in Seq(Stage), Merged(d, doc, last) = e,
         Unique(e), Len(e) = Len(d), \A i \in DOMAIN d : e[i].name = d[i].name /\ e[i].tasks = d[i].tasks
  PROVE  ~Refused(d, doc, last)
<1> DEFINE kept == {Found(d, d[i].name, last) : i \in {j \in DOMAIN d : Named(e, d[j].name) # {}}}
<1>0. Len(d) \in Nat /\ DOMAIN d = 1..Len(d) /\ DOMAIN e = 1..Len(d) /\ \A i \in DOMAIN d : d[i] \in Stage
  BY Shape
<1>1. \A i \in DOMAIN d : d[i].tasks \in Seq(Task)
  BY <1>0 DEF Stage
<1>2. ASSUME NEW i \in DOMAIN d
      PROVE Found(d, d[i].name, last) = i /\ Named(e, d[i].name) # {} /\ Found(e, d[i].name, last) = i
  <2>1. Grown(d, i, SubSeq(d, 1, i - 1))
    BY <1>0, OneMore
  <2>2. Grown(e, i, SubSeq(e, 1, i - 1))
    BY <1>0, OneMore
  <2>3. QED
    BY <1>0, <2>1, <2>2 DEF Grown
<1>3. ASSUME NEW i \in DOMAIN d PROVE RanTasks(d[i]) \in Nat /\ RanTasks(e[i]) = RanTasks(d[i])
  <2>1. Len(d[i].tasks) \in Nat /\ DOMAIN d[i].tasks = 1..Len(d[i].tasks)
    BY <1>1, Shape
  <2>2. IsFiniteSet({k \in DOMAIN d[i].tasks : d[i].tasks[k].ran})
    <3>1. IsFiniteSet(DOMAIN d[i].tasks)
      <4>1. IsFiniteSet(1..Len(d[i].tasks))
        <5>1. Len(d[i].tasks) \in Int /\ 1 \in Int
          BY <2>1
        <5>2. QED
          BY <5>1, FS_Interval
      <4>2. QED
        BY <2>1, <4>1
    <3>2. {k \in DOMAIN d[i].tasks : d[i].tasks[k].ran} \in SUBSET DOMAIN d[i].tasks
      OBVIOUS
    <3>3. QED
      BY <3>1, <3>2, FS_Subset
  <2>3. QED
    BY <2>2, FS_CardinalityType DEF RanTasks
<1>4. ASSUME NEW i \in DOMAIN d PROVE i \in kept
  BY <1>2
<1>5. Refused(d, doc, last) <=> \E i \in DOMAIN d : IF i \in kept THEN RanTasks(e[Found(e, d[i].name, last)]) < RanTasks(d[i])
                                                  ELSE d[i].ran \/ d[i].tasks # <<>>
  BY DEF Refused
<1> HIDE DEF kept
<1>6. QED
  BY <1>2, <1>3, <1>4, <1>5

\* The first round with clean names.
LEMMA CleanComesBack ==
  ASSUME NEW d \in Seq(Stage), NEW modes
  PROVE  /\ Clean(d) <=> CleanRows(d) /\ \A i \in DOMAIN d : CleanRows(d[i].tasks)
         /\ ComesBack(d, modes)
<1>1. \A i \in DOMAIN d : d[i].tasks \in Seq(Task)
  <2>1. \A i \in DOMAIN d : d[i] \in Stage
    BY Shape
  <2>2. QED
    BY <2>1 DEF Stage
<1>2. Clean(d) <=> CleanRows(d) /\ \A i \in DOMAIN d : CleanRows(d[i].tasks)
  BY <1>1, WellNamedRows DEF Clean
<1>3. ASSUME Clean(d)
      PROVE  ReadBack(d, modes) = Filled(d, modes) /\ ~Refused(d, Read(Written(d, modes)), FALSE)
  <2> DEFINE doc == Read(Written(d, modes))  e == Filled(d, modes)
  <2>1. Merged(d, doc, FALSE) = e
    BY <1>2, <1>3, StagesBack
  <2>2. Unique(d)
    BY <1>2, <1>3 DEF CleanRows
  <2>3. /\ e \in Seq(Stage) /\ Unique(e) /\ Len(e) = Len(d)
        /\ \A i \in DOMAIN d : e[i].name = d[i].name /\ e[i].tasks = d[i].tasks
    <3>1. Unique(e)
      BY <2>2, FilledRows
    <3>2. QED
      BY <3>1, FilledRows
  <2> HIDE DEF doc, e
  <2>4. ~Refused(d, doc, FALSE)
    BY <2>1, <2>2, <2>3, NothingRefused
  <2>5. QED
    BY <2>1, <2>4 DEF doc, e, ReadBack
<1>4. QED
  BY <1>2, <1>3 DEF ComesBack

\* For definitions of any length and any names: importing what was just exported, or pulling what was just
\* pushed, is not refused and changes nothing but a missing language, once names are clean; and after one
\* round they are.
THEOREM RoundTrips == Spec => []RoundTrip
<1>1. ASSUME TypeOK PROVE RoundTrip
  <2> SUFFICES ASSUME NEW p \in Pipelines, NEW modes \in BOOLEAN
               PROVE  LET back == ReadBack(def[p], modes)
                      IN  ComesBack(def[p], modes) /\ Clean(back) /\ ComesBack(back, modes)
    BY DEF RoundTrip
  <2> DEFINE d == def[p]  back == ReadBack(d, modes)
  <2>1. d \in Seq(Stage)
    BY <1>1 DEF TypeOK
  <2> HIDE DEF d
  <2>2. back \in Seq(Stage) /\ CleanRows(back) /\ \A j \in DOMAIN back : CleanRows(back[j].tasks)
    BY <2>1, WrittenTyped, ReadIsClean DEF ReadBack
  <2> HIDE DEF back
  <2>3. ComesBack(d, modes) /\ ComesBack(back, modes) /\ Clean(back)
    BY <2>1, <2>2, CleanComesBack
  <2>4. QED
    BY <2>3 DEF d, back
<1>2. QED
  BY <1>1, DefinitionTypeCorrect, PTL
====
