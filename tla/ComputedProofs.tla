--------------------------- MODULE ComputedProofs ---------------------------
(***************************************************************************)
(* Proofs about computed fields and projections, for all fields, relations *)
(* and projections, and middlewares in any number and order.               *)
(***************************************************************************)
EXTENDS ComputedFields, TLAPS, SequenceTheorems, WellFoundedInduction

CONSTANT Steps  \* the names that paths are made of

-----------------------------------------------------------------------------
(* Paths *)

LEMMA Path ==
  ASSUME NEW n \in Nodes
  PROVE  Len(n) \in Nat /\ DOMAIN n = 1..Len(n) /\ n = [j \in 1..Len(n) |-> n[j]]
<1>1. n \in Seq({n[i] : i \in DOMAIN n})
  BY FieldsAssumption
<1> QED
  BY <1>1

LEMMA Prefix ==
  ASSUME NEW n \in Nodes, NEW i \in 0..Len(n)
  PROVE  SubSeq(n, 1, i) = [j \in 1..i |-> n[j]] /\ Len(SubSeq(n, 1, i)) = i
<1> DEFINE S == {n[j] : j \in DOMAIN n}
           s == SubSeq(n, 1, i)
<1>1. Len(n) \in Nat /\ DOMAIN n = 1..Len(n)
  BY Path
<1>2. \A j \in 1..i : n[j] \in S
  BY <1>1
<1>3. i \in Int /\ 1 \in Int /\ i \in Nat
  BY <1>1
<1>4. s \in Seq(S) /\ Len(s) = i /\ \A j \in 1..i : s[j] = n[j]
  <2>1. /\ s \in Seq(S)
        /\ Len(s) = IF 1 <= i THEN i - 1 + 1 ELSE 0
        /\ \A j \in 1..(i - 1 + 1) : s[j] = n[1 + j - 1]
    BY <1>2, <1>3, SubSeqProperties
  <2> QED
    BY <2>1, <1>3
<1>5. s = [j \in 1..i |-> s[j]]
  BY <1>4
<1> QED
  BY <1>4, <1>5

LEMMA AbovePath ==
  ASSUME NEW n \in Nodes, NEW m \in Above(n)
  PROVE  m \in Nodes /\ Len(m) \in 0..(Len(n) - 1) /\ \A j \in 1..Len(m) : m[j] = n[j]
<1>1. Len(n) \in Nat
  BY Path
<1>2. PICK i \in 0..(Len(n) - 1) : m = SubSeq(n, 1, i)
  BY DEF Above
<1>3. i \in 0..Len(n)
  BY <1>1, <1>2
<1>4. m = [j \in 1..i |-> n[j]] /\ Len(m) = i
  BY <1>2, <1>3, Prefix
<1>5. m \in Nodes
  BY FieldsAssumption
<1> QED
  BY <1>2, <1>4, <1>5

LEMMA PathAbove ==
  ASSUME NEW n \in Nodes, NEW m \in Nodes, Len(m) < Len(n),
         \A j \in 1..Len(m) : m[j] = n[j]
  PROVE  m \in Above(n)
<1>1. Len(n) \in Nat /\ Len(m) \in Nat /\ m = [j \in 1..Len(m) |-> m[j]]
  BY Path
<1>2. Len(m) \in 0..Len(n) /\ Len(m) \in 0..(Len(n) - 1)
  BY <1>1
<1>3. SubSeq(n, 1, Len(m)) = [j \in 1..Len(m) |-> n[j]]
  BY <1>2, Prefix
<1>4. m = SubSeq(n, 1, Len(m))
  BY <1>1, <1>3
<1> QED
  BY <1>2, <1>4 DEF Above

LEMMA NotAboveItself == \A n \in Nodes : n \notin Above(n)
BY AbovePath, Path

LEMMA AboveAbove ==
  \A n \in Nodes : \A m \in Above(n) : \A k \in Above(m) : k \in Above(n)
<1> SUFFICES ASSUME NEW n \in Nodes, NEW m \in Above(n), NEW k \in Above(m)
             PROVE  k \in Above(n)
  OBVIOUS
<1>1. m \in Nodes /\ Len(m) \in 0..(Len(n) - 1) /\ \A j \in 1..Len(m) : m[j] = n[j]
  BY AbovePath
<1>2. k \in Nodes /\ Len(k) \in 0..(Len(m) - 1) /\ \A j \in 1..Len(k) : k[j] = m[j]
  BY <1>1, AbovePath
<1>3. Len(n) \in Nat
  BY Path
<1> QED
  BY <1>1, <1>2, <1>3, PathAbove

(* Of two objects around a field, one is around the other. *)
LEMMA AboveInLine ==
  ASSUME NEW n \in Nodes, NEW m \in UpTo(n), NEW k \in UpTo(n)
  PROVE  m = k \/ m \in Above(k) \/ k \in Above(m)
<1>1. /\ m \in Nodes /\ Len(m) \in 0..Len(n) /\ \A j \in 1..Len(m) : m[j] = n[j]
      /\ k \in Nodes /\ Len(k) \in 0..Len(n) /\ \A j \in 1..Len(k) : k[j] = n[j]
      /\ Len(n) \in Nat
  BY AbovePath, Path DEF UpTo
<1>2. CASE Len(m) < Len(k)
  BY <1>1, <1>2, PathAbove
<1>3. CASE Len(k) < Len(m)
  BY <1>1, <1>3, PathAbove
<1>4. CASE Len(m) = Len(k)
  <2>1. m = [j \in 1..Len(m) |-> m[j]] /\ k = [j \in 1..Len(k) |-> k[j]]
    BY <1>1, Path
  <2> QED
    BY <1>1, <1>4, <2>1
<1> QED
  BY <1>1, <1>2, <1>3, <1>4

LEMMA UpToPath ==
  ASSUME NEW n \in Nodes, NEW m \in UpTo(n)
  PROVE  m \in Nodes /\ Above(m) \subseteq Above(n) /\ UpTo(m) \subseteq UpTo(n)
BY AbovePath, AboveAbove DEF UpTo

LEMMA Root == Above(<<>>) = {} /\ \A n \in Nodes \ {<<>>} : <<>> \in Above(n)
<1>1. Above(<<>>) = {}
  BY DEF Above
<1>2. ASSUME NEW n \in Nodes \ {<<>>} PROVE <<>> \in Above(n)
  <2>1. Len(n) \in Nat /\ n = [j \in 1..Len(n) |-> n[j]]
    BY Path
  <2>2. Len(n) # 0
    <3> SUFFICES ASSUME Len(n) = 0 PROVE FALSE
      OBVIOUS
    <3>1. n = [j \in 1..0 |-> n[j]]
      BY <2>1
    <3> QED
      BY <3>1
  <2>3. 0 \in 0..(Len(n) - 1) /\ 0 \in 0..Len(n)
    BY <2>1, <2>2
  <2>4. SubSeq(n, 1, 0) = [j \in 1..0 |-> n[j]]
    BY <2>3, Prefix
  <2>5. SubSeq(n, 1, 0) = <<>>
    BY <2>4
  <2> QED
    BY <2>3, <2>5 DEF Above
<1> QED
  BY <1>1, <1>2

LEMMA LeavesAtTheBottom ==
  /\ Leaves \subseteq Nodes
  /\ \A l, k \in Leaves : l \notin Above(k) /\ (l \in UpTo(k) => l = k)
BY FieldsAssumption DEF UpTo

-----------------------------------------------------------------------------
(* What the operators on projections select *)

Projection(p) == IsProjection(p) /\ DOMAIN p \subseteq Nodes

LEMMA Named ==
  ASSUME NEW p, Projection(p), NEW n \in DOMAIN p
  PROVE  /\ n \in Nodes /\ p[n] \in {Yes, No, Obj}
         /\ ~Covered(p, n) /\ At(p, n) = p[n]
         /\ \A m \in Above(n) : m \in DOMAIN p /\ p[m] = Obj
<1>1. n \in Nodes /\ p[n] \in {Yes, No, Obj} /\ \A m \in Above(n) : m \in DOMAIN p /\ p[m] = Obj
  BY DEF Projection, IsProjection
<1>2. ~Covered(p, n)
  BY <1>1, ValuesAssumption DEF Covered
<1> QED
  BY <1>1, <1>2 DEF At

LEMMA SelectsIff ==
  ASSUME NEW p, NEW n
  PROVE  Selects(p, n) <=> \/ \E m \in Above(n) \cap DOMAIN p : p[m] = Yes
                           \/ n \in DOMAIN p /\ p[n] # No
<1>1. CASE Covered(p, n)
  BY <1>1, ValuesAssumption DEF Selects, At, Covered
<1>2. CASE ~Covered(p, n)
  BY <1>2 DEF Selects, At, Covered
<1> QED
  BY <1>1, <1>2

(* What is selected as a whole is selected with all that is below it. *)
LEMMA SelectsBelow ==
  ASSUME NEW p, NEW n \in Nodes, NEW m \in UpTo(n), m \in DOMAIN p, p[m] = Yes
  PROVE  Selects(p, n)
BY SelectsIff, ValuesAssumption DEF UpTo

LEMMA AtYes ==
  ASSUME NEW p, NEW n \in Nodes, At(p, n) = Yes
  PROVE  \E m \in UpTo(n) \cap DOMAIN p : p[m] = Yes
BY ValuesAssumption DEF At, Covered, UpTo

LEMMA MergeAt ==
  ASSUME NEW p, NEW q, Projection(p), Projection(q)
  PROVE  LET M == Merge(p, q) IN
         /\ DOMAIN M = {m \in DOMAIN p \cup DOMAIN q : ~Covered(p, m) /\ ~Covered(q, m)}
         /\ \A n \in DOMAIN M :
              /\ M[n] \in {Yes, No, Obj}
              /\ M[n] = Yes <=> \/ n \in DOMAIN p /\ p[n] = Yes
                                \/ n \in DOMAIN q /\ q[n] = Yes
              /\ M[n] = No <=> /\ n \in DOMAIN p => p[n] = No
                               /\ n \in DOMAIN q => q[n] = No
         /\ \A n \in (DOMAIN p \cup DOMAIN q) \ DOMAIN M :
              \E m \in Above(n) : m \in DOMAIN M /\ M[m] = Yes
<1> DEFINE M == Merge(p, q)
<1>1. DOMAIN M = {m \in DOMAIN p \cup DOMAIN q : ~Covered(p, m) /\ ~Covered(q, m)}
  BY DEF Merge
<1>2. ASSUME NEW n \in DOMAIN M
      PROVE  /\ M[n] \in {Yes, No, Obj}
             /\ M[n] = Yes <=> \/ n \in DOMAIN p /\ p[n] = Yes
                               \/ n \in DOMAIN q /\ q[n] = Yes
             /\ M[n] = No <=> /\ n \in DOMAIN p => p[n] = No
                              /\ n \in DOMAIN q => q[n] = No
  <2>1. M[n] = Strongest({At(p, n), At(q, n)})
    BY DEF Merge
  <2>2. At(p, n) = (IF n \in DOMAIN p THEN p[n] ELSE No) /\ At(q, n) = (IF n \in DOMAIN q THEN q[n] ELSE No)
    BY <1>1 DEF At
  <2>3. (n \in DOMAIN p => p[n] \in {Yes, No, Obj}) /\ (n \in DOMAIN q => q[n] \in {Yes, No, Obj})
    BY Named
  <2> HIDE DEF M
  <2> QED
    BY <2>1, <2>2, <2>3, ValuesAssumption DEF Strongest
<1>3. ASSUME NEW n \in (DOMAIN p \cup DOMAIN q) \ DOMAIN M
      PROVE  \E m \in Above(n) : m \in DOMAIN M /\ M[m] = Yes
  <2>1. CASE Covered(p, n)
    <3>1. PICK m \in Above(n) \cap DOMAIN p : p[m] = Yes
      BY <2>1 DEF Covered
    <3>2. n \in DOMAIN q
      BY <2>1, Named
    <3>3. m \in DOMAIN q
      BY <3>1, <3>2, Named
    <3>4. ~Covered(p, m) /\ ~Covered(q, m)
      BY <3>1, <3>3, Named
    <3>5. m \in DOMAIN M
      BY <1>1, <3>1, <3>4
    <3> HIDE DEF M
    <3> QED
      BY <1>2, <3>1, <3>5
  <2>2. CASE Covered(q, n)
    <3>1. PICK m \in Above(n) \cap DOMAIN q : q[m] = Yes
      BY <2>2 DEF Covered
    <3>2. n \in DOMAIN p
      BY <2>2, Named
    <3>3. m \in DOMAIN p
      BY <3>1, <3>2, Named
    <3>4. ~Covered(p, m) /\ ~Covered(q, m)
      BY <3>1, <3>3, Named
    <3>5. m \in DOMAIN M
      BY <1>1, <3>1, <3>4
    <3> HIDE DEF M
    <3> QED
      BY <1>2, <3>1, <3>5
  <2> QED
    BY <1>1, <2>1, <2>2
<1> HIDE DEF M
<1>4. /\ DOMAIN M = {m \in DOMAIN p \cup DOMAIN q : ~Covered(p, m) /\ ~Covered(q, m)}
      /\ \A n \in DOMAIN M :
           /\ M[n] \in {Yes, No, Obj}
           /\ M[n] = Yes <=> \/ n \in DOMAIN p /\ p[n] = Yes
                             \/ n \in DOMAIN q /\ q[n] = Yes
           /\ M[n] = No <=> /\ n \in DOMAIN p => p[n] = No
                            /\ n \in DOMAIN q => q[n] = No
      /\ \A n \in (DOMAIN p \cup DOMAIN q) \ DOMAIN M :
           \E m \in Above(n) : m \in DOMAIN M /\ M[m] = Yes
  BY <1>1, <1>2, <1>3
<1> QED
  BY <1>4 DEF M

LEMMA MergeProjection ==
  ASSUME NEW p, NEW q, Projection(p), Projection(q)
  PROVE  Projection(Merge(p, q))
<1> DEFINE M == Merge(p, q)
<1>1. /\ DOMAIN M = {m \in DOMAIN p \cup DOMAIN q : ~Covered(p, m) /\ ~Covered(q, m)}
      /\ \A n \in DOMAIN M :
           /\ M[n] \in {Yes, No, Obj}
           /\ M[n] = Yes <=> \/ n \in DOMAIN p /\ p[n] = Yes
                             \/ n \in DOMAIN q /\ q[n] = Yes
           /\ M[n] = No <=> /\ n \in DOMAIN p => p[n] = No
                            /\ n \in DOMAIN q => q[n] = No
  BY MergeAt
<1> HIDE DEF M
<1>2. <<>> \in DOMAIN M
  BY <1>1, Root DEF Projection, IsProjection, Covered
<1>3. DOMAIN M \subseteq Nodes
  BY <1>1 DEF Projection
<1>4. ASSUME NEW n \in DOMAIN M, NEW m \in Above(n) PROVE m \in DOMAIN M /\ M[m] = Obj
  <2>1. n \in Nodes /\ ~Covered(p, n) /\ ~Covered(q, n)
    BY <1>1, <1>3
  <2>2. ~Covered(p, m) /\ ~Covered(q, m)
    BY <2>1, AboveAbove DEF Covered
  <2>3. (m \in DOMAIN p => p[m] # Yes) /\ (m \in DOMAIN q => q[m] # Yes)
    BY <2>1 DEF Covered
  <2>4. (m \in DOMAIN p /\ p[m] = Obj) \/ (m \in DOMAIN q /\ q[m] = Obj)
    <3>1. CASE n \in DOMAIN p
      BY <3>1, Named
    <3>2. CASE n \in DOMAIN q
      BY <3>2, Named
    <3> QED
      BY <1>1, <3>1, <3>2
  <2>5. m \in DOMAIN M
    BY <1>1, <2>2, <2>4
  <2> QED
    BY <1>1, <2>3, <2>4, <2>5, ValuesAssumption
<1> QED
  BY <1>1, <1>2, <1>3, <1>4 DEF Projection, IsProjection, M

(* A merged projection selects what either does. *)
LEMMA MergeSelects ==
  ASSUME NEW p, NEW q, Projection(p), Projection(q), NEW n \in Nodes
  PROVE  Selects(Merge(p, q), n) <=> Selects(p, n) \/ Selects(q, n)
<1> DEFINE M == Merge(p, q)
<1>1. /\ DOMAIN M = {m \in DOMAIN p \cup DOMAIN q : ~Covered(p, m) /\ ~Covered(q, m)}
      /\ \A m \in DOMAIN M :
           /\ M[m] \in {Yes, No, Obj}
           /\ M[m] = Yes <=> \/ m \in DOMAIN p /\ p[m] = Yes
                             \/ m \in DOMAIN q /\ q[m] = Yes
           /\ M[m] = No <=> /\ m \in DOMAIN p => p[m] = No
                            /\ m \in DOMAIN q => q[m] = No
      /\ \A m \in (DOMAIN p \cup DOMAIN q) \ DOMAIN M :
           \E k \in Above(m) : k \in DOMAIN M /\ M[k] = Yes
  BY MergeAt
<1> HIDE DEF M
<1>2. Selects(M, n) => Selects(p, n) \/ Selects(q, n)
  BY <1>1, SelectsIff
<1>3. ASSUME NEW m \in UpTo(n), m \in (DOMAIN p \cup DOMAIN q) \ DOMAIN M
      PROVE  Selects(M, n)
  <2>1. PICK k \in Above(m) : k \in DOMAIN M /\ M[k] = Yes
    BY <1>1, <1>3
  <2>2. k \in Above(n)
    BY <2>1, AboveAbove DEF UpTo
  <2> QED
    BY <2>1, <2>2, SelectsIff
<1>4. Selects(p, n) => Selects(M, n)
  BY <1>1, <1>3, SelectsIff DEF UpTo
<1>5. Selects(q, n) => Selects(M, n)
  BY <1>1, <1>3, SelectsIff DEF UpTo
<1> QED
  BY <1>2, <1>4, <1>5 DEF M

(* An intersection selects what both do. *)
LEMMA IntersectSelects ==
  ASSUME NEW p, NEW q, Projection(p), Projection(q), NEW n \in Nodes
  PROVE  Selects(Intersect(p, q), n) <=> Selects(p, n) /\ Selects(q, n)
<1> DEFINE I == Intersect(p, q)
<1>1. DOMAIN I = {m \in DOMAIN p \cup DOMAIN q : Has(p, m) /\ Has(q, m)}
  BY DEF Intersect
<1>2. ASSUME NEW m \in DOMAIN I
      PROVE  /\ I[m] = Yes <=> At(p, m) = Yes /\ At(q, m) = Yes
             /\ I[m] = No <=> At(p, m) = No \/ At(q, m) = No
  <2>1. I[m] = Weakest({At(p, m), At(q, m)})
    BY DEF Intersect
  <2>2. At(p, m) \in {Yes, No, Obj} /\ At(q, m) \in {Yes, No, Obj}
    BY Named DEF At
  <2> HIDE DEF I
  <2> QED
    BY <2>1, <2>2, ValuesAssumption DEF Weakest
<1> HIDE DEF I
<1>3. ASSUME Selects(I, n) PROVE Selects(p, n) /\ Selects(q, n)
  <2>1. CASE n \in DOMAIN I /\ I[n] # No
    BY <2>1, <1>2 DEF Selects
  <2>2. CASE \E m \in Above(n) \cap DOMAIN I : I[m] = Yes
    <3>1. PICK m \in Above(n) \cap DOMAIN I : I[m] = Yes
      BY <2>2
    <3>2. At(p, m) = Yes /\ At(q, m) = Yes
      BY <3>1, <1>2
    <3>3. m \in UpTo(n) /\ m \in Nodes
      BY <3>1, AbovePath DEF UpTo
    <3>4. PICK j \in UpTo(m) \cap DOMAIN p : p[j] = Yes
      BY <3>2, <3>3, AtYes
    <3>5. PICK k \in UpTo(m) \cap DOMAIN q : q[k] = Yes
      BY <3>2, <3>3, AtYes
    <3>6. j \in UpTo(n) /\ k \in UpTo(n)
      BY <3>3, <3>4, <3>5, UpToPath
    <3> QED
      BY <3>4, <3>5, <3>6, SelectsBelow
  <2> QED
    BY <1>3, <2>1, <2>2, SelectsIff
<1>4. ASSUME Selects(p, n), Selects(q, n) PROVE Selects(I, n)
  <2>1. CASE n \in DOMAIN p \cup DOMAIN q
    <3>1. Has(p, n) /\ Has(q, n)
      BY <1>4, SelectsIff DEF Has, Covered
    <3>2. n \in DOMAIN I
      BY <1>1, <2>1, <3>1
    <3>3. I[n] # No
      BY <1>2, <1>4, <3>2 DEF Selects
    <3> QED
      BY <3>2, <3>3, SelectsIff
  <2>2. CASE n \notin DOMAIN p /\ n \notin DOMAIN q
    <3>1. PICK j \in Above(n) \cap DOMAIN p : p[j] = Yes
      BY <1>4, <2>2, SelectsIff
    <3>2. PICK k \in Above(n) \cap DOMAIN q : q[k] = Yes
      BY <1>4, <2>2, SelectsIff
    <3>3. j = k \/ j \in Above(k) \/ k \in Above(j)
      BY AboveInLine DEF UpTo
    <3>4. j \in Nodes /\ k \in Nodes
      BY AbovePath
    <3>5. ASSUME NEW i \in {j, k}, At(p, i) = Yes, At(q, i) = Yes, Has(p, i), Has(q, i)
          PROVE  Selects(I, n)
      <4>1. i \in DOMAIN I /\ I[i] = Yes
        BY <1>1, <1>2, <3>1, <3>2, <3>5
      <4> QED
        BY <4>1, <3>1, <3>2, SelectsIff
    <3>6. CASE j = k
      <4>1. At(p, j) = Yes /\ At(q, j) = Yes /\ Has(p, j) /\ Has(q, j)
        BY <3>1, <3>2, <3>6, Named DEF Has
      <4> QED
        BY <4>1, <3>5
    <3>7. CASE k \in Above(j)
      <4>1. At(p, j) = Yes /\ Has(p, j)
        BY <3>1, Named DEF Has
      <4>2. At(q, j) = Yes /\ Has(q, j)
        BY <3>2, <3>7 DEF At, Has, Covered
      <4> QED
        BY <4>1, <4>2, <3>5
    <3>8. CASE j \in Above(k)
      <4>1. At(q, k) = Yes /\ Has(q, k)
        BY <3>2, Named DEF Has
      <4>2. At(p, k) = Yes /\ Has(p, k)
        BY <3>1, <3>8 DEF At, Has, Covered
      <4> QED
        BY <4>1, <4>2, <3>5
    <3> QED
      BY <3>3, <3>6, <3>7, <3>8
  <2> QED
    BY <2>1, <2>2
<1> QED
  BY <1>3, <1>4 DEF I

(* One projection is contained in another if the nodes are, provided that  *)
(* it excludes none and that the other does not name all fields of an      *)
(* object: naming all of them is less than selecting the whole.            *)
LEMMA ContainedIsInclusion ==
  ASSUME NEW c \in Containers, NEW p, Projection(p), NoExclusion(p)
  PROVE  Contained(c, p) <=> NodesOf(p) \subseteq NodesOf(c)
<1>1. Projection(c)
  BY ProjectionsAssumption DEF IsProjectionOfFields, Projection
<1>2. ASSUME Contained(c, p), NEW n \in Nodes, Selects(p, n) PROVE Selects(c, n)
  <2>1. CASE n \in DOMAIN p /\ p[n] # No
    <3>1. \/ At(c, n) = Yes
          \/ n \in DOMAIN c /\ c[n] = p[n]
          \/ n \in DOMAIN c /\ c[n] # No
      BY <1>2, <2>1 DEF Contained
    <3> QED
      BY <2>1, <3>1, SelectsIff, ValuesAssumption DEF Selects
  <2>2. CASE \E m \in Above(n) \cap DOMAIN p : p[m] = Yes
    <3>1. PICK m \in Above(n) \cap DOMAIN p : p[m] = Yes
      BY <2>2
    <3>2. m \in UpTo(n) /\ m \in Nodes
      BY <3>1, AbovePath DEF UpTo
    <3>3. At(c, m) = Yes \/ (m \in DOMAIN c /\ c[m] = Yes)
      BY <1>2, <3>1, ValuesAssumption DEF Contained
    <3>4. At(c, m) = Yes
      BY <3>3, <1>1, Named
    <3>5. PICK k \in UpTo(m) \cap DOMAIN c : c[k] = Yes
      BY <3>2, <3>4, AtYes
    <3> QED
      BY <3>2, <3>5, UpToPath, SelectsBelow
  <2> QED
    BY <1>2, <2>1, <2>2, SelectsIff
<1>3. ASSUME NodesOf(p) \subseteq NodesOf(c), NEW n \in DOMAIN p
      PROVE  \/ At(c, n) = Yes
             \/ /\ n \in DOMAIN c
                /\ \/ c[n] = p[n]
                   \/ c[n] # No /\ p[n] = No
  <2>1. n \in Nodes /\ p[n] \in {Yes, Obj}
    BY Named DEF NoExclusion
  <2>2. Selects(p, n)
    BY <2>1, SelectsIff, ValuesAssumption
  <2>3. Selects(c, n)
    BY <1>3, <2>1, <2>2 DEF NodesOf
  <2>4. CASE n \in DOMAIN c /\ c[n] = Obj /\ p[n] = Yes
    <3>1. PICK f \in Nodes \ DOMAIN c : Above(f) = UpTo(n)
      BY <2>4, ContainersAssumption
    <3>2. n \in Above(f)
      BY <3>1 DEF UpTo
    <3>3. Selects(p, f)
      BY <2>4, <3>2, SelectsIff
    <3>4. Selects(c, f)
      BY <1>3, <3>1, <3>3 DEF NodesOf
    <3>5. PICK m \in Above(f) \cap DOMAIN c : c[m] = Yes
      BY <3>1, <3>4, SelectsIff
    <3>6. c[m] = Obj
      BY <1>1, <2>4, <3>1, <3>5, Named DEF UpTo
    <3> QED
      BY <3>5, <3>6, ValuesAssumption
  <2>5. CASE n \in DOMAIN c /\ c[n] = Yes
    BY <1>1, <2>5, Named
  <2>6. CASE n \in DOMAIN c /\ c[n] = No
    BY <1>1, <2>3, <2>6, Named DEF Selects
  <2>7. CASE n \notin DOMAIN c
    BY <2>3, <2>7 DEF Selects, At
  <2> QED
    BY <1>1, <2>1, <2>4, <2>5, <2>6, <2>7, Named
<1>4. Contained(c, p) => NodesOf(p) \subseteq NodesOf(c)
  BY <1>2 DEF NodesOf
<1>5. NodesOf(p) \subseteq NodesOf(c) => Contained(c, p)
  BY <1>3 DEF Contained
<1> QED
  BY <1>4, <1>5

-----------------------------------------------------------------------------
(* What the middlewares do to projections *)

LEMMA SelectedIs == \A p, l : l \in Selected(p) <=> l \in Leaves /\ Selects(p, l)
BY DEF Selected

LEMMA MergeSelected ==
  ASSUME NEW p, NEW q, IsProjectionOfFields(p), IsProjectionOfFields(q)
  PROVE  /\ IsProjectionOfFields(Merge(p, q))
         /\ Selected(Merge(p, q)) = Selected(p) \cup Selected(q)
<1>1. Projection(p) /\ Projection(q)
  BY DEF IsProjectionOfFields, Projection
<1>2. \A l \in Leaves : Selects(Merge(p, q), l) <=> Selects(p, l) \/ Selects(q, l)
  BY <1>1, MergeSelects, LeavesAtTheBottom
<1>3. Projection(Merge(p, q))
  BY <1>1, MergeProjection
<1>4. ASSUME NEW l \in Leaves \cap DOMAIN Merge(p, q) PROVE Merge(p, q)[l] # Obj
  <2>1. (l \in DOMAIN p => p[l] \in {Yes, No}) /\ (l \in DOMAIN q => q[l] \in {Yes, No})
    BY <1>1, Named DEF IsProjectionOfFields
  <2>2. At(p, l) \in {Yes, No} /\ At(q, l) \in {Yes, No}
    BY <2>1 DEF At
  <2>3. Merge(p, q)[l] = Strongest({At(p, l), At(q, l)})
    BY DEF Merge
  <2> QED
    BY <2>2, <2>3, ValuesAssumption DEF Strongest
<1>5. IsProjectionOfFields(Merge(p, q))
  BY <1>3, <1>4 DEF IsProjectionOfFields, Projection
<1> QED
  BY <1>2, <1>5 DEF Selected

LEMMA EmptySelectsNothing ==
  ASSUME NEW p, IsProjectionOfFields(p), IsEmptyProjection(p)
  PROVE  Selected(p) = {}
BY SelectsIff, ValuesAssumption DEF Selected, IsEmptyProjection, IsProjectionOfFields

(* A middleware is triggered when one of its leaves is selected. *)
LEMMA TriggeredByLeaf ==
  ASSUME NEW p, IsProjectionOfFields(p), NEW m \in Middlewares
  PROVE  Intersected(p, FieldsOf[m]) <=> Outputs[m] \cap Selected(p) # {}
<1> DEFINE f == FieldsOf[m]
<1>1. IsProjectionOfFields(f) /\ LeafByLeaf(f)
  BY ProjectionsAssumption
<1>2. Projection(p) /\ Projection(f)
  BY <1>1 DEF IsProjectionOfFields, Projection
<1>3. Outputs[m] = Selected(f)
  BY DEF Outputs
<1> HIDE DEF f
<1>4. ASSUME Intersected(p, f) PROVE Selected(f) \cap Selected(p) # {}
  <2>1. PICK n \in DOMAIN p \cap DOMAIN f : No \notin {p[n], f[n]} /\ Yes \in {p[n], f[n]}
    BY <1>4 DEF Intersected
  <2>2. CASE f[n] = Yes
    <3>1. n \in Leaves
      BY <1>1, <2>1, <2>2 DEF LeafByLeaf
    <3>2. Selects(p, n) /\ Selects(f, n)
      BY <2>1, SelectsIff
    <3> QED
      BY <3>1, <3>2 DEF Selected
  <2>3. CASE f[n] = Obj /\ p[n] = Yes
    <3>1. PICK l \in Leaves \cap DOMAIN f : f[l] = Yes /\ n \in Above(l)
      BY <1>1, <2>1, <2>3 DEF LeafByLeaf
    <3>2. Selects(p, l) /\ Selects(f, l)
      BY <2>1, <2>3, <3>1, SelectsIff, ValuesAssumption
    <3> QED
      BY <3>1, <3>2 DEF Selected
  <2> QED
    BY <1>2, <2>1, <2>2, <2>3, Named
<1>5. ASSUME NEW l \in Leaves, Selects(p, l), Selects(f, l) PROVE Intersected(p, f)
  <2>1. l \in Nodes /\ l \in UpTo(l)
    BY LeavesAtTheBottom DEF UpTo
  <2>2. PICK j \in UpTo(l) \cap DOMAIN p : p[j] = Yes
    <3>1. CASE l \in DOMAIN p /\ p[l] # No
      <4>1. p[l] = Yes
        BY <1>2, <3>1, Named DEF IsProjectionOfFields
      <4> QED
        BY <2>1, <3>1, <4>1
    <3> QED
      BY <1>5, <3>1, SelectsIff DEF UpTo
  <2>3. PICK k \in UpTo(l) \cap DOMAIN f : f[k] = Yes
    <3>1. CASE l \in DOMAIN f /\ f[l] # No
      <4>1. f[l] = Yes
        BY <1>1, <1>2, <3>1, Named DEF IsProjectionOfFields
      <4> QED
        BY <2>1, <3>1, <4>1
    <3> QED
      BY <1>5, <3>1, SelectsIff DEF UpTo
  <2>4. j = k \/ j \in Above(k) \/ k \in Above(j)
    BY <2>1, AboveInLine
  <2>5. CASE j = k
    BY <2>2, <2>3, <2>5, ValuesAssumption DEF Intersected
  <2>6. CASE j \in Above(k)
    <3>1. j \in DOMAIN f /\ f[j] = Obj
      BY <1>2, <2>3, <2>6, Named
    <3> QED
      BY <2>2, <3>1, ValuesAssumption DEF Intersected
  <2>7. CASE k \in Above(j)
    <3>1. k \in DOMAIN p /\ p[k] = Obj
      BY <1>2, <2>2, <2>7, Named
    <3> QED
      BY <2>3, <3>1, ValuesAssumption DEF Intersected
  <2> QED
    BY <2>4, <2>5, <2>6, <2>7
<1>6. Intersected(p, f) <=> Selected(f) \cap Selected(p) # {}
  BY <1>4, <1>5 DEF Selected
<1> QED
  BY <1>3, <1>6 DEF f

LEMMA WithAllSelects ==
  ASSUME NEW p, IsProjectionOfFields(p), NEW K \in SUBSET Leaves
  PROVE  /\ IsProjectionOfFields(WithAll(p, K))
         /\ Selected(WithAll(p, K)) = Selected(p) \cup {k \in K : ~Excludes(p, k)}
<1> DEFINE reached == {k \in K : \A m \in Above(k) \cap DOMAIN p : p[m] = Obj}
           made == UNION {Above(k) : k \in reached}
           W == WithAll(p, K)
<1>1. Projection(p) /\ \A l \in Leaves \cap DOMAIN p : p[l] # Obj
  BY DEF IsProjectionOfFields, Projection
<1>2. reached \subseteq Leaves /\ \A k \in reached : \A m \in Above(k) \cap DOMAIN p : p[m] = Obj
  OBVIOUS
<1>3. \A m : m \in made <=> \E k \in reached : m \in Above(k)
  OBVIOUS
<1>4. /\ DOMAIN W = {m \in DOMAIN p : Above(m) \cap reached = {}} \cup made \cup reached
      /\ \A n \in DOMAIN W : W[n] = IF n \in reached THEN Yes ELSE IF n \in made THEN Obj ELSE p[n]
  <2>1. W = [n \in {m \in DOMAIN p : Above(m) \cap reached = {}} \cup made \cup reached |->
               IF n \in reached THEN Yes ELSE IF n \in made THEN Obj ELSE p[n]]
    BY DEF WithAll
  <2> HIDE DEF reached, made, W
  <2> QED
    BY <2>1
<1>5. \A k \in K : k \in reached <=> \A m \in Above(k) \cap DOMAIN p : p[m] = Obj
  OBVIOUS
<1> HIDE DEF reached, made, W
<1>6. \A l \in Leaves : l \notin made
  BY <1>2, <1>3, LeavesAtTheBottom DEF UpTo
<1>7. \A m \in made : m \in Nodes /\ Above(m) \subseteq made
  BY <1>2, <1>3, AbovePath, AboveAbove, LeavesAtTheBottom
<1>8. \A n \in DOMAIN p : Above(n) \cap reached = {}
  BY <1>1, <1>2, Named
<1>9. DOMAIN W = DOMAIN p \cup made \cup reached
  BY <1>4, <1>8
<1>10. \A n \in DOMAIN p : n \in made => p[n] = Obj
  BY <1>2, <1>3
<1>11. IsProjectionOfFields(W)
  <2>1. <<>> \in DOMAIN W
    BY <1>1, <1>9 DEF Projection, IsProjection
  <2>2. DOMAIN W \subseteq Nodes
    BY <1>1, <1>2, <1>7, <1>9, LeavesAtTheBottom DEF Projection
  <2>3. ASSUME NEW n \in DOMAIN W PROVE W[n] \in {Yes, No, Obj}
    BY <1>1, <1>4, <1>9, Named
  <2>4. ASSUME NEW n \in DOMAIN W, NEW m \in Above(n) PROVE m \in DOMAIN W /\ W[m] = Obj
    <3>1. CASE n \in DOMAIN p
      <4>1. m \in DOMAIN p /\ p[m] = Obj
        BY <1>1, <3>1, Named
      <4>2. m \notin reached
        BY <1>1, <1>2, <4>1
      <4> QED
        BY <1>4, <1>9, <4>1, <4>2
    <3>2. CASE n \in made \cup reached
      <4>1. m \in made
        BY <1>3, <1>7, <3>2
      <4>2. m \notin reached
        BY <1>2, <1>6, <4>1
      <4> QED
        BY <1>4, <1>9, <4>1, <4>2
    <3> QED
      BY <1>9, <3>1, <3>2
  <2>5. ASSUME NEW l \in Leaves \cap DOMAIN W PROVE W[l] # Obj
    BY <1>1, <1>4, <1>6, <1>9, ValuesAssumption
  <2> QED
    BY <2>1, <2>2, <2>3, <2>4, <2>5 DEF IsProjectionOfFields, IsProjection
<1>12. ASSUME NEW l \in Leaves, Selects(W, l)
       PROVE  Selects(p, l) \/ (l \in K /\ ~Excludes(p, l))
  <2>1. ASSUME NEW m \in UpTo(l) \cap DOMAIN W, W[m] # No, W[m] = Yes \/ m = l
        PROVE  (m \in DOMAIN p /\ m \notin made /\ p[m] = W[m]) \/ (m = l /\ m \in reached)
    <3>1. CASE m \in reached
      BY <1>2, <3>1, LeavesAtTheBottom
    <3>2. CASE m \in made
      BY <1>2, <1>4, <1>6, <2>1, <3>2, ValuesAssumption
    <3> QED
      BY <1>4, <1>9, <3>1, <3>2
  <2>2. l \in reached => l \in K /\ ~Excludes(p, l)
    BY <1>2, ValuesAssumption DEF Excludes, reached
  <2>3. PICK m \in UpTo(l) \cap DOMAIN W : W[m] # No /\ (W[m] = Yes \/ m = l)
    BY <1>12, SelectsIff, ValuesAssumption DEF UpTo
  <2> QED
    BY <2>1, <2>2, <2>3, SelectsIff DEF UpTo
<1>13. ASSUME NEW l \in Leaves, Selects(p, l) PROVE Selects(W, l)
  <2>1. PICK m \in UpTo(l) \cap DOMAIN p : p[m] # No /\ (p[m] = Yes \/ m = l)
    BY <1>13, SelectsIff, ValuesAssumption DEF UpTo
  <2>2. m \in DOMAIN W /\ m \notin made
    BY <1>6, <1>9, <1>10, <2>1, ValuesAssumption
  <2>3. W[m] \in {Yes, p[m]}
    BY <1>4, <2>2
  <2> QED
    BY <2>1, <2>2, <2>3, SelectsIff, ValuesAssumption DEF UpTo
<1>14. ASSUME NEW l \in K, ~Excludes(p, l) PROVE Selects(W, l)
  <2>1. CASE Covered(p, l)
    BY <2>1, <1>13, SelectsIff DEF Covered
  <2>2. CASE ~Covered(p, l)
    <3>1. \A m \in Above(l) \cap DOMAIN p : p[m] = Obj
      BY <1>1, <1>14, <2>2, Named DEF Covered, Excludes
    <3>2. l \in reached
      BY <1>5, <3>1
    <3> QED
      BY <1>4, <3>2, SelectsIff, ValuesAssumption
  <2> QED
    BY <2>1, <2>2
<1>15. Selected(W) = Selected(p) \cup {k \in K : ~Excludes(p, k)}
  BY <1>12, <1>13, <1>14 DEF Selected
<1> QED
  BY <1>11, <1>15 DEF W

LEMMA KeysInjected ==
  ASSUME NEW p \in Asked
  PROVE  /\ IsProjectionOfFields(AddNeededProjectionForRelations(p))
         /\ Selected(AddNeededProjectionForRelations(p)) =
              Selected(p) \cup {k \in KeysFor(p) : ~Excludes(p, k)}
<1>1. IsProjectionOfFields(p)
  BY ProjectionsAssumption
<1>2. KeysFor(p) \in SUBSET Leaves
  BY FieldsAssumption DEF KeysFor, Relation
<1>3. CASE IsTrue(p)
  <2>1. \A r \in Relations : ~Mentions(p, r.field)
    <3> SUFFICES ASSUME NEW r \in Relations, Mentions(p, r.field) PROVE FALSE
      OBVIOUS
    <3>1. r.field \in DOMAIN p /\ r.field \in Nodes \ {<<>>}
      BY FieldsAssumption DEF Mentions, Relation
    <3>2. <<>> \in Above(r.field)
      BY <3>1, Root
    <3>3. p[<<>>] = Obj
      BY <1>1, <3>1, <3>2 DEF IsProjectionOfFields, IsProjection
    <3> QED
      BY <1>3, <3>3, ValuesAssumption DEF IsTrue
  <2>2. KeysFor(p) = {}
    BY <2>1 DEF KeysFor
  <2> QED
    BY <1>1, <1>3, <2>2 DEF AddNeededProjectionForRelations
<1>4. CASE ~IsTrue(p)
  BY <1>1, <1>2, <1>4, WithAllSelects DEF AddNeededProjectionForRelations
<1> QED
  BY <1>3, <1>4

-----------------------------------------------------------------------------
(* The middlewares that are needed *)

LEMMA NeededHasAll == HasAllNeeded(Needed, WithKeys)
<1> SUFFICES ASSUME NEW m \in Middlewares, NEW l \in Outputs[m],
                    l \in WithKeys \cup UNION {Requires[n] : n \in Needed},
                    NEW S \in SUBSET Middlewares, HasAllNeeded(S, WithKeys)
             PROVE  m \in S
  BY DEF HasAllNeeded, Needed
<1>1. Needed \subseteq S
  BY DEF Needed
<1>2. l \in WithKeys \cup UNION {Requires[n] : n \in S}
  BY <1>1
<1> QED
  BY <1>2 DEF HasAllNeeded

LEMMA NeededIsLeast ==
  ASSUME NEW S \in SUBSET Middlewares, HasAllNeeded(S, WithKeys)
  PROVE  Needed \subseteq S
BY DEF Needed

LEMMA OutputsAre ==
  \A m \in Middlewares : Outputs[m] = Selected(FieldsOf[m]) /\ Requires[m] = Selected(RequiredOf[m])
                         /\ Outputs[m] \subseteq Leaves /\ Requires[m] \subseteq Leaves
BY DEF Outputs, Requires, Selected

LEMMA ChainIs ==
  ASSUME NEW c \in Chains
  PROVE  /\ Len(c) \in Nat /\ DOMAIN c = 1..Len(c)
         /\ \A i \in 1..Len(c) : c[i] \in Middlewares
         /\ \A m \in Middlewares : \E i \in 1..Len(c) : c[i] = m
<1>1. c \in Seq(Middlewares) /\ \A m \in Middlewares : \E i \in DOMAIN c : c[i] = m
  BY ChainsAssumption
<1> QED
  BY <1>1

-----------------------------------------------------------------------------
(* The inductive invariant *)

Typed ==
  /\ chain \in Chains /\ asked \in Asked /\ IsProjectionOfFields(projection)
  /\ pc \in {"inject", "before", "relations", "after", "done"}
  /\ at \in Nat
  /\ pc \in {"inject", "before"} => record = {}
  /\ pc = "inject" => projection = asked
  /\ pc = "before" => at \in 1..(Len(chain) + 1)
  /\ pc = "after" => at \in 0..Len(chain)
  /\ pc = "done" => at = 0

(* The middlewares whose fields are asked for in the projection. *)
AllTriggered == {m \in Middlewares : Outputs[m] \cap Selected(projection) # {}}

(* What is asked for stays asked for, and only what is needed is added. *)
AskedFor ==
  pc # "inject" =>
    /\ WithKeys \subseteq Selected(projection)
    /\ Selected(projection) \subseteq WithKeys \cup UNION {Requires[m] : m \in Needed}

(* What the middlewares that are triggered require has been added, if the  *)
(* before function has had its turn.                                       *)
RequiredAdded ==
  /\ pc = "before" => \A i \in 1..(at - 1) :
       chain[i] \in AllTriggered => Requires[chain[i]] \subseteq Selected(projection)
  /\ pc \in {"relations", "after", "done"} => \A m \in AllTriggered :
       Requires[m] \subseteq Selected(projection)

(* The record has what is stored, the relations and, on the way back, what *)
(* the middlewares at the end of the chain compute.                        *)
RecordHas ==
  /\ pc \in {"relations", "after", "done"} => Stored \cap Selected(projection) \subseteq record
  /\ pc \in {"after", "done"} =>
       /\ \A r \in Relations :
            r.key \in Selected(projection) /\ ~IsTrue(projection)
              => LeavesOf(r) \cap Selected(projection) \subseteq record
       /\ \A i \in (at + 1)..Len(chain) :
            chain[i] \in Computes \cap AllTriggered => Outputs[chain[i]] \subseteq record

RecordHasNoMore ==
  \A l \in record :
    \/ l \in Stored
    \/ \E r \in Relations : l \in LeavesOf(r)
    \/ \E m \in Computes \cap AllTriggered : l \in Outputs[m]

IInv ==
  /\ Typed /\ AskedFor /\ RecordHas /\ RecordHasNoMore
  /\ Sound => RequiredAdded /\ flawed = {}

LEMMA TriggeredIff ==
  ASSUME Typed
  PROVE  \A m \in Middlewares : Triggered(m) <=> m \in AllTriggered
BY TriggeredByLeaf DEF Typed, Triggered, AllTriggered

LEMMA TriggeredNeeded ==
  ASSUME AskedFor, pc # "inject"
  PROVE  AllTriggered \subseteq Needed
<1>1. HasAllNeeded(Needed, WithKeys)
  BY NeededHasAll
<1>2. Selected(projection) \subseteq WithKeys \cup UNION {Requires[m] : m \in Needed}
  BY DEF AskedFor
<1> HIDE DEF Needed, WithKeys
<1> QED
  BY <1>1, <1>2 DEF AllTriggered, HasAllNeeded

LEMMA Initially == Init => IInv
<1> SUFFICES ASSUME Init PROVE IInv
  OBVIOUS
<1>1. IsProjectionOfFields(asked)
  BY ProjectionsAssumption DEF Init
<1> QED
  BY <1>1 DEF Init, IInv, Typed, AskedFor, RequiredAdded, RecordHas, RecordHasNoMore

-----------------------------------------------------------------------------
(* The steps keep it *)

LEMMA SameProjection ==
  ASSUME UNCHANGED <<chain, asked, projection>>
  PROVE  /\ Selected(projection)' = Selected(projection) /\ AllTriggered' = AllTriggered
         /\ Needed' = Needed /\ WithKeys' = WithKeys /\ Sound' = Sound
BY DEF AllTriggered, Needed, WithKeys, Sound

LEMMA InjectKeeps == IInv /\ Inject => IInv'
<1> SUFFICES ASSUME IInv, Inject PROVE IInv'
  OBVIOUS
<1>1. /\ Typed /\ pc = "inject" /\ projection = asked /\ asked \in Asked /\ record = {}
      /\ projection' = AddNeededProjectionForRelations(projection)
      /\ pc' = "before" /\ at' = 1 /\ UNCHANGED <<chain, asked, record, flawed>>
  BY DEF IInv, Typed, Inject
<1>2. /\ IsProjectionOfFields(projection')
      /\ Selected(projection') = Selected(asked) \cup {k \in KeysFor(asked) : ~Excludes(asked, k)}
  BY <1>1, KeysInjected
<1>3. WithKeys' = WithKeys /\ Selected(projection') = WithKeys
  BY <1>1, <1>2 DEF WithKeys
<1>4. Selected(projection)' = Selected(projection')
  OBVIOUS
<1>5. Len(chain) \in Nat
  BY <1>1, ChainIs DEF Typed
<1>6. Typed'
  BY <1>1, <1>2, <1>5 DEF Typed
<1>7. AskedFor'
  BY <1>3, <1>4 DEF AskedFor
<1>8. RecordHas' /\ RecordHasNoMore' /\ RequiredAdded'
  BY <1>1 DEF RecordHas, RecordHasNoMore, RequiredAdded
<1>9. Sound' = Sound
  BY <1>1 DEF Sound
<1> QED
  BY <1>1, <1>6, <1>7, <1>8, <1>9 DEF IInv

LEMMA BeforeKeeps == IInv /\ Before => IInv'
<1> SUFFICES ASSUME IInv, Before PROVE IInv'
  OBVIOUS
<1> DEFINE m == chain[at]
           P == Selected(projection)
           Q == Selected(projection')
<1>1. /\ Typed /\ AskedFor /\ pc = "before" /\ at <= Len(chain)
      /\ projection' = IF Triggered(m) THEN Merge(projection, RequiredOf[m]) ELSE projection
      /\ at' = at + 1 /\ UNCHANGED <<chain, asked, pc, record, flawed>>
  BY DEF IInv, Before
<1>2. /\ Len(chain) \in Nat /\ at \in 1..Len(chain) /\ m \in Middlewares
      /\ DOMAIN chain = 1..Len(chain) /\ \A i \in 1..Len(chain) : chain[i] \in Middlewares
  BY <1>1, ChainIs DEF Typed
<1>3. IsProjectionOfFields(projection) /\ IsProjectionOfFields(RequiredOf[m])
  BY <1>1, <1>2, ProjectionsAssumption DEF Typed
<1>4. m \in AllTriggered <=> Triggered(m)
  BY <1>1, <1>2, TriggeredIff
<1>5. /\ IsProjectionOfFields(projection')
      /\ Q = IF m \in AllTriggered THEN P \cup Requires[m] ELSE P
  <2>1. /\ IsProjectionOfFields(Merge(projection, RequiredOf[m]))
        /\ Selected(Merge(projection, RequiredOf[m])) = P \cup Selected(RequiredOf[m])
    BY <1>3, MergeSelected
  <2>2. Requires[m] = Selected(RequiredOf[m])
    BY <1>2, OutputsAre
  <2>3. CASE m \in AllTriggered
    <3>1. projection' = Merge(projection, RequiredOf[m])
      BY <1>1, <1>4, <2>3
    <3> QED
      BY <2>1, <2>2, <2>3, <3>1
  <2>4. CASE m \notin AllTriggered
    <3>1. projection' = projection
      BY <1>1, <1>4, <2>4
    <3> QED
      BY <1>3, <2>4, <3>1
  <2> QED
    BY <2>3, <2>4
<1>6. WithKeys' = WithKeys /\ Needed' = Needed /\ Sound' = Sound
  BY <1>1 DEF WithKeys, Needed, Sound
<1>7. Selected(projection)' = Q /\ AllTriggered' = {n \in Middlewares : Outputs[n] \cap Q # {}}
  BY DEF AllTriggered
<1>8. AllTriggered = {n \in Middlewares : Outputs[n] \cap P # {}}
  BY DEF AllTriggered
<1>9. AllTriggered \subseteq Needed
  BY <1>1, TriggeredNeeded
<1> HIDE DEF P, Q
<1>10. Typed'
  BY <1>1, <1>2, <1>5 DEF Typed
<1>11. AskedFor'
  <2>1. WithKeys \subseteq P /\ P \subseteq WithKeys \cup UNION {Requires[n] : n \in Needed}
    BY <1>1 DEF AskedFor, P
  <2>2. WithKeys \subseteq Q /\ Q \subseteq WithKeys \cup UNION {Requires[n] : n \in Needed}
    BY <1>5, <1>9, <2>1
  <2> QED
    BY <1>6, <1>7, <2>2 DEF AskedFor
<1>12. RecordHas' /\ RecordHasNoMore'
  BY <1>1 DEF RecordHas, RecordHasNoMore, IInv, Typed
<1>13. ASSUME Sound PROVE RequiredAdded'
  <2>1. ASSUME NEW i \in 1..at, chain[i] \in AllTriggered'
        PROVE  Requires[chain[i]] \subseteq Q
    <3>1. i \in 1..Len(chain) /\ chain[i] \in Middlewares
      BY <1>2
    <3>2. CASE i = at
      BY <1>5, <1>7, <1>8, <2>1, <3>2
    <3>3. CASE i # at /\ chain[i] \in AllTriggered
      <4>1. i \in 1..(at - 1)
        BY <1>2, <3>3
      <4>2. Requires[chain[i]] \subseteq P
        BY <1>1, <1>13, <3>3, <4>1 DEF IInv, RequiredAdded, P
      <4> QED
        BY <4>2, <1>5
    <3>4. CASE i # at /\ chain[i] \notin AllTriggered
      <4>1. m \in AllTriggered /\ Requires[m] \cap Outputs[chain[i]] # {}
        BY <1>5, <1>7, <1>8, <2>1, <3>1, <3>4
      <4>2. at < i
        BY <1>2, <1>13, <3>1, <4>1 DEF Sound
      <4> QED
        BY <1>2, <4>2
    <3> QED
      BY <3>2, <3>3, <3>4
  <2>2. at' - 1 = at
    BY <1>1, <1>2
  <2> QED
    BY <1>1, <1>7, <2>1, <2>2 DEF RequiredAdded
<1> QED
  BY <1>1, <1>6, <1>10, <1>11, <1>12, <1>13 DEF IInv

LEMMA RunDriverKeeps == IInv /\ RunDriver => IInv'
<1> SUFFICES ASSUME IInv, RunDriver PROVE IInv'
  OBVIOUS
<1> DEFINE columns == IF IsEmptyProjection(projection) THEN {Id} ELSE Stored \cap Selected(projection)
<1>1. /\ Typed /\ AskedFor /\ pc = "before" /\ at > Len(chain) /\ pc' = "relations"
      /\ record' \in {columns, columns \cup {Id}, Stored}
      /\ UNCHANGED <<chain, asked, projection, at, flawed>>
  BY DEF IInv, RunDriver
<1>2. /\ Selected(projection)' = Selected(projection) /\ AllTriggered' = AllTriggered
      /\ Needed' = Needed /\ WithKeys' = WithKeys /\ Sound' = Sound
  BY <1>1, SameProjection
<1>3. Stored \cap Selected(projection) \subseteq columns /\ columns \subseteq Stored
  <2>1. IsEmptyProjection(projection) => Selected(projection) = {}
    BY <1>1, EmptySelectsNothing DEF Typed
  <2> QED
    BY <2>1, FieldsAssumption
<1>4. Stored \cap Selected(projection) \subseteq record' /\ record' \subseteq Stored
  BY <1>1, <1>3, FieldsAssumption
<1>5. Typed' /\ AskedFor'
  BY <1>1, <1>2 DEF Typed, AskedFor
<1>6. RecordHas' /\ RecordHasNoMore'
  BY <1>1, <1>2, <1>4 DEF RecordHas, RecordHasNoMore
<1>7. ASSUME Sound PROVE RequiredAdded'
  <2>1. ASSUME NEW m \in AllTriggered PROVE Requires[m] \subseteq Selected(projection)
    <3>1. Len(chain) \in Nat /\ m \in Middlewares
      BY <1>1, ChainIs DEF Typed, AllTriggered
    <3>2. PICK i \in 1..Len(chain) : chain[i] = m
      BY <1>1, <3>1, ChainIs DEF Typed
    <3>3. i \in 1..(at - 1)
      BY <1>1, <3>1 DEF Typed
    <3> QED
      BY <1>1, <1>7, <3>2, <3>3 DEF IInv, RequiredAdded
  <2> QED
    BY <1>1, <1>2, <2>1 DEF RequiredAdded
<1> QED
  BY <1>1, <1>2, <1>5, <1>6, <1>7 DEF IInv

LEMMA ResolveRelationsKeeps == IInv /\ ResolveRelations => IInv'
<1> SUFFICES ASSUME IInv, ResolveRelations PROVE IInv'
  OBVIOUS
<1> DEFINE found == IF IsTrue(projection) THEN {}
                    ELSE UNION {LeavesOf(r) \cap Selected(projection) : r \in {q \in Relations : q.key \in record}}
<1>1. /\ Typed /\ AskedFor /\ pc = "relations" /\ pc' = "after" /\ at' = Len(chain)
      /\ record' = record \cup found
      /\ UNCHANGED <<chain, asked, projection, flawed>>
  BY DEF IInv, ResolveRelations
<1>2. /\ Selected(projection)' = Selected(projection) /\ AllTriggered' = AllTriggered
      /\ Needed' = Needed /\ WithKeys' = WithKeys /\ Sound' = Sound
  BY <1>1, SameProjection
<1>3. Len(chain) \in Nat
  BY <1>1, ChainIs DEF Typed
<1>4. Typed' /\ AskedFor'
  BY <1>1, <1>2, <1>3 DEF Typed, AskedFor
<1>5. Stored \cap Selected(projection) \subseteq record
  BY <1>1 DEF IInv, RecordHas
<1>6. ASSUME NEW r \in Relations, r.key \in Selected(projection), ~IsTrue(projection)
      PROVE  LeavesOf(r) \cap Selected(projection) \subseteq record'
  <2>1. r.key \in record
    BY <1>5, <1>6, FieldsAssumption DEF Relation
  <2> QED
    BY <1>1, <1>6, <2>1
<1>7. (at' + 1)..Len(chain) = {}
  BY <1>1, <1>3
<1>8. IsTrue(projection)' = IsTrue(projection)
  BY <1>1
<1>9. RecordHas'
  BY <1>1, <1>2, <1>5, <1>6, <1>7, <1>8 DEF RecordHas
<1>10. RecordHasNoMore'
  <2>1. \A l \in found : \E r \in Relations : l \in LeavesOf(r)
    OBVIOUS
  <2> HIDE DEF found
  <2> QED
    BY <1>1, <1>2, <2>1 DEF IInv, RecordHasNoMore
<1>11. Sound => RequiredAdded'
  BY <1>1, <1>2 DEF IInv, RequiredAdded
<1> QED
  BY <1>1, <1>2, <1>4, <1>9, <1>10, <1>11 DEF IInv

(* A field is only computed when all that it requires is there: what is    *)
(* stored the driver has returned, what is computed a middleware has       *)
(* filled in that comes later in the chain.                                *)
LEMMA RequiredThere ==
  ASSUME IInv, Sound, pc = "after", at > 0, chain[at] \in AllTriggered
  PROVE  Complete(chain[at])
<1> DEFINE m == chain[at]
<1>1. /\ Typed /\ RecordHas /\ RequiredAdded /\ flawed = {}
      /\ Len(chain) \in Nat /\ DOMAIN chain = 1..Len(chain) /\ at \in 1..Len(chain) /\ m \in Middlewares
      /\ \A n \in Middlewares : \E i \in 1..Len(chain) : chain[i] = n
  BY ChainIs DEF IInv, Typed
<1>2. Requires[m] \subseteq Selected(projection) /\ Requires[m] \subseteq Leaves
  BY <1>1, OutputsAre DEF RequiredAdded
<1>3. ASSUME NEW l \in Requires[m] PROVE l \in record
  <2>1. CASE l \in Stored
    BY <1>1, <1>2, <2>1 DEF RecordHas
  <2>2. CASE \E r \in Relations : l \in LeavesOf(r)
    BY <1>1, <2>2 DEF Sound
  <2>3. CASE \E n \in Computes : l \in Outputs[n]
    <3>1. PICK n \in Computes : l \in Outputs[n]
      BY <2>3
    <3>2. n \in Middlewares /\ n \in AllTriggered
      BY <1>2, <3>1, FieldsAssumption DEF AllTriggered
    <3>3. PICK i \in 1..Len(chain) : chain[i] = n
      BY <1>1, <3>2
    <3>4. at < i
      BY <1>1, <3>1, <3>3 DEF Sound
    <3>5. i \in (at + 1)..Len(chain)
      BY <1>1, <3>4
    <3> QED
      BY <1>1, <3>1, <3>2, <3>3, <3>5 DEF RecordHas
  <2> QED
    BY <1>2, <2>1, <2>2, <2>3, FieldsAssumption
<1> QED
  BY <1>1, <1>3 DEF Complete

LEMMA AfterKeeps == IInv /\ After => IInv'
<1> SUFFICES ASSUME IInv, After PROVE IInv'
  OBVIOUS
<1> DEFINE m == chain[at]
<1>1. /\ Typed /\ AskedFor /\ RecordHas /\ RecordHasNoMore /\ pc = "after" /\ at > 0 /\ at' = at - 1
      /\ IF m \in Computes /\ Triggered(m)
         THEN /\ record' = Filled(m)
              /\ flawed' = IF Complete(m) THEN flawed \ Outputs[m] ELSE flawed \cup Outputs[m]
         ELSE UNCHANGED <<record, flawed>>
      /\ UNCHANGED <<chain, asked, projection, pc>>
  BY DEF IInv, After
<1>2. /\ Selected(projection)' = Selected(projection) /\ AllTriggered' = AllTriggered
      /\ Needed' = Needed /\ WithKeys' = WithKeys /\ Sound' = Sound
      /\ IsTrue(projection)' = IsTrue(projection)
  BY <1>1, SameProjection
<1>3. /\ Len(chain) \in Nat /\ at \in 1..Len(chain) /\ m \in Middlewares
  BY <1>1, ChainIs DEF Typed
<1>4. m \in AllTriggered <=> Triggered(m)
  BY <1>1, <1>3, TriggeredIff
<1>5. record' = IF m \in Computes \cap AllTriggered THEN record \cup Outputs[m] ELSE record
  BY <1>1, <1>4 DEF Filled
<1>6. Typed' /\ AskedFor'
  BY <1>1, <1>2, <1>3 DEF Typed, AskedFor
<1>7. RecordHas'
  <2>1. ASSUME NEW i \in (at' + 1)..Len(chain), chain[i] \in Computes \cap AllTriggered
        PROVE  Outputs[chain[i]] \subseteq record'
    <3>1. i = at \/ i \in (at + 1)..Len(chain)
      BY <1>1, <1>3
    <3> QED
      BY <1>1, <1>5, <2>1, <3>1 DEF RecordHas
  <2> QED
    BY <1>1, <1>2, <1>5, <2>1 DEF RecordHas
<1>8. RecordHasNoMore'
  BY <1>1, <1>2, <1>5 DEF RecordHasNoMore
<1>9. ASSUME Sound PROVE RequiredAdded' /\ flawed' = {}
  <2>1. RequiredAdded /\ flawed = {}
    BY <1>9 DEF IInv
  <2>2. m \in AllTriggered => Complete(m)
    BY <1>1, <1>9, RequiredThere
  <2> QED
    BY <1>1, <1>2, <1>4, <2>1, <2>2 DEF RequiredAdded
<1> QED
  BY <1>2, <1>6, <1>7, <1>8, <1>9 DEF IInv

LEMMA ReturnKeeps == IInv /\ Return => IInv'
<1> SUFFICES ASSUME IInv, Return PROVE IInv'
  OBVIOUS
<1>1. /\ Typed /\ pc = "after" /\ at = 0 /\ pc' = "done"
      /\ UNCHANGED <<chain, asked, projection, at, record, flawed>>
  BY DEF IInv, Return
<1>2. /\ Selected(projection)' = Selected(projection) /\ AllTriggered' = AllTriggered
      /\ Needed' = Needed /\ WithKeys' = WithKeys /\ Sound' = Sound
      /\ IsTrue(projection)' = IsTrue(projection)
  BY <1>1, SameProjection
<1> QED
  BY <1>1, <1>2 DEF IInv, Typed, AskedFor, RequiredAdded, RecordHas, RecordHasNoMore

(* A find keeps the invariant: its projection grows by what is needed, and *)
(* its record, in the opposite order, by what the projection asks for.     *)
THEOREM FieldsInvariant == Spec => []IInv
<1>1. IInv /\ UNCHANGED vars => IInv'
  <2> SUFFICES ASSUME IInv, UNCHANGED vars PROVE IInv'
    OBVIOUS
  <2>1. UNCHANGED <<chain, asked, projection, pc, at, record, flawed>>
    BY DEF vars
  <2>2. /\ Selected(projection)' = Selected(projection) /\ AllTriggered' = AllTriggered
        /\ Needed' = Needed /\ WithKeys' = WithKeys /\ Sound' = Sound
        /\ IsTrue(projection)' = IsTrue(projection)
    BY <2>1, SameProjection
  <2> QED
    BY <2>1, <2>2 DEF IInv, Typed, AskedFor, RequiredAdded, RecordHas, RecordHasNoMore
<1>2. IInv /\ [Next]_vars => IInv'
  BY <1>1, InjectKeeps, BeforeKeeps, RunDriverKeeps, ResolveRelationsKeeps, AfterKeeps, ReturnKeeps
     DEF Next
<1> QED
  BY <1>2, Initially, PTL DEF Spec

(* In the order the library leaves to its user, whatever the caller asks   *)
(* for, no field is computed from a record that lacks what it requires.    *)
THEOREM AlwaysComputedFromComplete == Spec => []ComputedFromComplete
<1>1. IInv => ComputedFromComplete
  BY DEF IInv, ComputedFromComplete
<1> QED
  BY <1>1, FieldsInvariant, PTL

(* The caller gets the stored, the related and the computed fields it has  *)
(* asked for.                                                              *)
THEOREM AlwaysAnswerComplete == Spec => []AnswerComplete
<1>1. IInv => AnswerComplete
  <2> SUFFICES ASSUME IInv, pc = "done", NEW l \in Selected(asked) PROVE Answered(l)
    BY DEF AnswerComplete
  <2>1. Typed /\ RecordHas /\ AskedFor /\ at = 0
    BY DEF IInv, Typed
  <2>2. l \in Selected(projection) /\ l \in Leaves
    BY <2>1 DEF AskedFor, WithKeys, Selected
  <2>3. CASE l \in Stored
    BY <2>1, <2>2, <2>3 DEF RecordHas, Answered
  <2>4. CASE \E r \in Relations : l \in LeavesOf(r)
    <3>1. PICK r \in Relations : l \in LeavesOf(r)
      BY <2>4
    <3>2. ASSUME Followed(r) PROVE l \in record
      <4>1. r.key \in WithKeys /\ ~IsTrue(projection)
        BY <3>2 DEF Followed, WithKeys, KeysFor
      <4>2. r.key \in Selected(projection)
        BY <2>1, <4>1 DEF AskedFor
      <4> QED
        BY <2>1, <2>2, <3>1, <4>1, <4>2 DEF RecordHas
    <3> QED
      BY <3>1, <3>2 DEF Answered
  <2>5. CASE \E m \in Computes : l \in Outputs[m]
    <3>1. PICK m \in Computes : l \in Outputs[m]
      BY <2>5
    <3>2. m \in Middlewares /\ m \in AllTriggered
      BY <2>2, <3>1, FieldsAssumption DEF AllTriggered
    <3>3. PICK i \in 1..Len(chain) : chain[i] = m
      BY <2>1, <3>2, ChainIs DEF Typed
    <3>4. i \in (at + 1)..Len(chain)
      BY <2>1, <3>3
    <3> QED
      BY <2>1, <3>1, <3>2, <3>3, <3>4 DEF RecordHas, Answered
  <2> QED
    BY <2>2, <2>3, <2>4, <2>5, FieldsAssumption
<1> QED
  BY <1>1, FieldsInvariant, PTL

(* The driver is asked for exactly what is needed, in one pass over the    *)
(* middlewares, and no field is computed that is not needed.               *)
THEOREM AlwaysOnlyTheNeeded == Spec => []OnlyTheNeeded
<1>1. IInv => OnlyTheNeeded
  <2> SUFFICES ASSUME IInv, Sound PROVE OnlyTheNeeded
    BY DEF OnlyTheNeeded
  <2>1. Typed /\ AskedFor /\ RequiredAdded /\ RecordHasNoMore
    BY DEF IInv
  <2>2. ASSUME pc = "relations"
        PROVE  Selected(projection) = WithKeys \cup UNION {Requires[m] : m \in Needed}
    <3> DEFINE P == Selected(projection)
               T == AllTriggered
    <3>1. /\ WithKeys \subseteq P /\ P \subseteq WithKeys \cup UNION {Requires[m] : m \in Needed}
          /\ \A m \in T : Requires[m] \subseteq P
      BY <2>1, <2>2 DEF AskedFor, RequiredAdded
    <3>2. T \in SUBSET Middlewares /\ \A m \in Middlewares : Outputs[m] \cap P # {} => m \in T
      BY DEF AllTriggered
    <3>3. HasAllNeeded(T, WithKeys)
      <4> HIDE DEF P, T
      <4> QED
        BY <3>1, <3>2 DEF HasAllNeeded
    <3>4. Needed \subseteq T
      BY <3>2, <3>3, NeededIsLeast
    <3> HIDE DEF P, T
    <3>5. P = WithKeys \cup UNION {Requires[m] : m \in Needed}
      BY <3>1, <3>4
    <3> QED
      BY <3>5 DEF P
  <2>3. ASSUME NEW l \in record, NEW n \in Computes, l \in Outputs[n]
        PROVE  \E m \in Needed : l \in Outputs[m]
    <3>1. l \notin Stored /\ ~\E r \in Relations : l \in LeavesOf(r)
      BY <2>3, FieldsAssumption
    <3>2. PICK m \in Computes \cap AllTriggered : l \in Outputs[m]
      BY <2>1, <3>1 DEF RecordHasNoMore
    <3>3. pc # "inject"
      BY <2>1, <2>3 DEF Typed
    <3> QED
      BY <2>1, <3>2, <3>3, TriggeredNeeded
  <2> QED
    BY <2>2, <2>3 DEF OnlyTheNeeded
<1> QED
  BY <1>1, FieldsInvariant, PTL

(* To merge, intersect and compare projections is to unite, intersect and  *)
(* compare the sets of nodes they select.                                  *)
THEOREM AlwaysTreesAreSets == Spec => []TreesAreSets
<1>1. IInv => TreesAreSets
  <2> SUFFICES ASSUME IInv, NoExclusion(projection), NEW c \in Containers
               PROVE  /\ Contained(c, projection) <=> NodesOf(projection) \subseteq NodesOf(c)
                      /\ NodesOf(Merge(c, projection)) = NodesOf(c) \cup NodesOf(projection)
                      /\ NodesOf(Intersect(c, projection)) = NodesOf(c) \cap NodesOf(projection)
    BY DEF TreesAreSets
  <2>1. Projection(c) /\ Projection(projection)
    BY ProjectionsAssumption DEF IInv, Typed, IsProjectionOfFields, Projection
  <2>2. Contained(c, projection) <=> NodesOf(projection) \subseteq NodesOf(c)
    BY <2>1, ContainedIsInclusion
  <2>3. NodesOf(Merge(c, projection)) = NodesOf(c) \cup NodesOf(projection)
    BY <2>1, MergeSelects DEF NodesOf
  <2>4. NodesOf(Intersect(c, projection)) = NodesOf(c) \cap NodesOf(projection)
    BY <2>1, IntersectSelects DEF NodesOf
  <2> QED
    BY <2>2, <2>3, <2>4
<1> QED
  BY <1>1, FieldsInvariant, PTL

-----------------------------------------------------------------------------
(* Projections are trees                                                   *)
(*                                                                         *)
(* The operators on paths satisfy the equations by which the code recurs   *)
(* on objects, for all projections with any names of fields.  Of(p, k) is  *)
(* what the object p has at its key k, and by SameTree the value of a      *)
(* projection, its keys and what it has at each are all of it.             *)

(* Projections of fields with steps in Steps. *)
Trees == {p \in UNION {[D -> {Yes, No, Obj}] : D \in SUBSET Seq(Steps)} : IsProjection(p)}

(* The tree of a projection: its value at the root, the fields it names if *)
(* that is an object, and what it says of one of them.                     *)
Whole(value) == [n \in {<<>>} |-> value]
Fields(p) == {Head(n) : n \in DOMAIN p \ {<<>>}}
Of(p, k) == [m \in {Tail(n) : n \in {x \in DOMAIN p \ {<<>>} : Head(x) = k}} |-> p[<<k>> \o m]]

LEMMA Down ==
  ASSUME NEW k \in Steps, NEW n \in Seq(Steps)
  PROVE  LET x == <<k>> \o n IN
         x \in Seq(Steps) /\ x # <<>> /\ Head(x) = k /\ Tail(x) = n /\ Len(x) = Len(n) + 1
<1>1. <<k>> \in Seq(Steps) /\ Len(<<k>>) = 1 /\ <<k>>[1] = k
  OBVIOUS
<1>2. /\ <<k>> \o n \in Seq(Steps) /\ Len(<<k>> \o n) = Len(n) + 1
      /\ \A i \in 1..(Len(n) + 1) : (<<k>> \o n)[i] = IF i = 1 THEN k ELSE n[i - 1]
  BY <1>1
<1>3. Tail(<<k>> \o n) = n
  BY <1>2
<1> QED
  BY <1>2, <1>3

LEMMA SplitPath ==
  ASSUME NEW n \in Seq(Steps), n # <<>>
  PROVE  Head(n) \in Steps /\ Tail(n) \in Seq(Steps) /\ n = <<Head(n)>> \o Tail(n)
<1>1. Len(n) \in Nat /\ Len(n) # 0
  OBVIOUS
<1>2. Head(n) \in Steps /\ Tail(n) \in Seq(Steps) /\ Len(Tail(n)) = Len(n) - 1
  BY <1>1
<1>3. \A i \in 1..(Len(n) - 1) : Tail(n)[i] = n[i + 1]
  BY <1>1
<1>4. /\ <<Head(n)>> \o Tail(n) \in Seq(Steps) /\ Len(<<Head(n)>> \o Tail(n)) = Len(n)
      /\ \A i \in 1..Len(n) : (<<Head(n)>> \o Tail(n))[i] = n[i]
  BY <1>1, <1>2, <1>3
<1>5. n = [i \in 1..Len(n) |-> n[i]] /\ <<Head(n)>> \o Tail(n) = [i \in 1..Len(n) |-> (<<Head(n)>> \o Tail(n))[i]]
  BY <1>4
<1> QED
  BY <1>2, <1>4, <1>5

(* The prefixes of a path that begins with k. *)
LEMMA AboveDown ==
  ASSUME NEW k \in Steps, NEW n \in Seq(Steps)
  PROVE  Above(<<k>> \o n) = {<<>>} \cup {<<k>> \o m : m \in Above(n)}
<1> DEFINE x == <<k>> \o n
<1>1. /\ x \in Seq(Steps) /\ Len(x) = Len(n) + 1 /\ Len(n) \in Nat
      /\ \A i \in 1..(Len(n) + 1) : x[i] = IF i = 1 THEN k ELSE n[i - 1]
  OBVIOUS
<1>2. SubSeq(x, 1, 0) = <<>>
  BY <1>1, SubSeqProperties, EmptySeq
<1>3. ASSUME NEW i \in 0..(Len(n) - 1) PROVE SubSeq(x, 1, i + 1) = <<k>> \o SubSeq(n, 1, i)
  <2>1. i \in Nat /\ i <= Len(n)
    BY <1>1
  <2>2. /\ SubSeq(n, 1, i) \in Seq(Steps) /\ Len(SubSeq(n, 1, i)) = i
        /\ \A j \in 1..i : SubSeq(n, 1, i)[j] = n[j]
    BY <1>1, <2>1
  <2>3. /\ SubSeq(x, 1, i + 1) \in Seq(Steps) /\ Len(SubSeq(x, 1, i + 1)) = i + 1
        /\ \A j \in 1..(i + 1) : SubSeq(x, 1, i + 1)[j] = x[j]
    BY <1>1, <2>1
  <2> DEFINE y == <<k>> \o SubSeq(n, 1, i)
             z == SubSeq(x, 1, i + 1)
  <2>4. /\ y \in Seq(Steps) /\ Len(y) = i + 1
        /\ \A j \in 1..(i + 1) : y[j] = IF j = 1 THEN k ELSE n[j - 1]
    BY <2>1, <2>2
  <2>5. \A j \in 1..(i + 1) : y[j] = z[j]
    BY <1>1, <2>1, <2>3, <2>4
  <2>6. y = [j \in 1..(i + 1) |-> y[j]] /\ z = [j \in 1..(i + 1) |-> z[j]]
    BY <2>3, <2>4
  <2> HIDE DEF y, z
  <2>7. y = z
    BY <2>5, <2>6
  <2> QED
    BY <2>7 DEF y, z
<1> HIDE DEF x
<1>4. ASSUME NEW m \in Above(x) PROVE m \in {<<>>} \cup {<<k>> \o u : u \in Above(n)}
  <2>1. PICK i \in 0..Len(n) : m = SubSeq(x, 1, i)
    BY <1>1 DEF Above
  <2>2. CASE i = 0
    BY <1>2, <2>1, <2>2
  <2>3. CASE i # 0
    <3>1. i - 1 \in 0..(Len(n) - 1) /\ i = (i - 1) + 1
      BY <1>1, <2>3
    <3>2. m = <<k>> \o SubSeq(n, 1, i - 1)
      BY <1>3, <2>1, <3>1
    <3> QED
      BY <3>1, <3>2 DEF Above
  <2> QED
    BY <2>2, <2>3
<1>5. <<>> \in Above(x)
  <2>1. 0 \in 0..(Len(x) - 1)
    BY <1>1
  <2> QED
    BY <1>2, <2>1 DEF Above
<1>6. ASSUME NEW m \in Above(n) PROVE <<k>> \o m \in Above(x)
  <2>1. PICK i \in 0..(Len(n) - 1) : m = SubSeq(n, 1, i)
    BY DEF Above
  <2>2. i + 1 \in 0..(Len(x) - 1)
    BY <1>1
  <2>3. <<k>> \o m = SubSeq(x, 1, i + 1)
    BY <1>3, <2>1
  <2> QED
    BY <2>2, <2>3 DEF Above
<1> QED
  BY <1>4, <1>5, <1>6 DEF x

LEMMA AboveIn ==
  ASSUME NEW n \in Seq(Steps)
  PROVE  Above(n) \subseteq Seq(Steps)
<1> SUFFICES ASSUME NEW i \in 0..(Len(n) - 1) PROVE SubSeq(n, 1, i) \in Seq(Steps)
  BY DEF Above
<1>1. Len(n) \in Nat /\ i \in Nat /\ i <= Len(n)
  OBVIOUS
<1> QED
  BY <1>1

LEMMA AboveRoot == Above(<<>>) = {}
BY DEF Above
LEMMA Shape ==
  ASSUME NEW p \in Trees
  PROVE  /\ DOMAIN p \subseteq Seq(Steps) /\ <<>> \in DOMAIN p
         /\ \A n \in DOMAIN p : p[n] \in {Yes, No, Obj} /\ \A m \in Above(n) : m \in DOMAIN p /\ p[m] = Obj
<1>1. PICK D \in SUBSET Seq(Steps) : p \in [D -> {Yes, No, Obj}]
  BY DEF Trees
<1>2. DOMAIN p = D
  BY <1>1
<1>3. IsProjection(p)
  BY DEF Trees
<1> QED
  BY <1>2, <1>3 DEF IsProjection

LEMMA AFunction ==
  ASSUME NEW p \in Trees
  PROVE  p = [n \in DOMAIN p |-> p[n]]
<1>1. PICK D \in SUBSET Seq(Steps) : p \in [D -> {Yes, No, Obj}]
  BY DEF Trees
<1> QED
  BY <1>1

LEMMA RootAbove ==
  ASSUME NEW n \in Seq(Steps), n # <<>>
  PROVE  <<>> \in Above(n)
<1>1. Head(n) \in Steps /\ Tail(n) \in Seq(Steps) /\ n = <<Head(n)>> \o Tail(n)
  BY SplitPath
<1>2. Above(<<Head(n)>> \o Tail(n)) = {<<>>} \cup {<<Head(n)>> \o m : m \in Above(Tail(n))}
  BY <1>1, AboveDown
<1> QED
  BY <1>1, <1>2

LEMMA FieldsAre ==
  ASSUME NEW p \in Trees
  PROVE  /\ Fields(p) \subseteq Steps
         /\ \A k \in Steps : k \in Fields(p) <=> <<k>> \in DOMAIN p
         /\ p[<<>>] # Obj => DOMAIN p = {<<>>} /\ Fields(p) = {} /\ p = Whole(p[<<>>])
<1>1. ASSUME NEW n \in DOMAIN p, n # <<>>
      PROVE  Head(n) \in Steps /\ <<Head(n)>> \in DOMAIN p /\ p[<<>>] = Obj
  <2>1. Head(n) \in Steps /\ Tail(n) \in Seq(Steps) /\ n = <<Head(n)>> \o Tail(n)
    BY <1>1, Shape, SplitPath
  <2>2. Above(n) = {<<>>} \cup {<<Head(n)>> \o m : m \in Above(Tail(n))}
    BY <2>1, AboveDown
  <2>3. <<Head(n)>> \o <<>> = <<Head(n)>>
    BY <2>1
  <2>4. CASE Tail(n) = <<>>
    BY <2>1, <2>2, <2>3, <2>4, Shape
  <2>5. CASE Tail(n) # <<>>
    <3>1. <<>> \in Above(Tail(n))
      BY <2>1, <2>5, RootAbove
    <3>2. <<Head(n)>> \in Above(n)
      BY <2>2, <2>3, <3>1
    <3> QED
      BY <2>1, <2>2, <3>2, Shape
  <2> QED
    BY <2>4, <2>5
<1>2. ASSUME NEW k \in Steps, <<k>> \in DOMAIN p PROVE k \in Fields(p)
  <2>1. <<k>> # <<>> /\ Head(<<k>>) = k
    OBVIOUS
  <2> QED
    BY <1>2, <2>1 DEF Fields
<1>3. Fields(p) \subseteq Steps /\ \A k \in Fields(p) : <<k>> \in DOMAIN p
  BY <1>1 DEF Fields
<1>4. ASSUME p[<<>>] # Obj PROVE DOMAIN p = {<<>>} /\ Fields(p) = {} /\ p = Whole(p[<<>>])
  <2>1. \A n \in DOMAIN p : n = <<>>
    BY <1>1, <1>4
  <2>2. <<>> \in DOMAIN p
    BY Shape
  <2>3. DOMAIN p = {<<>>}
    BY <2>1, <2>2
  <2> QED
    BY <2>3, AFunction DEF Fields, Whole
<1> QED
  BY <1>2, <1>3, <1>4

LEMMA OfNames ==
  ASSUME NEW p, DOMAIN p \subseteq Seq(Steps), NEW k \in Steps
  PROVE  /\ DOMAIN Of(p, k) = {m \in Seq(Steps) : <<k>> \o m \in DOMAIN p}
         /\ \A m \in DOMAIN Of(p, k) : Of(p, k)[m] = p[<<k>> \o m]
<1>1. ASSUME NEW m, m \in DOMAIN Of(p, k) PROVE m \in Seq(Steps) /\ <<k>> \o m \in DOMAIN p
  <2>1. PICK x \in DOMAIN p \ {<<>>} : Head(x) = k /\ m = Tail(x)
    BY <1>1 DEF Of
  <2>2. x \in Seq(Steps)
    OBVIOUS
  <2> QED
    BY <2>1, <2>2, SplitPath
<1>2. ASSUME NEW m \in Seq(Steps), <<k>> \o m \in DOMAIN p PROVE m \in DOMAIN Of(p, k)
  <2>1. <<k>> \o m # <<>> /\ Head(<<k>> \o m) = k /\ Tail(<<k>> \o m) = m
    BY Down
  <2> QED
    BY <1>2, <2>1 DEF Of
<1>3. DOMAIN Of(p, k) = {m \in Seq(Steps) : <<k>> \o m \in DOMAIN p}
  BY <1>1, <1>2
<1> QED
  BY <1>3 DEF Of

LEMMA OfIs ==
  ASSUME NEW p \in Trees, NEW k \in Steps
  PROVE  /\ DOMAIN Of(p, k) = {m \in Seq(Steps) : <<k>> \o m \in DOMAIN p}
         /\ \A m \in DOMAIN Of(p, k) : Of(p, k)[m] = p[<<k>> \o m]
BY Shape, OfNames

LEMMA OfFunction ==
  ASSUME NEW p, NEW k
  PROVE  Of(p, k) = [m \in DOMAIN Of(p, k) |-> p[<<k>> \o m]]
BY DEF Of

LEMMA OfProjection ==
  ASSUME NEW p \in Trees, NEW k \in Fields(p)
  PROVE  /\ k \in Steps /\ p[<<>>] = Obj /\ Of(p, k) \in Trees
         /\ Of(p, k)[<<>>] = p[<<k>>] /\ <<k>> \in DOMAIN p
<1>1. k \in Steps /\ <<k>> \in DOMAIN p /\ p[<<>>] = Obj
  BY FieldsAre
<1>2. <<k>> \o <<>> = <<k>> /\ <<>> \in Seq(Steps)
  BY <1>1, EmptySeq
<1>3. <<>> \in DOMAIN Of(p, k) /\ Of(p, k)[<<>>] = p[<<k>>]
  <2>1. PICK e : e = <<>>
    OBVIOUS
  <2>2. e \in Seq(Steps) /\ <<k>> \o e = <<k>>
    BY <1>2, <2>1
  <2>3. e \in DOMAIN Of(p, k) /\ Of(p, k)[e] = p[<<k>>]
    BY <1>1, <2>2, OfIs
  <2> QED
    BY <2>1, <2>3
<1>4. ASSUME NEW n \in DOMAIN Of(p, k)
      PROVE  /\ n \in Seq(Steps) /\ Of(p, k)[n] \in {Yes, No, Obj}
             /\ \A m \in Above(n) : m \in DOMAIN Of(p, k) /\ Of(p, k)[m] = Obj
  <2>1. n \in Seq(Steps) /\ <<k>> \o n \in DOMAIN p /\ Of(p, k)[n] = p[<<k>> \o n]
    BY <1>1, OfIs
  <2>2. \A m \in Above(n) : <<k>> \o m \in Above(<<k>> \o n) /\ m \in Seq(Steps)
    BY <1>1, <2>1, AboveDown, AboveIn
  <2>3. \A m \in Above(n) : <<k>> \o m \in DOMAIN p /\ p[<<k>> \o m] = Obj
    BY <2>1, <2>2, Shape
  <2>4. p[<<k>> \o n] \in {Yes, No, Obj}
    BY <2>1, Shape
  <2> QED
    BY <1>1, <2>1, <2>2, <2>3, <2>4, OfIs
<1>5. IsProjection(Of(p, k)) /\ DOMAIN Of(p, k) \in SUBSET Seq(Steps)
  BY <1>3, <1>4 DEF IsProjection
<1>6. Of(p, k) \in [DOMAIN Of(p, k) -> {Yes, No, Obj}]
  <2>1. \A m \in DOMAIN Of(p, k) : p[<<k>> \o m] \in {Yes, No, Obj}
    BY <1>1, <1>4, OfIs
  <2> QED
    BY <2>1, OfFunction
<1> QED
  BY <1>1, <1>3, <1>5, <1>6 DEF Trees

(* A path below an object reads what the field has.                        *)
LEMMA AtDown ==
  ASSUME NEW p \in Trees, p[<<>>] = Obj, NEW k \in Steps, NEW n \in Seq(Steps)
  PROVE  /\ <<k>> \o n \in DOMAIN p <=> n \in DOMAIN Of(p, k)
         /\ Covered(p, <<k>> \o n) <=> Covered(Of(p, k), n)
         /\ Excludes(p, <<k>> \o n) <=> Excludes(Of(p, k), n)
         /\ At(p, <<k>> \o n) = At(Of(p, k), n)
<1>1. DOMAIN Of(p, k) = {m \in Seq(Steps) : <<k>> \o m \in DOMAIN p} /\ \A m \in DOMAIN Of(p, k) : Of(p, k)[m] = p[<<k>> \o m]
  BY OfIs
<1>2. Above(<<k>> \o n) = {<<>>} \cup {<<k>> \o m : m \in Above(n)} /\ Above(n) \subseteq Seq(Steps)
  BY AboveDown, AboveIn
<1>3. ASSUME NEW v, v # Obj
      PROVE  (\E m \in Above(<<k>> \o n) \cap DOMAIN p : p[m] = v)
               <=> \E m \in Above(n) \cap DOMAIN Of(p, k) : Of(p, k)[m] = v
  BY <1>1, <1>2, <1>3
<1>4. Covered(p, <<k>> \o n) <=> Covered(Of(p, k), n)
  BY <1>3, ValuesAssumption DEF Covered
<1>5. Excludes(p, <<k>> \o n) <=> Excludes(Of(p, k), n)
  BY <1>3, ValuesAssumption DEF Excludes
<1> QED
  BY <1>1, <1>4, <1>5 DEF At

LEMMA StrongestIs ==
  /\ \A v \in {Yes, No, Obj} : Strongest({Yes, v}) = Yes /\ Strongest({v, Yes}) = Yes
  /\ \A v \in {Yes, No, Obj} : Strongest({No, v}) = v /\ Strongest({v, No}) = v
  /\ Strongest({Obj, Obj}) = Obj
BY ValuesAssumption DEF Strongest

LEMMA WeakestIs ==
  /\ \A v \in {Yes, No, Obj} : Weakest({No, v}) = No /\ Weakest({v, No}) = No
  /\ \A v \in {Yes, No, Obj} : Weakest({Yes, v}) = v /\ Weakest({v, Yes}) = v
  /\ Weakest({Obj, Obj}) = Obj
BY ValuesAssumption DEF Weakest

(* What a projection has at its own names and at others.                   *)
LEMMA AtNamed ==
  ASSUME NEW p \in Trees
  PROVE  /\ \A n \in DOMAIN p : n \in Seq(Steps) /\ ~Covered(p, n) /\ At(p, n) = p[n] /\ p[n] \in {Yes, No, Obj}
         /\ p[<<>>] = Yes => \A n \in Seq(Steps) : n # <<>> => Covered(p, n)
         /\ p[<<>>] # Obj => \A n \in Seq(Steps) : At(p, n) = p[<<>>]
<1>1. ASSUME NEW n \in DOMAIN p PROVE n \in Seq(Steps) /\ ~Covered(p, n) /\ At(p, n) = p[n] /\ p[n] \in {Yes, No, Obj}
  <2>1. ~Covered(p, n)
    BY Shape, ValuesAssumption DEF Covered
  <2> QED
    BY <2>1, Shape DEF At
<1>2. ASSUME p[<<>>] = Yes, NEW n \in Seq(Steps), n # <<>> PROVE Covered(p, n)
  BY <1>2, Shape, RootAbove DEF Covered
<1>3. ASSUME p[<<>>] # Obj, NEW n \in Seq(Steps) PROVE At(p, n) = p[<<>>]
  <2>1. DOMAIN p = {<<>>} /\ p[<<>>] \in {Yes, No, Obj} /\ <<>> \in DOMAIN p
    BY <1>3, FieldsAre, Shape
  <2>2. CASE n = <<>>
    BY <1>1, <2>1, <2>2
  <2>3. CASE n # <<>>
    <3>1. <<>> \in Above(n)
      BY <2>3, RootAbove
    <3>2. Covered(p, n) <=> p[<<>>] = Yes
      BY <2>1, <3>1 DEF Covered
    <3> QED
      BY <1>3, <2>1, <2>3, <3>2 DEF At
  <2> QED
    BY <2>2, <2>3
<1> QED
  BY <1>1, <1>2, <1>3

LEMMA AboveStep ==
  ASSUME NEW k \in Steps
  PROVE  Above(<<k>>) = {<<>>}
<1>1. PICK e : e = <<>>
  OBVIOUS
<1>2. e \in Seq(Steps) /\ <<k>> \o e = <<k>> /\ Above(e) = {}
  BY <1>1, EmptySeq, AboveRoot
<1>3. Above(<<k>> \o e) = {<<>>} \cup {<<k>> \o m : m \in Above(e)}
  BY <1>2, AboveDown
<1> QED
  BY <1>2, <1>3

LEMMA NotCovered ==
  ASSUME NEW p \in Trees, p[<<>>] = Obj, NEW k \in Steps
  PROVE  ~Covered(p, <<k>>)
<1>1. Above(<<k>>) = {<<>>}
  BY AboveStep
<1> QED
  BY <1>1, ValuesAssumption DEF Covered

LEMMA MergeIs ==
  ASSUME NEW p, NEW q
  PROVE  /\ DOMAIN Merge(p, q) = {m \in DOMAIN p \cup DOMAIN q : ~Covered(p, m) /\ ~Covered(q, m)}
         /\ \A n \in DOMAIN Merge(p, q) : Merge(p, q)[n] = Strongest({At(p, n), At(q, n)})
BY DEF Merge

LEMMA MergeFunction ==
  ASSUME NEW p, NEW q
  PROVE  Merge(p, q) = [n \in DOMAIN Merge(p, q) |-> Merge(p, q)[n]]
BY DEF Merge

(* A projection that has no field and nothing at its root, or false there. *)
Nothing(e) == \A n \in Seq(Steps) : ~Covered(e, n) /\ At(e, n) = No

LEMMA MergeNothing ==
  ASSUME NEW p, NEW q \in Trees, Nothing(p), DOMAIN p \subseteq {<<>>}, DOMAIN p = {} \/ <<>> \in DOMAIN q
  PROVE  Merge(p, q) = q /\ Merge(q, p) = q
<1>1. \A n \in DOMAIN q : n \in Seq(Steps) /\ ~Covered(q, n) /\ At(q, n) = q[n] /\ q[n] \in {Yes, No, Obj}
  BY AtNamed
<1>2. \A n \in DOMAIN q : ~Covered(p, n) /\ At(p, n) = No
  BY <1>1 DEF Nothing
<1>3. DOMAIN p \cup DOMAIN q = DOMAIN q /\ DOMAIN q \cup DOMAIN p = DOMAIN q
  OBVIOUS
<1>4. DOMAIN Merge(p, q) = DOMAIN q /\ DOMAIN Merge(q, p) = DOMAIN q
  BY <1>1, <1>2, <1>3 DEF Merge
<1>5. \A n \in DOMAIN q : Merge(p, q)[n] = q[n] /\ Merge(q, p)[n] = q[n]
  <2>1. \A n \in DOMAIN q : /\ Merge(p, q)[n] = Strongest({At(p, n), At(q, n)})
                            /\ Merge(q, p)[n] = Strongest({At(q, n), At(p, n)})
    BY <1>1, <1>2, <1>3 DEF Merge
  <2> QED
    BY <1>1, <1>2, <2>1, StrongestIs
<1> QED
  BY <1>4, <1>5, MergeFunction, AFunction

LEMMA FalseIsNothing ==
  ASSUME NEW p \in Trees, p[<<>>] = No
  PROVE  Nothing(p) /\ DOMAIN p \subseteq {<<>>}
<1>1. DOMAIN p = {<<>>}
  BY ValuesAssumption, FieldsAre
<1>2. \A n \in Seq(Steps) : ~Covered(p, n)
  BY <1>1, ValuesAssumption DEF Covered
<1>3. \A n \in Seq(Steps) : At(p, n) = No
  BY AtNamed, ValuesAssumption
<1> QED
  BY <1>1, <1>2, <1>3 DEF Nothing

LEMMA NoFieldIsNothing ==
  ASSUME NEW p \in Trees, NEW k \in Steps, k \notin Fields(p)
  PROVE  Nothing(Of(p, k)) /\ DOMAIN Of(p, k) = {}
<1>1. ASSUME NEW m \in DOMAIN Of(p, k) PROVE FALSE
  <2>1. m \in Seq(Steps) /\ <<k>> \o m \in DOMAIN p
    BY OfIs
  <2>2. <<k>> \o m # <<>> /\ Head(<<k>> \o m) = k
    BY <2>1, Down
  <2> QED
    BY <2>1, <2>2 DEF Fields
<1> QED
  BY <1>1 DEF Nothing, Covered, At

LEMMA OfMerge ==
  ASSUME NEW p \in Trees, NEW q \in Trees, p[<<>>] = Obj, q[<<>>] = Obj, NEW k \in Steps
  PROVE  Of(Merge(p, q), k) = Merge(Of(p, k), Of(q, k))
<1> DEFINE P == Of(p, k)
           Q == Of(q, k)
           M == Merge(p, q)
           N == Merge(P, Q)
<1>1. /\ DOMAIN M = {m \in DOMAIN p \cup DOMAIN q : ~Covered(p, m) /\ ~Covered(q, m)}
      /\ \A n \in DOMAIN M : M[n] = Strongest({At(p, n), At(q, n)})
  BY DEF Merge
<1>2. /\ DOMAIN N = {m \in DOMAIN P \cup DOMAIN Q : ~Covered(P, m) /\ ~Covered(Q, m)}
      /\ \A n \in DOMAIN N : N[n] = Strongest({At(P, n), At(Q, n)})
      /\ N = [n \in DOMAIN N |-> N[n]]
  BY DEF Merge
<1>3. DOMAIN p \subseteq Seq(Steps) /\ DOMAIN q \subseteq Seq(Steps)
  BY Shape
<1>4. DOMAIN M \subseteq Seq(Steps)
  BY <1>1, <1>3
<1>5. /\ DOMAIN Of(M, k) = {m \in Seq(Steps) : <<k>> \o m \in DOMAIN M}
      /\ Of(M, k) = [m \in DOMAIN Of(M, k) |-> M[<<k>> \o m]]
  <2> HIDE DEF M
  <2> QED
    BY <1>4, OfNames, OfFunction
<1>6. DOMAIN P \subseteq Seq(Steps) /\ DOMAIN Q \subseteq Seq(Steps)
  BY OfIs
<1>7. \A n \in Seq(Steps) :
        /\ <<k>> \o n \in DOMAIN p <=> n \in DOMAIN P
        /\ <<k>> \o n \in DOMAIN q <=> n \in DOMAIN Q
        /\ Covered(p, <<k>> \o n) <=> Covered(P, n)
        /\ Covered(q, <<k>> \o n) <=> Covered(Q, n)
        /\ At(p, <<k>> \o n) = At(P, n) /\ At(q, <<k>> \o n) = At(Q, n)
  BY AtDown
<1> HIDE DEF M, N, P, Q
<1>8. DOMAIN Of(M, k) = DOMAIN N
  BY <1>1, <1>2, <1>5, <1>6, <1>7
<1>9. \A m \in DOMAIN N : M[<<k>> \o m] = N[m]
  BY <1>1, <1>2, <1>5, <1>7, <1>8
<1>10. Of(M, k) = N
  BY <1>2, <1>5, <1>8, <1>9
<1> QED
  BY <1>10 DEF M, N, P, Q

(* Merge satisfies the equations of mergeProjections.                      *)
LEMMA MergeRecurs ==
  ASSUME NEW p \in Trees, NEW q \in Trees
  PROVE  LET M == Merge(p, q) IN
         IF Yes \in {p[<<>>], q[<<>>]} THEN M = Whole(Yes)
         ELSE IF p[<<>>] = No THEN M = q
         ELSE IF q[<<>>] = No THEN M = p
         ELSE /\ M[<<>>] = Obj /\ Fields(M) = Fields(p) \cup Fields(q)
              /\ \A k \in Fields(M) :
                   Of(M, k) = IF k \notin Fields(p) THEN Of(q, k)
                              ELSE IF k \notin Fields(q) THEN Of(p, k)
                              ELSE Merge(Of(p, k), Of(q, k))
<1> DEFINE M == Merge(p, q)
<1>1. /\ DOMAIN M = {m \in DOMAIN p \cup DOMAIN q : ~Covered(p, m) /\ ~Covered(q, m)}
      /\ \A n \in DOMAIN M : M[n] = Strongest({At(p, n), At(q, n)})
      /\ M = [n \in DOMAIN M |-> M[n]]
  BY MergeIs, MergeFunction
<1>2. /\ <<>> \in DOMAIN p /\ <<>> \in DOMAIN q /\ DOMAIN p \subseteq Seq(Steps) /\ DOMAIN q \subseteq Seq(Steps)
      /\ ~Covered(p, <<>>) /\ ~Covered(q, <<>>)
      /\ p[<<>>] \in {Yes, No, Obj} /\ q[<<>>] \in {Yes, No, Obj}
      /\ At(p, <<>>) = p[<<>>] /\ At(q, <<>>) = q[<<>>]
  BY Shape, AtNamed
<1> HIDE DEF M
<1>3. <<>> \in DOMAIN M /\ M[<<>>] = Strongest({p[<<>>], q[<<>>]})
  BY <1>1, <1>2
<1>4. CASE Yes \in {p[<<>>], q[<<>>]}
  <2>1. \A n \in DOMAIN M : n = <<>>
    BY <1>1, <1>2, <1>4, AtNamed
  <2>2. M[<<>>] = Yes
    BY <1>2, <1>3, <1>4, StrongestIs
  <2>3. DOMAIN M = {<<>>}
    BY <1>3, <2>1
  <2>4. M = Whole(Yes)
    BY <1>1, <2>2, <2>3 DEF Whole
  <2> QED
    BY <1>4, <2>4 DEF M
<1>5. CASE Yes \notin {p[<<>>], q[<<>>]} /\ p[<<>>] = No
  <2>1. M = q
    BY <1>2, <1>5, FalseIsNothing, MergeNothing DEF M
  <2> QED
    BY <1>5, <2>1 DEF M
<1>6. CASE Yes \notin {p[<<>>], q[<<>>]} /\ p[<<>>] # No /\ q[<<>>] = No
  <2>1. M = p
    BY <1>2, <1>6, FalseIsNothing, MergeNothing DEF M
  <2> QED
    BY <1>6, <2>1 DEF M
<1>7. CASE Yes \notin {p[<<>>], q[<<>>]} /\ p[<<>>] # No /\ q[<<>>] # No
  <2>1. p[<<>>] = Obj /\ q[<<>>] = Obj /\ M[<<>>] = Obj
    BY <1>2, <1>3, <1>7, StrongestIs
  <2>2. Fields(M) \subseteq Fields(p) \cup Fields(q)
    BY <1>1 DEF Fields
  <2>3. ASSUME NEW k \in Fields(p) \cup Fields(q) PROVE k \in Fields(M) /\ k \in Steps
    <3>1. k \in Steps /\ <<k>> \in DOMAIN p \cup DOMAIN q
      BY FieldsAre
    <3>2. ~Covered(p, <<k>>) /\ ~Covered(q, <<k>>)
      BY <2>1, <3>1, NotCovered
    <3>3. <<k>> \in DOMAIN M /\ <<k>> # <<>> /\ Head(<<k>>) = k
      BY <1>1, <3>1, <3>2
    <3> QED
      BY <3>1, <3>3 DEF Fields
  <2>4. ASSUME NEW k \in Fields(p) \cup Fields(q)
        PROVE  Of(M, k) = IF k \notin Fields(p) THEN Of(q, k)
                          ELSE IF k \notin Fields(q) THEN Of(p, k)
                          ELSE Merge(Of(p, k), Of(q, k))
    <3>1. k \in Steps /\ Of(M, k) = Merge(Of(p, k), Of(q, k))
      BY <2>1, <2>3, OfMerge DEF M
    <3>2. CASE k \notin Fields(p)
      <4>1. k \in Fields(q) /\ Of(q, k) \in Trees
        BY <3>2, OfProjection
      <4>2. Nothing(Of(p, k)) /\ DOMAIN Of(p, k) = {}
        BY <3>1, <3>2, NoFieldIsNothing
      <4>3. Merge(Of(p, k), Of(q, k)) = Of(q, k)
        BY <4>1, <4>2, MergeNothing
      <4> QED
        BY <3>1, <3>2, <4>3
    <3>3. CASE k \in Fields(p) /\ k \notin Fields(q)
      <4>1. Of(p, k) \in Trees
        BY <3>3, OfProjection
      <4>2. Nothing(Of(q, k)) /\ DOMAIN Of(q, k) = {}
        BY <3>1, <3>3, NoFieldIsNothing
      <4>3. Merge(Of(p, k), Of(q, k)) = Of(p, k)
        BY <4>1, <4>2, MergeNothing
      <4> QED
        BY <3>1, <3>3, <4>3
    <3> QED
      BY <3>1, <3>2, <3>3
  <2>5. Fields(M) = Fields(p) \cup Fields(q)
    BY <2>2, <2>3
  <2> QED
    BY <1>7, <2>1, <2>4, <2>5 DEF M
<1> QED
  BY <1>4, <1>5, <1>6, <1>7

LEMMA OfIntersect ==
  ASSUME NEW p \in Trees, NEW q \in Trees, p[<<>>] = Obj, q[<<>>] = Obj, NEW k \in Steps
  PROVE  Of(Intersect(p, q), k) = Intersect(Of(p, k), Of(q, k))
<1> DEFINE P == Of(p, k)
           Q == Of(q, k)
           M == Intersect(p, q)
           N == Intersect(P, Q)
<1>1. /\ DOMAIN M = {m \in DOMAIN p \cup DOMAIN q : Has(p, m) /\ Has(q, m)}
      /\ \A n \in DOMAIN M : M[n] = Weakest({At(p, n), At(q, n)})
  BY DEF Intersect
<1>2. /\ DOMAIN N = {m \in DOMAIN P \cup DOMAIN Q : Has(P, m) /\ Has(Q, m)}
      /\ \A n \in DOMAIN N : N[n] = Weakest({At(P, n), At(Q, n)})
      /\ N = [n \in DOMAIN N |-> N[n]]
  BY DEF Intersect
<1>3. DOMAIN p \subseteq Seq(Steps) /\ DOMAIN q \subseteq Seq(Steps)
  BY Shape
<1>4. DOMAIN M \subseteq Seq(Steps)
  BY <1>1, <1>3
<1>5. /\ DOMAIN Of(M, k) = {m \in Seq(Steps) : <<k>> \o m \in DOMAIN M}
      /\ Of(M, k) = [m \in DOMAIN Of(M, k) |-> M[<<k>> \o m]]
  <2> HIDE DEF M
  <2> QED
    BY <1>4, OfNames, OfFunction
<1>6. DOMAIN P \subseteq Seq(Steps) /\ DOMAIN Q \subseteq Seq(Steps)
  BY OfIs
<1>7. \A n \in Seq(Steps) :
        /\ <<k>> \o n \in DOMAIN p <=> n \in DOMAIN P
        /\ <<k>> \o n \in DOMAIN q <=> n \in DOMAIN Q
        /\ Has(p, <<k>> \o n) <=> Has(P, n)
        /\ Has(q, <<k>> \o n) <=> Has(Q, n)
        /\ At(p, <<k>> \o n) = At(P, n) /\ At(q, <<k>> \o n) = At(Q, n)
  BY AtDown DEF Has
<1> HIDE DEF M, N, P, Q
<1>8. DOMAIN Of(M, k) = DOMAIN N
  BY <1>1, <1>2, <1>5, <1>6, <1>7
<1>9. \A m \in DOMAIN N : M[<<k>> \o m] = N[m]
  BY <1>1, <1>2, <1>5, <1>7, <1>8
<1>10. Of(M, k) = N
  BY <1>2, <1>5, <1>8, <1>9
<1> QED
  BY <1>10 DEF M, N, P, Q

(* Intersected with all of it, a projection stays the same.                *)
LEMMA IntersectAll ==
  ASSUME NEW p \in Trees, NEW q \in Trees, p[<<>>] = Yes
  PROVE  Intersect(p, q) = q /\ Intersect(q, p) = q
<1>1. \A n \in DOMAIN q : n \in Seq(Steps) /\ At(q, n) = q[n] /\ q[n] \in {Yes, No, Obj} /\ Has(q, n)
  BY AtNamed DEF Has
<1>2. \A n \in Seq(Steps) : Has(p, n) /\ At(p, n) = Yes
  BY AtNamed, Shape, ValuesAssumption DEF Has
<1>3. DOMAIN p \subseteq DOMAIN q
  BY FieldsAre, Shape, ValuesAssumption
<1>4. DOMAIN Intersect(p, q) = DOMAIN q /\ DOMAIN Intersect(q, p) = DOMAIN q
  BY <1>1, <1>2, <1>3 DEF Intersect
<1>5. \A n \in DOMAIN q : Intersect(p, q)[n] = q[n] /\ Intersect(q, p)[n] = q[n]
  <2>1. \A n \in DOMAIN q : /\ Intersect(p, q)[n] = Weakest({At(p, n), At(q, n)})
                            /\ Intersect(q, p)[n] = Weakest({At(q, n), At(p, n)})
    BY <1>1, <1>2, <1>3 DEF Intersect
  <2> QED
    BY <1>1, <1>2, <2>1, WeakestIs
<1>6. Intersect(p, q) = [n \in DOMAIN q |-> q[n]] /\ Intersect(q, p) = [n \in DOMAIN q |-> q[n]]
  <2>1. /\ Intersect(p, q) = [n \in DOMAIN Intersect(p, q) |-> Intersect(p, q)[n]]
        /\ Intersect(q, p) = [n \in DOMAIN Intersect(q, p) |-> Intersect(q, p)[n]]
    BY DEF Intersect
  <2> QED
    BY <1>4, <1>5, <2>1
<1> QED
  BY <1>6, AFunction

(* Intersect satisfies the equations of intersectProjections.              *)
LEMMA IntersectRecurs ==
  ASSUME NEW p \in Trees, NEW q \in Trees
  PROVE  LET I == Intersect(p, q) IN
         IF No \in {p[<<>>], q[<<>>]} THEN I = Whole(No)
         ELSE IF p[<<>>] = Yes THEN I = q
         ELSE IF q[<<>>] = Yes THEN I = p
         ELSE /\ I[<<>>] = Obj /\ Fields(I) = Fields(p) \cap Fields(q)
              /\ \A k \in Fields(I) : Of(I, k) = Intersect(Of(p, k), Of(q, k))
<1> DEFINE I == Intersect(p, q)
<1>1. /\ DOMAIN I = {m \in DOMAIN p \cup DOMAIN q : Has(p, m) /\ Has(q, m)}
      /\ \A n \in DOMAIN I : I[n] = Weakest({At(p, n), At(q, n)})
      /\ I = [n \in DOMAIN I |-> I[n]]
  BY DEF Intersect
<1>2. /\ <<>> \in DOMAIN p /\ <<>> \in DOMAIN q /\ DOMAIN p \subseteq Seq(Steps) /\ DOMAIN q \subseteq Seq(Steps)
      /\ Has(p, <<>>) /\ Has(q, <<>>)
      /\ p[<<>>] \in {Yes, No, Obj} /\ q[<<>>] \in {Yes, No, Obj}
      /\ At(p, <<>>) = p[<<>>] /\ At(q, <<>>) = q[<<>>]
  BY Shape, AtNamed DEF Has
<1> HIDE DEF I
<1>3. <<>> \in DOMAIN I /\ I[<<>>] = Weakest({p[<<>>], q[<<>>]})
  BY <1>1, <1>2
<1>4. CASE No \in {p[<<>>], q[<<>>]}
  <2>1. ASSUME NEW x \in Trees, x[<<>>] = No, NEW n, Has(x, n) PROVE n = <<>>
    <3>1. DOMAIN x = {<<>>} /\ ~Covered(x, n)
      BY <2>1, FieldsAre, ValuesAssumption DEF Covered
    <3> QED
      BY <2>1, <3>1 DEF Has
  <2>2. DOMAIN I = {<<>>}
    BY <1>1, <1>3, <1>4, <2>1
  <2>3. I[<<>>] = No
    BY <1>2, <1>3, <1>4, WeakestIs
  <2>4. I = Whole(No)
    BY <1>1, <2>2, <2>3 DEF Whole
  <2> QED
    BY <1>4, <2>4 DEF I
<1>5. CASE No \notin {p[<<>>], q[<<>>]} /\ p[<<>>] = Yes
  <2>1. I = q
    BY <1>5, IntersectAll DEF I
  <2> QED
    BY <1>5, <2>1 DEF I
<1>6. CASE No \notin {p[<<>>], q[<<>>]} /\ p[<<>>] # Yes /\ q[<<>>] = Yes
  <2>1. I = p
    BY <1>6, IntersectAll DEF I
  <2> QED
    BY <1>6, <2>1 DEF I
<1>7. CASE No \notin {p[<<>>], q[<<>>]} /\ p[<<>>] # Yes /\ q[<<>>] # Yes
  <2>1. p[<<>>] = Obj /\ q[<<>>] = Obj /\ I[<<>>] = Obj
    BY <1>2, <1>3, <1>7, WeakestIs
  <2>2. ASSUME NEW x \in Trees, x[<<>>] = Obj, NEW n \in Seq(Steps), n # <<>>, Has(x, n)
        PROVE  Head(n) \in Fields(x)
    <3>1. Head(n) \in Steps /\ Tail(n) \in Seq(Steps) /\ n = <<Head(n)>> \o Tail(n)
      BY <2>2, SplitPath
    <3>2. Has(Of(x, Head(n)), Tail(n))
      BY <2>2, <3>1, AtDown DEF Has
    <3>3. DOMAIN Of(x, Head(n)) # {}
      BY <3>2 DEF Has, Covered
    <3> QED
      BY <3>1, <3>3, NoFieldIsNothing
  <2>3. \A k \in Fields(I) : k \in Fields(p) /\ k \in Fields(q)
    BY <1>1, <1>2, <2>1, <2>2 DEF Fields
  <2>4. ASSUME NEW k \in Fields(p), k \in Fields(q) PROVE k \in Fields(I)
    <3>1. <<k>> \in DOMAIN p /\ <<k>> \in DOMAIN q /\ <<k>> # <<>> /\ Head(<<k>>) = k
      BY <2>4, FieldsAre
    <3>2. <<k>> \in DOMAIN I
      BY <1>1, <3>1 DEF Has
    <3> QED
      BY <3>1, <3>2 DEF Fields
  <2>5. Fields(I) = Fields(p) \cap Fields(q)
    BY <2>3, <2>4
  <2>6. \A k \in Fields(I) : Of(I, k) = Intersect(Of(p, k), Of(q, k))
    BY <2>1, <2>3, FieldsAre, OfIntersect DEF I
  <2> QED
    BY <1>7, <2>1, <2>5, <2>6 DEF I
<1> QED
  BY <1>4, <1>5, <1>6, <1>7

(* A path that is named goes on in the projection of its first step.       *)
LEMMA NamedSplit ==
  ASSUME NEW p \in Trees, NEW n \in DOMAIN p, n # <<>>
  PROVE  LET k == Head(n)
             m == Tail(n)
         IN
         /\ k \in Fields(p) /\ k \in Steps /\ m \in Seq(Steps) /\ n = <<k>> \o m
         /\ m \in DOMAIN Of(p, k) /\ Of(p, k)[m] = p[n]
<1>1. Head(n) \in Steps /\ Tail(n) \in Seq(Steps) /\ n = <<Head(n)>> \o Tail(n)
  BY Shape, SplitPath
<1>2. Head(n) \in Fields(p)
  BY DEF Fields
<1>3. Tail(n) \in DOMAIN Of(p, Head(n)) /\ Of(p, Head(n))[Tail(n)] = p[<<Head(n)>> \o Tail(n)]
  BY <1>1, OfIs
<1> QED
  BY <1>1, <1>2, <1>3

(* Two projections with the same root and fields are the same.             *)
LEMMA SameTree ==
  ASSUME NEW p \in Trees, NEW q \in Trees, p[<<>>] = q[<<>>], Fields(p) = Fields(q),
         \A k \in Fields(p) : Of(p, k) = Of(q, k)
  PROVE  p = q
<1>1. ASSUME NEW x \in Trees, NEW y \in Trees, x[<<>>] = y[<<>>], Fields(x) = Fields(y),
             \A k \in Fields(x) : Of(x, k) = Of(y, k), NEW n \in DOMAIN x
      PROVE  n \in DOMAIN y /\ x[n] = y[n]
  <2>1. CASE n = <<>>
    BY <1>1, <2>1, Shape
  <2>2. CASE n # <<>>
    <3> DEFINE k == Head(n)
               m == Tail(n)
    <3>1. /\ k \in Fields(x) /\ k \in Steps /\ m \in Seq(Steps) /\ n = <<k>> \o m
          /\ m \in DOMAIN Of(x, k) /\ Of(x, k)[m] = x[n]
      BY <2>2, NamedSplit
    <3>2. m \in DOMAIN Of(y, k) /\ Of(y, k)[m] = x[n]
      BY <1>1, <3>1
    <3>3. <<k>> \o m \in DOMAIN y /\ y[<<k>> \o m] = x[n]
      BY <3>1, <3>2, OfIs
    <3> QED
      BY <3>1, <3>3
  <2> QED
    BY <2>1, <2>2
<1>2. DOMAIN p = DOMAIN q /\ \A n \in DOMAIN p : p[n] = q[n]
  BY <1>1
<1> QED
  BY <1>2, AFunction

(* Intersected, Contained and IsEmptyProjection satisfy the equations of   *)
(* isProjectionIntersected, isProjectionContained and isEmptyProjection.   *)
LEMMA ComparisonsRecur ==
  ASSUME NEW p \in Trees, NEW q \in Trees
  PROVE  /\ Intersected(p, q) <=>
              /\ No \notin {p[<<>>], q[<<>>]}
              /\ \/ Yes \in {p[<<>>], q[<<>>]}
                 \/ \E k \in Fields(p) \cap Fields(q) : Intersected(Of(p, k), Of(q, k))
         /\ Contained(q, p) <=>
              \/ q[<<>>] = Yes \/ p = q
              \/ q[<<>>] # No /\ p[<<>>] = No
              \/ /\ q[<<>>] = Obj /\ p[<<>>] = Obj
                 /\ \A k \in Fields(p) : k \in Fields(q) /\ Contained(Of(q, k), Of(p, k))
         /\ IsEmptyProjection(p) <=>
              p[<<>>] = Obj /\ \A k \in Fields(p) : IsEmptyProjection(Of(p, k))
<1>1. /\ <<>> \in DOMAIN p /\ <<>> \in DOMAIN q
      /\ p[<<>>] \in {Yes, No, Obj} /\ q[<<>>] \in {Yes, No, Obj}
      /\ \A n \in DOMAIN p : n \in Seq(Steps)
  BY Shape
<1>2. /\ p[<<>>] # Obj => DOMAIN p = {<<>>} /\ Fields(p) = {}
      /\ q[<<>>] # Obj => DOMAIN q = {<<>>} /\ Fields(q) = {}
      /\ Fields(p) \subseteq Steps /\ Fields(q) \subseteq Steps
  BY FieldsAre
<1>3. Intersected(p, q) <=>
        /\ No \notin {p[<<>>], q[<<>>]}
        /\ \/ Yes \in {p[<<>>], q[<<>>]}
           \/ \E k \in Fields(p) \cap Fields(q) : Intersected(Of(p, k), Of(q, k))
  <2>1. ASSUME NEW n \in DOMAIN p \cap DOMAIN q, No \notin {p[n], q[n]}, Yes \in {p[n], q[n]}, n # <<>>
        PROVE  /\ p[<<>>] = Obj /\ q[<<>>] = Obj
               /\ \E k \in Fields(p) \cap Fields(q) : Intersected(Of(p, k), Of(q, k))
    <3> DEFINE k == Head(n)
               m == Tail(n)
    <3>1. /\ k \in Fields(p) /\ m \in DOMAIN Of(p, k) /\ Of(p, k)[m] = p[n]
          /\ k \in Fields(q) /\ m \in DOMAIN Of(q, k) /\ Of(q, k)[m] = q[n]
      BY <2>1, NamedSplit
    <3>2. Intersected(Of(p, k), Of(q, k))
      BY <2>1, <3>1 DEF Intersected
    <3> QED
      BY <1>2, <3>1, <3>2
  <2>2. ASSUME NEW k \in Fields(p), k \in Fields(q), Intersected(Of(p, k), Of(q, k))
        PROVE  Intersected(p, q)
    <3>1. PICK m \in DOMAIN Of(p, k) \cap DOMAIN Of(q, k) :
            No \notin {Of(p, k)[m], Of(q, k)[m]} /\ Yes \in {Of(p, k)[m], Of(q, k)[m]}
      BY <2>2 DEF Intersected
    <3>2. /\ <<k>> \o m \in DOMAIN p /\ Of(p, k)[m] = p[<<k>> \o m]
          /\ <<k>> \o m \in DOMAIN q /\ Of(q, k)[m] = q[<<k>> \o m]
      BY <1>2, <3>1, OfIs
    <3> QED
      BY <3>1, <3>2 DEF Intersected
  <2>3. ASSUME Intersected(p, q)
        PROVE  /\ No \notin {p[<<>>], q[<<>>]}
               /\ \/ Yes \in {p[<<>>], q[<<>>]}
                  \/ \E k \in Fields(p) \cap Fields(q) : Intersected(Of(p, k), Of(q, k))
    <3>1. PICK n \in DOMAIN p \cap DOMAIN q : No \notin {p[n], q[n]} /\ Yes \in {p[n], q[n]}
      BY <2>3 DEF Intersected
    <3> QED
      BY <2>1, <3>1, ValuesAssumption
  <2>4. ASSUME No \notin {p[<<>>], q[<<>>]}, Yes \in {p[<<>>], q[<<>>]}
        PROVE  Intersected(p, q)
    BY <1>1, <2>4 DEF Intersected
  <2> QED
    BY <2>2, <2>3, <2>4
<1>4. Contained(q, p) <=>
        \/ q[<<>>] = Yes \/ p = q
        \/ q[<<>>] # No /\ p[<<>>] = No
        \/ /\ q[<<>>] = Obj /\ p[<<>>] = Obj
           /\ \A k \in Fields(p) : k \in Fields(q) /\ Contained(Of(q, k), Of(p, k))
  <2> DEFINE Below(n) == \/ At(q, n) = Yes
                         \/ /\ n \in DOMAIN q
                            /\ \/ q[n] = p[n]
                               \/ q[n] # No /\ p[n] = No
  <2>1. Contained(q, p) <=> \A n \in DOMAIN p : Below(n)
    BY DEF Contained
  <2>2. At(q, <<>>) = q[<<>>]
    BY <1>1, AtNamed
  <2>3. CASE q[<<>>] = Yes
    <3>1. \A n \in DOMAIN p : At(q, n) = Yes
      BY <1>1, <2>3, AtNamed, ValuesAssumption
    <3> QED
      BY <2>1, <2>3, <3>1
  <2>4. CASE p = q
    BY <2>1, <2>4
  <2>5. CASE q[<<>>] # No /\ p[<<>>] = No
    <3>1. DOMAIN p = {<<>>}
      BY <1>2, <2>5, ValuesAssumption
    <3> QED
      BY <1>1, <2>1, <2>5, <3>1
  <2>6. CASE q[<<>>] = Obj /\ p[<<>>] = Obj
    <3>1. Below(<<>>)
      BY <1>1, <2>6
    <3>2. ASSUME \A n \in DOMAIN p : Below(n), NEW k \in Fields(p) PROVE k \in Fields(q)
      <4>1. k \in Steps /\ <<k>> \in DOMAIN p
        BY <3>2, FieldsAre
      <4>2. At(q, <<k>>) = Yes \/ <<k>> \in DOMAIN q
        BY <3>2, <4>1
      <4>3. ~Covered(q, <<k>>)
        BY <2>6, <4>1, NotCovered
      <4>4. <<k>> \in DOMAIN q
        BY <4>2, <4>3, ValuesAssumption DEF At
      <4> QED
        BY <4>1, <4>4, FieldsAre
    <3>3. ASSUME NEW k \in Fields(p), NEW m \in Seq(Steps)
          PROVE  /\ <<k>> \o m \in DOMAIN p <=> m \in DOMAIN Of(p, k)
                 /\ m \in DOMAIN Of(p, k) =>
                      (Below(<<k>> \o m) <=>
                         \/ At(Of(q, k), m) = Yes
                         \/ /\ m \in DOMAIN Of(q, k)
                            /\ \/ Of(q, k)[m] = Of(p, k)[m]
                               \/ Of(q, k)[m] # No /\ Of(p, k)[m] = No)
      <4>1. k \in Steps
        BY <1>2
      <4>2. <<k>> \o m \in DOMAIN p <=> m \in DOMAIN Of(p, k)
        BY <2>6, <4>1, AtDown
      <4>3. /\ <<k>> \o m \in DOMAIN q <=> m \in DOMAIN Of(q, k)
            /\ At(q, <<k>> \o m) = At(Of(q, k), m)
        BY <2>6, <4>1, AtDown
      <4>4. /\ m \in DOMAIN Of(p, k) => Of(p, k)[m] = p[<<k>> \o m]
            /\ m \in DOMAIN Of(q, k) => Of(q, k)[m] = q[<<k>> \o m]
        BY <4>1, OfIs
      <4> QED
        BY <4>2, <4>3, <4>4
    <3>4. ASSUME NEW k \in Fields(p)
          PROVE  Contained(Of(q, k), Of(p, k)) <=> \A m \in DOMAIN Of(p, k) : Below(<<k>> \o m)
      <4>1. \A m \in DOMAIN Of(p, k) : m \in Seq(Steps)
        BY <1>2, OfIs
      <4> HIDE DEF Below
      <4> QED
        BY <3>3, <4>1 DEF Contained
    <3>5. ASSUME \A n \in DOMAIN p : Below(n), NEW k \in Fields(p) PROVE Contained(Of(q, k), Of(p, k))
      <4>1. \A m \in DOMAIN Of(p, k) : <<k>> \o m \in DOMAIN p
        BY <1>2, OfIs
      <4> HIDE DEF Below
      <4> QED
        BY <3>4, <3>5, <4>1
    <3>6. ASSUME \A k \in Fields(p) : Contained(Of(q, k), Of(p, k)), NEW n \in DOMAIN p PROVE Below(n)
      <4>1. CASE n = <<>>
        BY <3>1, <4>1
      <4>2. CASE n # <<>>
        <5>1. /\ Head(n) \in Fields(p) /\ n = <<Head(n)>> \o Tail(n)
              /\ Tail(n) \in DOMAIN Of(p, Head(n))
          BY <4>2, NamedSplit
        <5> HIDE DEF Below
        <5>2. Below(<<Head(n)>> \o Tail(n))
          BY <3>4, <3>6, <5>1
        <5> QED
          BY <5>1, <5>2
      <4> QED
        BY <4>1, <4>2
    <3>7. p = q => \A n \in DOMAIN p : Below(n)
      OBVIOUS
    <3> HIDE DEF Below
    <3> QED
      BY <2>1, <2>6, <3>2, <3>5, <3>6, <3>7, ValuesAssumption
  <2>7. CASE /\ q[<<>>] # Yes /\ p # q /\ ~(q[<<>>] # No /\ p[<<>>] = No)
             /\ ~(q[<<>>] = Obj /\ p[<<>>] = Obj)
    <3>1. Below(<<>>) => q[<<>>] = p[<<>>]
      BY <2>2, <2>7
    <3>2. q[<<>>] = p[<<>>] => q = p
      <4>1. SUFFICES ASSUME q[<<>>] = p[<<>>] PROVE q = p
        OBVIOUS
      <4>2. q[<<>>] # Obj /\ p[<<>>] # Obj
        BY <2>7, <4>1
      <4>3. q = Whole(q[<<>>]) /\ p = Whole(p[<<>>])
        BY <4>2, FieldsAre
      <4> QED
        BY <4>1, <4>3
    <3>3. ~Below(<<>>)
      BY <2>7, <3>1, <3>2
    <3> HIDE DEF Below
    <3> QED
      BY <1>1, <2>1, <2>7, <3>3
  <2> QED
    BY <2>3, <2>4, <2>5, <2>6, <2>7
<1>5. IsEmptyProjection(p) <=> p[<<>>] = Obj /\ \A k \in Fields(p) : IsEmptyProjection(Of(p, k))
  <2>1. ASSUME IsEmptyProjection(p)
        PROVE  p[<<>>] = Obj /\ \A k \in Fields(p) : IsEmptyProjection(Of(p, k))
    <3>1. ASSUME NEW k \in Fields(p), NEW m \in DOMAIN Of(p, k) PROVE Of(p, k)[m] = Obj
      <4>1. <<k>> \o m \in DOMAIN p /\ Of(p, k)[m] = p[<<k>> \o m]
        BY <1>2, OfIs
      <4> QED
        BY <2>1, <4>1 DEF IsEmptyProjection
    <3> QED
      BY <1>1, <2>1, <3>1 DEF IsEmptyProjection
  <2>2. ASSUME p[<<>>] = Obj, \A k \in Fields(p) : IsEmptyProjection(Of(p, k)), NEW n \in DOMAIN p
        PROVE  p[n] = Obj
    <3>1. CASE n = <<>>
      BY <2>2, <3>1
    <3>2. CASE n # <<>>
      BY <2>2, <3>2, NamedSplit DEF IsEmptyProjection
    <3> QED
      BY <3>1, <3>2
  <2> QED
    BY <2>1, <2>2 DEF IsEmptyProjection
<1> QED
  BY <1>3, <1>4, <1>5

(* At satisfies the equations of getProjection, and Mentions those of      *)
(* whether getTraversing finds what is not false.                          *)
LEMMA ReadsRecur ==
  ASSUME NEW p \in Trees, NEW n \in Seq(Steps)
  PROVE  /\ At(p, n) = IF n = <<>> \/ p[<<>>] # Obj THEN p[<<>>]
                       ELSE IF Head(n) \in Fields(p) THEN At(Of(p, Head(n)), Tail(n))
                       ELSE No
         /\ Mentions(p, n) <=>
              IF n = <<>> THEN p[<<>>] # No
              ELSE /\ p[<<>>] = Obj /\ Head(n) \in Fields(p)
                   /\ Mentions(Of(p, Head(n)), Tail(n))
<1>1. <<>> \in DOMAIN p /\ p[<<>>] \in {Yes, No, Obj} /\ At(p, <<>>) = p[<<>>]
  BY Shape, AtNamed
<1>2. CASE n = <<>>
  BY <1>1, <1>2 DEF Mentions
<1>3. CASE n # <<>> /\ p[<<>>] # Obj
  <2>1. At(p, n) = p[<<>>] /\ DOMAIN p = {<<>>}
    BY <1>3, AtNamed, FieldsAre
  <2> QED
    BY <1>3, <2>1 DEF Mentions
<1>4. CASE n # <<>> /\ p[<<>>] = Obj
  <2> DEFINE k == Head(n)
             m == Tail(n)
  <2>1. k \in Steps /\ m \in Seq(Steps) /\ n = <<k>> \o m
    BY <1>4, SplitPath
  <2>2. At(p, n) = At(Of(p, k), m) /\ (n \in DOMAIN p <=> m \in DOMAIN Of(p, k))
    BY <1>4, <2>1, AtDown
  <2>3. m \in DOMAIN Of(p, k) => Of(p, k)[m] = p[n]
    BY <2>1, OfIs
  <2>4. k \notin Fields(p) => At(Of(p, k), m) = No /\ DOMAIN Of(p, k) = {}
    BY <2>1, NoFieldIsNothing DEF Nothing
  <2> HIDE DEF k, m
  <2>5. /\ At(p, n) = IF k \in Fields(p) THEN At(Of(p, k), m) ELSE No
        /\ Mentions(p, n) <=> k \in Fields(p) /\ Mentions(Of(p, k), m)
    BY <2>2, <2>3, <2>4 DEF Mentions
  <2> QED
    BY <1>4, <2>5 DEF k, m
<1> QED
  BY <1>2, <1>3, <1>4

(* The path leads through objects, and the new ones among them, only.     *)
Reached(p, x) == \A m \in Above(x) \cap DOMAIN p : p[m] = Obj

LEMMA WithOne ==
  ASSUME NEW p, DOMAIN p \subseteq Seq(Steps), NEW x \in Seq(Steps), Reached(p, x)
  PROVE  LET W == WithAll(p, {x}) IN
         /\ DOMAIN W = {m \in DOMAIN p : x \notin Above(m)} \cup Above(x) \cup {x}
         /\ \A n \in DOMAIN W : W[n] = IF n = x THEN Yes ELSE IF n \in Above(x) THEN Obj ELSE p[n]
         /\ W = [n \in DOMAIN W |-> W[n]]
<1> DEFINE reached == {k \in {x} : \A m \in Above(k) \cap DOMAIN p : p[m] = Obj}
           made == UNION {Above(k) : k \in reached}
<1>1. reached = {x}
  BY DEF Reached
<1>2. made = Above(x)
  BY <1>1
<1>3. WithAll(p, {x}) = [n \in {m \in DOMAIN p : Above(m) \cap reached = {}} \cup made \cup reached |->
                           IF n \in reached THEN Yes ELSE IF n \in made THEN Obj ELSE p[n]]
  BY DEF WithAll
<1> HIDE DEF reached, made
<1>4. {m \in DOMAIN p : Above(m) \cap reached = {}} = {m \in DOMAIN p : x \notin Above(m)}
  BY <1>1
<1>5. WithAll(p, {x}) = [n \in {m \in DOMAIN p : x \notin Above(m)} \cup Above(x) \cup {x} |->
                           IF n = x THEN Yes ELSE IF n \in Above(x) THEN Obj ELSE p[n]]
  BY <1>1, <1>2, <1>3, <1>4
<1> QED
  BY <1>5

LEMMA NotReached ==
  ASSUME NEW p \in Trees, NEW x, ~Reached(p, x)
  PROVE  WithAll(p, {x}) = p
<1> DEFINE reached == {k \in {x} : \A m \in Above(k) \cap DOMAIN p : p[m] = Obj}
           made == UNION {Above(k) : k \in reached}
<1>1. reached = {} /\ made = {}
  BY DEF Reached
<1>2. WithAll(p, {x}) = [n \in {m \in DOMAIN p : Above(m) \cap reached = {}} \cup made \cup reached |->
                           IF n \in reached THEN Yes ELSE IF n \in made THEN Obj ELSE p[n]]
  BY DEF WithAll
<1> HIDE DEF reached, made
<1>3. {m \in DOMAIN p : Above(m) \cap reached = {}} \cup made \cup reached = DOMAIN p
  BY <1>1
<1>4. WithAll(p, {x}) = [n \in DOMAIN p |-> p[n]]
  BY <1>1, <1>2, <1>3
<1> QED
  BY <1>4, AFunction

LEMMA DownInjective ==
  ASSUME NEW j \in Steps, NEW k \in Steps, NEW m \in Seq(Steps), NEW n \in Seq(Steps)
  PROVE  /\ <<j>> \o m = <<k>> \o n <=> j = k /\ m = n
         /\ <<j>> \o m # <<>>
         /\ <<j>> \o m \in Above(<<k>> \o n) <=> j = k /\ m \in Above(n)
<1>1. ASSUME NEW u \in Seq(Steps), <<j>> \o m = <<k>> \o u PROVE j = k /\ m = u
  BY <1>1, Down
<1>2. <<j>> \o m # <<>>
  BY Down
<1>3. Above(<<k>> \o n) = {<<>>} \cup {<<k>> \o u : u \in Above(n)} /\ Above(n) \subseteq Seq(Steps)
  BY AboveDown, AboveIn
<1>4. <<j>> \o m \in Above(<<k>> \o n) => j = k /\ m \in Above(n)
  BY <1>1, <1>2, <1>3
<1>5. j = k /\ m \in Above(n) => <<j>> \o m \in Above(<<k>> \o n)
  BY <1>3
<1> QED
  BY <1>1, <1>2, <1>4, <1>5

(* What a field has after a path of another one, or of its own, was added. *)
LEMMA OfWithOther ==
  ASSUME NEW p \in Trees, NEW j \in Steps, NEW k \in Steps, j # k, NEW m \in Seq(Steps)
  PROVE  Of(WithAll(p, {<<k>> \o m}), j) = Of(p, j)
<1> DEFINE x == <<k>> \o m
           W == WithAll(p, {x})
<1>1. x \in Seq(Steps) /\ Above(x) \subseteq Seq(Steps) /\ DOMAIN p \subseteq Seq(Steps)
  BY Down, AboveIn, Shape
<1>2. \A n \in Seq(Steps) : <<j>> \o n # x /\ <<j>> \o n \notin Above(x) /\ x \notin Above(<<j>> \o n)
  BY DownInjective
<1> HIDE DEF x
<1>3. CASE ~Reached(p, x)
  BY <1>3, NotReached DEF x
<1>4. CASE Reached(p, x)
  <2>1. /\ DOMAIN W = {n \in DOMAIN p : x \notin Above(n)} \cup Above(x) \cup {x}
        /\ \A n \in DOMAIN W : W[n] = IF n = x THEN Yes ELSE IF n \in Above(x) THEN Obj ELSE p[n]
    BY <1>1, <1>4, WithOne
  <2> HIDE DEF W
  <2>2. DOMAIN W \subseteq Seq(Steps)
    BY <1>1, <2>1
  <2>3. /\ DOMAIN Of(W, j) = {n \in Seq(Steps) : <<j>> \o n \in DOMAIN W}
        /\ Of(W, j) = [n \in DOMAIN Of(W, j) |-> W[<<j>> \o n]]
    BY <2>2, OfNames, OfFunction
  <2>4. /\ DOMAIN Of(p, j) = {n \in Seq(Steps) : <<j>> \o n \in DOMAIN p}
        /\ Of(p, j) = [n \in DOMAIN Of(p, j) |-> p[<<j>> \o n]]
    BY <1>1, OfNames, OfFunction
  <2>5. \A n \in Seq(Steps) : <<j>> \o n \in DOMAIN W <=> <<j>> \o n \in DOMAIN p
    BY <1>2, <2>1
  <2>6. DOMAIN Of(W, j) = DOMAIN Of(p, j)
    BY <2>3, <2>4, <2>5
  <2>7. \A n \in DOMAIN Of(p, j) : W[<<j>> \o n] = p[<<j>> \o n]
    BY <1>2, <2>1, <2>4, <2>5
  <2>8. Of(W, j) = Of(p, j)
    BY <2>3, <2>4, <2>6, <2>7
  <2> QED
    BY <2>8 DEF W, x
<1> QED
  BY <1>3, <1>4

LEMMA OfWithOwn ==
  ASSUME NEW p \in Trees, p[<<>>] = Obj, NEW k \in Steps, NEW m \in Seq(Steps)
  PROVE  Of(WithAll(p, {<<k>> \o m}), k) =
           WithAll(IF k \in Fields(p) THEN Of(p, k) ELSE Whole(Obj), {m})
<1> DEFINE x == <<k>> \o m
           W == WithAll(p, {x})
           P == IF k \in Fields(p) THEN Of(p, k) ELSE Whole(Obj)
           V == WithAll(P, {m})
<1>1. x \in Seq(Steps) /\ Above(x) \subseteq Seq(Steps) /\ DOMAIN p \subseteq Seq(Steps)
  BY Down, AboveIn, Shape
<1>2. Above(x) = {<<>>} \cup {<<k>> \o u : u \in Above(m)} /\ Above(m) \subseteq Seq(Steps)
  BY AboveDown, AboveIn
<1>3. \A n \in Seq(Steps) : /\ <<k>> \o n = x <=> n = m
                            /\ <<k>> \o n \in Above(x) <=> n \in Above(m)
                            /\ x \in Above(<<k>> \o n) <=> m \in Above(n)
  BY DownInjective
<1>4. /\ DOMAIN Of(p, k) = {n \in Seq(Steps) : <<k>> \o n \in DOMAIN p}
      /\ \A n \in DOMAIN Of(p, k) : Of(p, k)[n] = p[<<k>> \o n]
      /\ Of(p, k) = [n \in DOMAIN Of(p, k) |-> p[<<k>> \o n]]
  BY <1>1, OfNames, OfIs, OfFunction
<1> HIDE DEF x
<1>5. Reached(p, x) <=> \A u \in Above(m) \cap DOMAIN Of(p, k) : Of(p, k)[u] = Obj
  <2> DEFINE o == Of(p, k)
  <2>1. /\ DOMAIN o = {n \in Seq(Steps) : <<k>> \o n \in DOMAIN p}
        /\ \A n \in DOMAIN o : o[n] = p[<<k>> \o n]
    BY <1>4
  <2> HIDE DEF o
  <2>2. ASSUME \A u \in Above(m) \cap DOMAIN o : o[u] = Obj, NEW v \in Above(x), v \in DOMAIN p
        PROVE  p[v] = Obj
    <3>1. CASE v = <<>>
      BY <3>1
    <3>2. CASE v # <<>>
      <4>1. PICK u \in Above(m) : v = <<k>> \o u
        BY <1>2, <2>2, <3>2
      <4>2. u \in DOMAIN o
        BY <1>2, <2>1, <2>2, <4>1
      <4> QED
        BY <2>1, <2>2, <4>1, <4>2
    <3> QED
      BY <3>1, <3>2
  <2>3. ASSUME Reached(p, x), NEW u \in Above(m) \cap DOMAIN o
        PROVE  o[u] = Obj
    <3>1. <<k>> \o u \in Above(x) \cap DOMAIN p
      BY <1>2, <2>1
    <3> QED
      BY <2>1, <2>3, <3>1 DEF Reached
  <2>4. Reached(p, x) <=> \A u \in Above(m) \cap DOMAIN o : o[u] = Obj
    BY <2>2, <2>3 DEF Reached
  <2> QED
    BY <2>4 DEF o
<1>6. k \notin Fields(p) => DOMAIN Of(p, k) = {}
  BY NoFieldIsNothing
<1>7. CASE ~Reached(p, x)
  <2>1. k \in Fields(p)
    BY <1>5, <1>6, <1>7
  <2>2. Of(p, k) \in Trees /\ P = Of(p, k)
    BY <2>1, OfProjection
  <2>3. ~Reached(P, m)
    BY <1>5, <1>7, <2>2 DEF Reached
  <2>4. V = P /\ W = p
    BY <1>7, <2>2, <2>3, NotReached
  <2> QED
    BY <2>2, <2>4 DEF x
<1>8. CASE Reached(p, x)
  <2>1. /\ DOMAIN W = {n \in DOMAIN p : x \notin Above(n)} \cup Above(x) \cup {x}
        /\ \A n \in DOMAIN W : W[n] = IF n = x THEN Yes ELSE IF n \in Above(x) THEN Obj ELSE p[n]
    BY <1>1, <1>8, WithOne
  <2>2. DOMAIN P \subseteq Seq(Steps) /\ Reached(P, m)
    <3>1. CASE k \in Fields(p)
      BY <1>4, <1>5, <1>8, <3>1 DEF Reached
    <3>2. CASE k \notin Fields(p)
      <4>1. DOMAIN P = {<<>>} /\ \A n \in DOMAIN P : P[n] = Obj
        BY <3>2 DEF Whole
      <4> HIDE DEF P
      <4> QED
        BY <4>1, EmptySeq DEF Reached
    <3> QED
      BY <3>1, <3>2
  <2> HIDE DEF P
  <2>3. /\ DOMAIN V = {n \in DOMAIN P : m \notin Above(n)} \cup Above(m) \cup {m}
        /\ \A n \in DOMAIN V : V[n] = IF n = m THEN Yes ELSE IF n \in Above(m) THEN Obj ELSE P[n]
        /\ V = [n \in DOMAIN V |-> V[n]]
    BY <2>2, WithOne
  <2> HIDE DEF W, V
  <2>4. DOMAIN W \subseteq Seq(Steps)
    BY <1>1, <2>1
  <2>5. /\ DOMAIN Of(W, k) = {n \in Seq(Steps) : <<k>> \o n \in DOMAIN W}
        /\ Of(W, k) = [n \in DOMAIN Of(W, k) |-> W[<<k>> \o n]]
    BY <2>4, OfNames, OfFunction
  <2>6. \A n \in Seq(Steps) : <<k>> \o n \in DOMAIN W <=>
          (n \in DOMAIN Of(p, k) /\ m \notin Above(n)) \/ n \in Above(m) \/ n = m
    BY <1>3, <1>4, <2>1
  <2>7. \A n \in DOMAIN P \ (Above(m) \cup {m}) : n \in DOMAIN Of(p, k) /\ P[n] = p[<<k>> \o n]
    <3>1. CASE k \in Fields(p)
      BY <1>4, <3>1 DEF P
    <3>2. CASE k \notin Fields(p)
      <4>1. DOMAIN P = {<<>>}
        BY <3>2 DEF P, Whole
      <4>2. <<>> \in Above(m) \cup {m}
        BY RootAbove
      <4> QED
        BY <4>1, <4>2
    <3> QED
      BY <3>1, <3>2
  <2>8. DOMAIN Of(p, k) \subseteq DOMAIN P
    BY <1>6 DEF P
  <2>9. DOMAIN V \subseteq Seq(Steps)
    BY <1>2, <2>2, <2>3
  <2>10. DOMAIN Of(W, k) = DOMAIN V
    BY <1>2, <2>3, <2>5, <2>6, <2>7, <2>8, <2>9
  <2>11. \A n \in DOMAIN V : W[<<k>> \o n] = V[n]
    BY <1>3, <2>1, <2>3, <2>5, <2>7, <2>10
  <2>12. Of(W, k) = V
    BY <2>3, <2>5, <2>10, <2>11
  <2> QED
    BY <2>12 DEF W, V, P, x
<1> QED
  BY <1>7, <1>8

(* WithAll of one path satisfies the equations of setTraversing to true:   *)
(* it leaves true and false as they are and goes down the path, making     *)
(* the objects that are not there.                                         *)
LEMMA WithAllRecurs ==
  ASSUME NEW p \in Trees, NEW x \in Seq(Steps)
  PROVE  LET W == WithAll(p, {x}) IN
         IF x = <<>> THEN W = Whole(Yes)
         ELSE IF p[<<>>] # Obj THEN W = p
         ELSE /\ W[<<>>] = Obj /\ Fields(W) = Fields(p) \cup {Head(x)}
              /\ \A k \in Fields(W) :
                   Of(W, k) = IF k # Head(x) THEN Of(p, k)
                              ELSE WithAll(IF k \in Fields(p) THEN Of(p, k) ELSE Whole(Obj), {Tail(x)})
<1> DEFINE W == WithAll(p, {x})
<1>1. /\ DOMAIN p \subseteq Seq(Steps) /\ <<>> \in DOMAIN p
      /\ \A n \in DOMAIN p : \A m \in Above(n) : m \in DOMAIN p
  BY Shape
<1>2. CASE x = <<>>
  <2>1. Above(x) = {}
    BY <1>2, AboveRoot
  <2>2. Reached(p, x)
    BY <2>1 DEF Reached
  <2>3. /\ DOMAIN W = {m \in DOMAIN p : x \notin Above(m)} \cup Above(x) \cup {x}
        /\ \A n \in DOMAIN W : W[n] = IF n = x THEN Yes ELSE IF n \in Above(x) THEN Obj ELSE p[n]
        /\ W = [n \in DOMAIN W |-> W[n]]
    BY <1>1, <2>2, WithOne
  <2> HIDE DEF W
  <2>4. \A m \in DOMAIN p : m # <<>> => x \in Above(m)
    BY <1>1, <1>2, RootAbove
  <2>5. DOMAIN W = {<<>>} /\ W[<<>>] = Yes
    BY <1>2, <2>1, <2>3, <2>4
  <2>6. W = Whole(Yes)
    BY <2>3, <2>5 DEF Whole
  <2> QED
    BY <1>2, <2>6 DEF W
<1>3. CASE x # <<>> /\ p[<<>>] # Obj
  <2>1. <<>> \in Above(x)
    BY <1>3, RootAbove
  <2>2. ~Reached(p, x)
    BY <1>1, <1>3, <2>1 DEF Reached
  <2> QED
    BY <1>3, <2>2, NotReached
<1>4. CASE x # <<>> /\ p[<<>>] = Obj
  <2>1. Head(x) \in Steps /\ Tail(x) \in Seq(Steps) /\ x = <<Head(x)>> \o Tail(x) /\ <<>> \in Above(x)
    BY <1>4, SplitPath, RootAbove
  <2>2. W[<<>>] = Obj /\ \A n \in DOMAIN W : n \in DOMAIN p \/ n \in Above(x) \/ n = x
    <3>1. CASE Reached(p, x)
      <4>1. /\ DOMAIN W = {m \in DOMAIN p : x \notin Above(m)} \cup Above(x) \cup {x}
            /\ \A n \in DOMAIN W : W[n] = IF n = x THEN Yes ELSE IF n \in Above(x) THEN Obj ELSE p[n]
        BY <1>1, <3>1, WithOne
      <4> HIDE DEF W
      <4> QED
        BY <1>4, <2>1, <4>1
    <3>2. CASE ~Reached(p, x)
      BY <1>4, <3>2, NotReached
    <3> QED
      BY <3>1, <3>2
  <2>3. Above(x) = {<<>>} \cup {<<Head(x)>> \o m : m \in Above(Tail(x))} /\ Above(Tail(x)) \subseteq Seq(Steps)
    BY <2>1, AboveDown, AboveIn
  <2>4. \A n \in Above(x) : n # <<>> => Head(n) = Head(x)
    BY <2>1, <2>3, Down
  <2>5. Fields(W) \subseteq Fields(p) \cup {Head(x)}
    <3> HIDE DEF W
    <3> QED
      BY <2>2, <2>4 DEF Fields
  <2>6. ASSUME NEW k \in Fields(p) \cup {Head(x)}
        PROVE  /\ k \in Steps
               /\ Of(W, k) = IF k # Head(x) THEN Of(p, k)
                             ELSE WithAll(IF k \in Fields(p) THEN Of(p, k) ELSE Whole(Obj), {Tail(x)})
    <3>1. k \in Steps
      BY <2>1, FieldsAre
    <3>2. CASE k # Head(x)
      <4>1. Of(WithAll(p, {<<Head(x)>> \o Tail(x)}), k) = Of(p, k)
        BY <2>1, <3>1, <3>2, OfWithOther
      <4> QED
        BY <2>1, <3>1, <3>2, <4>1
    <3>3. CASE k = Head(x)
      <4>1. Of(WithAll(p, {<<k>> \o Tail(x)}), k) =
              WithAll(IF k \in Fields(p) THEN Of(p, k) ELSE Whole(Obj), {Tail(x)})
        BY <1>4, <2>1, <3>1, OfWithOwn
      <4> QED
        BY <2>1, <3>1, <3>3, <4>1
    <3> QED
      BY <3>1, <3>2, <3>3
  <2>7. ASSUME NEW k \in Fields(p) \cup {Head(x)} PROVE k \in Fields(W)
    <3>1. CASE Reached(p, x)
      <4>1. DOMAIN W = {m \in DOMAIN p : x \notin Above(m)} \cup Above(x) \cup {x}
        BY <1>1, <3>1, WithOne
      <4> HIDE DEF W
      <4>2. CASE k = Head(x)
        BY <1>4, <4>1, <4>2 DEF Fields
      <4>3. CASE k # Head(x)
        <5>1. k \in Steps /\ <<k>> \in DOMAIN p
          BY <4>3, FieldsAre
        <5>2. <<k>> # <<>> /\ Head(<<k>>) = k
          BY <5>1
        <5>3. Above(<<k>>) = {<<>>}
          BY <5>1, AboveStep
        <5>4. <<k>> \in DOMAIN W
          BY <1>4, <4>1, <5>1, <5>3
        <5> QED
          BY <5>2, <5>4 DEF Fields
      <4> QED
        BY <4>2, <4>3
    <3>2. CASE ~Reached(p, x)
      <4>1. W = p
        BY <3>2, NotReached
      <4>2. PICK n \in Above(x) \cap DOMAIN p : p[n] # Obj
        BY <3>2 DEF Reached
      <4>3. n # <<>> /\ Head(n) = Head(x)
        BY <1>4, <2>4, <4>2
      <4>4. Head(x) \in Fields(p)
        BY <4>2, <4>3 DEF Fields
      <4> QED
        BY <4>1, <4>4
    <3> QED
      BY <3>1, <3>2
  <2>8. Fields(W) = Fields(p) \cup {Head(x)}
    BY <2>5, <2>7
  <2> HIDE DEF W
  <2>9. \A k \in Fields(W) :
           Of(W, k) = IF k # Head(x) THEN Of(p, k)
                      ELSE WithAll(IF k \in Fields(p) THEN Of(p, k) ELSE Whole(Obj), {Tail(x)})
    BY <2>6, <2>8
  <2> QED
    BY <1>4, <2>2, <2>8, <2>9 DEF W
<1> QED
  BY <1>2, <1>3, <1>4

(* Paths above one that is above another are above it.                     *)
LEMMA AboveUp ==
  ASSUME NEW n \in Seq(Steps), NEW m \in Above(n), NEW k \in Above(m)
  PROVE  k \in Above(n)
<1>1. PICK i \in 0..(Len(n) - 1) : m = SubSeq(n, 1, i)
  BY DEF Above
<1>2. PICK j \in 0..(Len(m) - 1) : k = SubSeq(m, 1, j)
  BY DEF Above
<1>3. Len(n) \in Nat /\ i \in 0..Len(n) /\ Len(m) = i /\ \A t \in 1..i : m[t] = n[t]
  BY <1>1
<1>4. m \in Seq(Steps)
  BY AboveIn
<1>5. j \in 0..(Len(n) - 1) /\ j <= i
  BY <1>2, <1>3
<1>6. SubSeq(m, 1, j) = [t \in 1..j |-> m[t]] /\ SubSeq(n, 1, j) = [t \in 1..j |-> n[t]]
  BY <1>3, <1>4, <1>5
<1>7. SubSeq(m, 1, j) = SubSeq(n, 1, j)
  BY <1>3, <1>5, <1>6
<1> QED
  BY <1>2, <1>5, <1>7 DEF Above

AllReached(p, S) == {k \in S : Reached(p, k)}
Made(R) == UNION {Above(k) : k \in R}

LEMMA WithSets ==
  \A p, S : /\ DOMAIN WithAll(p, S) = {m \in DOMAIN p : \A k \in AllReached(p, S) : k \notin Above(m)}
                                       \cup Made(AllReached(p, S)) \cup AllReached(p, S)
            /\ \A n \in DOMAIN WithAll(p, S) :
                 WithAll(p, S)[n] = IF n \in AllReached(p, S) THEN Yes
                                    ELSE IF n \in Made(AllReached(p, S)) THEN Obj ELSE p[n]
            /\ WithAll(p, S) = [n \in DOMAIN WithAll(p, S) |-> WithAll(p, S)[n]]
<1> TAKE p, S
<1> DEFINE R == AllReached(p, S)
           M == Made(R)
           W == WithAll(p, S)
           D == {m \in DOMAIN p : Above(m) \cap R = {}} \cup M \cup R
<1>1. W = [n \in D |-> IF n \in R THEN Yes ELSE IF n \in M THEN Obj ELSE p[n]]
  BY DEF WithAll, AllReached, Reached, Made
<1>2. {m \in DOMAIN p : Above(m) \cap R = {}} = {m \in DOMAIN p : \A k \in R : k \notin Above(m)}
  OBVIOUS
<1> HIDE DEF R, M, W
<1>3. D = {m \in DOMAIN p : \A k \in R : k \notin Above(m)} \cup M \cup R
  BY <1>2
<1> HIDE DEF D
<1>4. /\ DOMAIN W = D
      /\ \A n \in D : W[n] = IF n \in R THEN Yes ELSE IF n \in M THEN Obj ELSE p[n]
      /\ W = [n \in D |-> W[n]]
  BY <1>1
<1>5. /\ DOMAIN W = {m \in DOMAIN p : \A k \in R : k \notin Above(m)} \cup M \cup R
      /\ \A n \in DOMAIN W : W[n] = IF n \in R THEN Yes ELSE IF n \in M THEN Obj ELSE p[n]
      /\ W = [n \in DOMAIN W |-> W[n]]
  BY <1>3, <1>4
<1> QED
  BY <1>5 DEF R, M, W

LEMMA MadeIs == \A R, n : n \in Made(R) <=> \E k \in R : n \in Above(k)
BY DEF Made

(* WithAll of several keys is setTraversing of one after the other, in any *)
(* order, as addNeededProjectionForRelations does: none is above another.  *)
THEOREM WithAllOneByOne ==
  ASSUME NEW p \in Trees, NEW K \in SUBSET Seq(Steps), NEW x \in Seq(Steps),
         \A k \in K : k \notin Above(x) /\ x \notin Above(k)
  PROVE  WithAll(p, {}) = p /\ WithAll(p, K \cup {x}) = WithAll(WithAll(p, K), {x})
<1> DEFINE E == WithAll(p, {})
           q == WithAll(p, K)
           V == WithAll(q, {x})
           W == WithAll(p, K \cup {x})
           R == AllReached(p, K)
           M == Made(R)
<1>1. DOMAIN p \subseteq Seq(Steps) /\ p = [n \in DOMAIN p |-> p[n]]
  BY Shape, AFunction
<1>2. E = p
  <2>1. /\ DOMAIN E = DOMAIN p
        /\ \A n \in DOMAIN E : E[n] = p[n]
        /\ E = [n \in DOMAIN E |-> E[n]]
    <3>1. AllReached(p, {}) = {} /\ Made({}) = {}
      BY DEF AllReached, Made
    <3>2. /\ DOMAIN E = {m \in DOMAIN p : \A k \in AllReached(p, {}) : k \notin Above(m)}
                         \cup Made(AllReached(p, {})) \cup AllReached(p, {})
          /\ \A n \in DOMAIN E : E[n] = IF n \in AllReached(p, {}) THEN Yes
                                        ELSE IF n \in Made(AllReached(p, {})) THEN Obj ELSE p[n]
          /\ E = [n \in DOMAIN E |-> E[n]]
      BY WithSets
    <3> HIDE DEF E
    <3> QED
      BY <3>1, <3>2
  <2> HIDE DEF E
  <2> QED
    BY <1>1, <2>1
<1>3. /\ DOMAIN q = {m \in DOMAIN p : \A k \in R : k \notin Above(m)} \cup M \cup R
      /\ \A n \in DOMAIN q : q[n] = IF n \in R THEN Yes ELSE IF n \in M THEN Obj ELSE p[n]
      /\ q = [n \in DOMAIN q |-> q[n]]
  BY WithSets
<1>4. \A k \in R : k \in K /\ Reached(p, k)
  BY DEF AllReached
<1>5. AllReached(p, K \cup {x}) = IF Reached(p, x) THEN R \cup {x} ELSE R
  BY DEF AllReached
<1>6. AllReached(q, {x}) = IF Reached(q, x) THEN {x} ELSE {}
  BY DEF AllReached
<1>7. LET Q == AllReached(p, K \cup {x}) IN
      /\ DOMAIN W = {m \in DOMAIN p : \A k \in Q : k \notin Above(m)} \cup Made(Q) \cup Q
      /\ \A n \in DOMAIN W : W[n] = IF n \in Q THEN Yes ELSE IF n \in Made(Q) THEN Obj ELSE p[n]
      /\ W = [n \in DOMAIN W |-> W[n]]
  BY WithSets
<1>8. LET Q == AllReached(q, {x}) IN
      /\ DOMAIN V = {m \in DOMAIN q : \A k \in Q : k \notin Above(m)} \cup Made(Q) \cup Q
      /\ \A n \in DOMAIN V : V[n] = IF n \in Q THEN Yes ELSE IF n \in Made(Q) THEN Obj ELSE q[n]
      /\ V = [n \in DOMAIN V |-> V[n]]
  BY WithSets
<1> HIDE DEF q, V, W, M, R, E
<1>9. \A n \in Above(x) \cap DOMAIN p : n \in DOMAIN q
  <2> SUFFICES ASSUME NEW n \in Above(x) \cap DOMAIN p, NEW k \in R PROVE k \notin Above(n)
    BY <1>3
  <2> QED
    BY <1>4, AboveUp
<1>10. Reached(p, x) <=> Reached(q, x)
  <2>1. \A n \in Above(x) \cap DOMAIN p : q[n] = Obj <=> p[n] = Obj
    BY <1>3, <1>4, <1>9, MadeIs DEF M, Reached
  <2>2. \A n \in (Above(x) \cap DOMAIN q) \ DOMAIN p : q[n] = Obj
    BY <1>3, <1>4, MadeIs DEF M
  <2> QED
    BY <1>9, <2>1, <2>2 DEF Reached
<1>11. \A n \in M \cup R : x \notin Above(n)
  <2>1. \A n \in M : x \notin Above(n)
    <3> SUFFICES ASSUME NEW k \in R, NEW n \in Above(k), x \in Above(n) PROVE FALSE
      BY MadeIs DEF M
    <3> QED
      BY <1>4, AboveUp
  <2> QED
    BY <1>4, <2>1
<1>12. CASE ~Reached(p, x)
  <2>1. /\ DOMAIN W = {m \in DOMAIN p : \A k \in R : k \notin Above(m)} \cup M \cup R
        /\ \A n \in DOMAIN W : W[n] = IF n \in R THEN Yes ELSE IF n \in M THEN Obj ELSE p[n]
        /\ W = [n \in DOMAIN W |-> W[n]]
    <3>1. AllReached(p, K \cup {x}) = R
      BY <1>5, <1>12
    <3> QED
      BY <1>7, <3>1 DEF M
  <2>2. /\ DOMAIN V = DOMAIN q
        /\ \A n \in DOMAIN V : V[n] = q[n]
        /\ V = [n \in DOMAIN V |-> V[n]]
    <3>1. AllReached(q, {x}) = {} /\ Made({}) = {}
      BY <1>6, <1>10, <1>12 DEF Made
    <3> QED
      BY <1>8, <3>1
  <2>3. DOMAIN W = DOMAIN q /\ \A n \in DOMAIN q : W[n] = q[n]
    BY <1>3, <2>1
  <2>4. W = V
    BY <2>1, <2>2, <2>3
  <2> QED
    BY <1>2, <2>4 DEF E, V, W, q
<1>13. CASE Reached(p, x)
  <2>1. Made(R \cup {x}) = M \cup Above(x) /\ Made({x}) = Above(x)
    BY DEF M, Made
  <2>2. /\ DOMAIN W = {m \in DOMAIN p : \A k \in R \cup {x} : k \notin Above(m)}
                      \cup (M \cup Above(x)) \cup (R \cup {x})
        /\ \A n \in DOMAIN W : W[n] = IF n \in R \cup {x} THEN Yes
                                      ELSE IF n \in M \cup Above(x) THEN Obj ELSE p[n]
        /\ W = [n \in DOMAIN W |-> W[n]]
    BY <1>5, <1>7, <1>13, <2>1
  <2>3. /\ DOMAIN V = {m \in DOMAIN q : x \notin Above(m)} \cup Above(x) \cup {x}
        /\ \A n \in DOMAIN V : V[n] = IF n = x THEN Yes ELSE IF n \in Above(x) THEN Obj ELSE q[n]
        /\ V = [n \in DOMAIN V |-> V[n]]
    <3>1. AllReached(q, {x}) = {x}
      BY <1>6, <1>10, <1>13
    <3>2. {m \in DOMAIN q : \A k \in {x} : k \notin Above(m)} = {m \in DOMAIN q : x \notin Above(m)}
      OBVIOUS
    <3> QED
      BY <1>8, <2>1, <3>1, <3>2
  <2>4. DOMAIN V = DOMAIN W
    BY <1>3, <1>11, <2>2, <2>3
  <2>5. \A n \in DOMAIN V : V[n] = W[n]
    <3>1. \A n \in Above(x) : n \notin R
      BY <1>4
    <3> QED
      BY <1>3, <1>4, <2>2, <2>3, <2>4, <3>1
  <2>6. W = V
    BY <2>2, <2>3, <2>4, <2>5
  <2> QED
    BY <1>2, <2>6 DEF E, V, W, q
<1> QED
  BY <1>12, <1>13

-----------------------------------------------------------------------------
(* The recursion has one solution                                          *)
(*                                                                         *)
(* The equations hold of no other functions, so the operators are what the *)
(* code computes on objects of every depth.                                *)

LEMMA Least ==
  ASSUME NEW S, S \subseteq Nat, S # {}
  PROVE  \E x \in S : \A y \in S : x <= y
<1> DEFINE Less == {p \in Nat \X Nat : p[1] < p[2]}
<1>1. IsWellFoundedOn(Less, Nat)
  BY NatLessThanWellFounded DEF OpToRel
<1>2. PICK x \in S : \A y \in S : <<y, x>> \notin Less
  <2> HIDE DEF Less
  <2> QED
    BY <1>1, WFMin
<1>3. \A y \in S : ~(y < x)
  BY <1>2
<1> QED
  BY <1>3

(* What holds of the root, and of a path below a field if of the path, is  *)
(* true of every path.                                                     *)
LEMMA PathInduction ==
  ASSUME NEW S, <<>> \in S, \A k \in Steps : \A m \in S \cap Seq(Steps) : <<k>> \o m \in S
  PROVE  Seq(Steps) \subseteq S
<1> SUFFICES ASSUME NEW n \in Seq(Steps), n \notin S PROVE FALSE
  OBVIOUS
<1> DEFINE L == {Len(m) : m \in Seq(Steps) \ S}
<1>1. L \subseteq Nat /\ L # {}
  OBVIOUS
<1>2. PICK i \in L : \A j \in L : i <= j
  <2> HIDE DEF L
  <2> QED
    BY <1>1, Least
<1>3. PICK m \in Seq(Steps) \ S : Len(m) = i
  BY <1>2
<1>4. m # <<>>
  BY <1>3
<1>5. Head(m) \in Steps /\ Tail(m) \in Seq(Steps) /\ m = <<Head(m)>> \o Tail(m)
  BY <1>3, <1>4, SplitPath
<1>6. Tail(m) \notin S
  BY <1>3, <1>5
<1>7. Len(Tail(m)) \in L /\ Len(m) = Len(Tail(m)) + 1 /\ Len(Tail(m)) \in Nat
  <2>1. Len(m) \in Nat /\ Len(m) # 0
    BY <1>3, <1>4
  <2>2. Len(Tail(m)) = Len(m) - 1
    BY <1>3, <2>1
  <2>3. Len(Tail(m)) \in L
    BY <1>5, <1>6
  <2> HIDE DEF L
  <2> QED
    BY <2>1, <2>2, <2>3, <1>5
<1>8. i <= Len(Tail(m))
  BY <1>2, <1>7
<1> QED
  BY <1>3, <1>7, <1>8

(* Objects are finite, so no path is longer than some number.              *)
Within(p, N) == \A n \in DOMAIN p : Len(n) <= N
Objects == {p \in Trees : \E N \in Nat : Within(p, N)}

LEMMA ObjectsAreTrees == Objects \subseteq Trees
BY DEF Objects

LEMMA ObjectsOf ==
  ASSUME NEW p \in Objects, NEW k \in Fields(p)
  PROVE  /\ p \in Trees /\ p[<<>>] = Obj /\ k \in Steps /\ Of(p, k) \in Objects
         /\ \A N \in Nat : Within(p, N) => N # 0 /\ Within(Of(p, k), N - 1)
<1>1. p \in Trees /\ p[<<>>] = Obj /\ k \in Steps /\ Of(p, k) \in Trees /\ <<k>> \in DOMAIN p
  BY OfProjection DEF Objects
<1>2. ASSUME NEW N \in Nat, Within(p, N) PROVE N # 0 /\ Within(Of(p, k), N - 1)
  <2>1. N # 0
    <3>1. Len(<<k>>) = 1 /\ Len(<<k>>) <= N
      BY <1>1, <1>2 DEF Within
    <3> QED
      BY <3>1
  <2>2. ASSUME NEW m \in DOMAIN Of(p, k) PROVE Len(m) <= N - 1
    <3>1. m \in Seq(Steps) /\ <<k>> \o m \in DOMAIN p
      BY <1>1, OfIs
    <3>2. Len(<<k>> \o m) = Len(m) + 1 /\ Len(m) \in Nat
      BY <1>1, <3>1
    <3>3. Len(<<k>> \o m) <= N
      BY <1>2, <3>1 DEF Within
    <3> QED
      BY <3>2, <3>3
  <2> QED
    BY <2>1, <2>2 DEF Within
<1>3. PICK N \in Nat : Within(p, N)
  BY DEF Objects
<1>4. N - 1 \in Nat /\ Within(Of(p, k), N - 1)
  BY <1>2, <1>3
<1> QED
  BY <1>1, <1>2, <1>4 DEF Objects

(* What holds of an object if of all that it has, is true of every object. *)
LEMMA ObjectInduction ==
  ASSUME NEW S, \A p \in Objects : (\A k \in Fields(p) : Of(p, k) \in S) => p \in S
  PROVE  Objects \subseteq S
<1> SUFFICES ASSUME NEW q \in Objects, q \notin S PROVE FALSE
  OBVIOUS
<1> DEFINE L == {N \in Nat : \E p \in Objects \ S : Within(p, N)}
<1>1. L \subseteq Nat /\ L # {}
  BY DEF Objects
<1>2. PICK N \in L : \A j \in L : N <= j
  <2> HIDE DEF L
  <2> QED
    BY <1>1, Least
<1>3. PICK p \in Objects \ S : Within(p, N)
  BY <1>2
<1>4. PICK k \in Fields(p) : Of(p, k) \notin S
  BY <1>3
<1>5. N \in Nat /\ N # 0 /\ Within(Of(p, k), N - 1) /\ Of(p, k) \in Objects
  BY <1>2, <1>3, <1>4, ObjectsOf
<1>6. N - 1 \in L
  BY <1>4, <1>5
<1>7. N <= N - 1
  BY <1>2, <1>6
<1> QED
  BY <1>5, <1>7

(* Two projections say the same of a path. *)
SameAt(a, b, n) == (n \in DOMAIN a <=> n \in DOMAIN b) /\ (n \in DOMAIN a => a[n] = b[n])

LEMMA SameBelow ==
  ASSUME NEW a \in Trees, NEW b \in Trees, NEW k \in Steps, NEW m \in Seq(Steps),
         SameAt(Of(a, k), Of(b, k), m)
  PROVE  SameAt(a, b, <<k>> \o m)
<1>1. /\ <<k>> \o m \in DOMAIN a <=> m \in DOMAIN Of(a, k)
      /\ <<k>> \o m \in DOMAIN b <=> m \in DOMAIN Of(b, k)
      /\ m \in DOMAIN Of(a, k) => Of(a, k)[m] = a[<<k>> \o m]
      /\ m \in DOMAIN Of(b, k) => Of(b, k)[m] = b[<<k>> \o m]
  BY OfIs
<1> QED
  BY <1>1 DEF SameAt

LEMMA SameEverywhere ==
  ASSUME NEW a \in Trees, NEW b \in Trees, \A n \in Seq(Steps) : SameAt(a, b, n)
  PROVE  a = b
<1>1. DOMAIN a \subseteq Seq(Steps) /\ DOMAIN b \subseteq Seq(Steps)
  BY Shape
<1>2. DOMAIN a = DOMAIN b /\ \A n \in DOMAIN a : a[n] = b[n]
  BY <1>1 DEF SameAt
<1> QED
  BY <1>2, AFunction

LEMMA TreeIs ==
  ASSUME NEW p, p = [n \in DOMAIN p |-> p[n]], DOMAIN p \subseteq Seq(Steps), <<>> \in DOMAIN p,
         \A n \in DOMAIN p : p[n] \in {Yes, No, Obj},
         \A n \in DOMAIN p : \A m \in Above(n) : m \in DOMAIN p /\ p[m] = Obj
  PROVE  p \in Trees
<1>1. p \in [DOMAIN p -> {Yes, No, Obj}]
  OBVIOUS
<1>2. IsProjection(p)
  BY DEF IsProjection
<1> QED
  BY <1>1, <1>2 DEF Trees

(* Of two paths above or at a third, one is above or at the other.         *)
LEMMA InLine ==
  ASSUME NEW n \in Seq(Steps), NEW m \in Above(n), NEW u \in Above(n)
  PROVE  m = u \/ m \in Above(u) \/ u \in Above(m)
<1>1. PICK i \in 0..(Len(n) - 1) : m = SubSeq(n, 1, i)
  BY DEF Above
<1>2. PICK j \in 0..(Len(n) - 1) : u = SubSeq(n, 1, j)
  BY DEF Above
<1>3. Len(n) \in Nat /\ Len(m) = i /\ Len(u) = j /\ (\A t \in 1..i : m[t] = n[t]) /\ \A t \in 1..j : u[t] = n[t]
  BY <1>1, <1>2
<1>4. m \in Seq(Steps) /\ u \in Seq(Steps)
  BY AboveIn
<1>5. CASE i < j
  <2>1. SubSeq(u, 1, i) = [t \in 1..i |-> u[t]] /\ m = [t \in 1..i |-> m[t]]
    BY <1>3, <1>4, <1>5
  <2>2. \A t \in 1..i : m[t] = u[t]
    BY <1>3, <1>5
  <2>3. m = SubSeq(u, 1, i)
    BY <2>1, <2>2
  <2>4. i \in 0..(Len(u) - 1)
    BY <1>3, <1>5
  <2> QED
    BY <2>3, <2>4 DEF Above
<1>6. CASE j < i
  <2>1. SubSeq(m, 1, j) = [t \in 1..j |-> m[t]] /\ u = [t \in 1..j |-> u[t]]
    BY <1>3, <1>4, <1>6
  <2>2. \A t \in 1..j : u[t] = m[t]
    BY <1>3, <1>6
  <2>3. u = SubSeq(m, 1, j)
    BY <2>1, <2>2
  <2>4. j \in 0..(Len(m) - 1)
    BY <1>3, <1>6
  <2> QED
    BY <2>3, <2>4 DEF Above
<1>7. CASE i = j
  BY <1>1, <1>2, <1>7
<1> QED
  BY <1>5, <1>6, <1>7

LEMMA MergeTree ==
  ASSUME NEW p \in Trees, NEW q \in Trees
  PROVE  Merge(p, q) \in Trees
<1> DEFINE M == Merge(p, q)
<1>1. /\ DOMAIN M = {m \in DOMAIN p \cup DOMAIN q : ~Covered(p, m) /\ ~Covered(q, m)}
      /\ \A n \in DOMAIN M : M[n] = Strongest({At(p, n), At(q, n)})
      /\ M = [n \in DOMAIN M |-> M[n]]
  BY DEF Merge
<1>2. DOMAIN p \subseteq Seq(Steps) /\ DOMAIN q \subseteq Seq(Steps) /\ <<>> \in DOMAIN p
  BY Shape
<1>3. DOMAIN M \subseteq Seq(Steps) /\ <<>> \in DOMAIN M
  BY <1>1, <1>2, AboveRoot DEF Covered
<1> HIDE DEF M
<1>4. ASSUME NEW n \in DOMAIN M PROVE M[n] \in {Yes, No, Obj}
  BY <1>1 DEF Strongest
<1>5. ASSUME NEW n \in DOMAIN M, NEW m \in Above(n) PROVE m \in DOMAIN M /\ M[m] = Obj
  <2>1. n \in Seq(Steps) /\ ~Covered(p, n) /\ ~Covered(q, n)
    BY <1>1, <1>3
  <2>2. ~Covered(p, m) /\ ~Covered(q, m)
    BY <2>1, AboveUp DEF Covered
  <2>3. (m \in DOMAIN p => p[m] # Yes) /\ (m \in DOMAIN q => q[m] # Yes)
    BY <2>1 DEF Covered
  <2>4. (m \in DOMAIN p /\ p[m] = Obj) \/ (m \in DOMAIN q /\ q[m] = Obj)
    BY <1>1, Shape
  <2>5. m \in DOMAIN M
    BY <1>1, <2>2, <2>4
  <2>6. Obj \in {At(p, m), At(q, m)} /\ Yes \notin {At(p, m), At(q, m)}
    BY <2>2, <2>3, <2>4, ValuesAssumption DEF At
  <2>7. Strongest({At(p, m), At(q, m)}) = Obj
    BY <2>6 DEF Strongest
  <2> QED
    BY <1>1, <2>5, <2>7
<1>6. M \in Trees
  BY <1>1, <1>3, <1>4, <1>5, TreeIs
<1> QED
  BY <1>6 DEF M

LEMMA IntersectTree ==
  ASSUME NEW p \in Trees, NEW q \in Trees
  PROVE  Intersect(p, q) \in Trees
<1> DEFINE M == Intersect(p, q)
<1>1. /\ DOMAIN M = {m \in DOMAIN p \cup DOMAIN q : Has(p, m) /\ Has(q, m)}
      /\ \A n \in DOMAIN M : M[n] = Weakest({At(p, n), At(q, n)})
      /\ M = [n \in DOMAIN M |-> M[n]]
  BY DEF Intersect
<1>2. DOMAIN p \subseteq Seq(Steps) /\ DOMAIN q \subseteq Seq(Steps) /\ <<>> \in DOMAIN p /\ <<>> \in DOMAIN q
  BY Shape
<1>3. DOMAIN M \subseteq Seq(Steps) /\ <<>> \in DOMAIN M
  BY <1>1, <1>2 DEF Has
<1> HIDE DEF M
<1>4. ASSUME NEW n \in DOMAIN M PROVE M[n] \in {Yes, No, Obj}
  BY <1>1 DEF Weakest
<1>5. ASSUME NEW r \in Trees, NEW n \in Seq(Steps), Has(r, n), NEW m \in Above(n)
      PROVE  Has(r, m) /\ At(r, m) \in {Yes, Obj} /\ (n \in DOMAIN r => m \in DOMAIN r /\ At(r, m) = Obj)
  <2>1. CASE n \in DOMAIN r
    BY <2>1, Shape, AtNamed DEF Has
  <2>2. CASE n \notin DOMAIN r
    <3>1. PICK u \in Above(n) \cap DOMAIN r : r[u] = Yes
      BY <1>5, <2>2 DEF Has, Covered
    <3>2. CASE m \in Above(u)
      BY <2>2, <3>1, <3>2, Shape, AtNamed DEF Has
    <3>3. CASE m = u
      BY <2>2, <3>1, <3>3, AtNamed DEF Has
    <3>4. CASE u \in Above(m)
      BY <2>2, <3>1, <3>4 DEF Has, At, Covered
    <3> QED
      BY <1>5, <3>1, <3>2, <3>3, <3>4, InLine
  <2> QED
    BY <2>1, <2>2
<1>6. ASSUME NEW n \in DOMAIN M, NEW m \in Above(n) PROVE m \in DOMAIN M /\ M[m] = Obj
  <2>1. n \in Seq(Steps) /\ Has(p, n) /\ Has(q, n) /\ n \in DOMAIN p \cup DOMAIN q
    BY <1>1, <1>3
  <2>2. /\ Has(p, m) /\ At(p, m) \in {Yes, Obj} /\ (n \in DOMAIN p => m \in DOMAIN p /\ At(p, m) = Obj)
        /\ Has(q, m) /\ At(q, m) \in {Yes, Obj} /\ (n \in DOMAIN q => m \in DOMAIN q /\ At(q, m) = Obj)
    BY <1>5, <2>1
  <2>3. m \in DOMAIN M
    BY <1>1, <2>1, <2>2
  <2>4. Obj \in {At(p, m), At(q, m)} /\ No \notin {At(p, m), At(q, m)}
    BY <2>1, <2>2, ValuesAssumption
  <2>5. Weakest({At(p, m), At(q, m)}) = Obj
    BY <2>4 DEF Weakest
  <2> QED
    BY <1>1, <2>3, <2>5
<1>7. M \in Trees
  BY <1>1, <1>3, <1>4, <1>6, TreeIs
<1> QED
  BY <1>7 DEF M

LEMMA WithTree ==
  ASSUME NEW p \in Trees, NEW x \in Seq(Steps)
  PROVE  WithAll(p, {x}) \in Trees
<1> DEFINE W == WithAll(p, {x})
<1>1. CASE ~Reached(p, x)
  BY <1>1, NotReached
<1>2. CASE Reached(p, x)
  <2>1. /\ DOMAIN p \subseteq Seq(Steps) /\ <<>> \in DOMAIN p
        /\ \A n \in DOMAIN p : p[n] \in {Yes, No, Obj} /\ \A m \in Above(n) : m \in DOMAIN p /\ p[m] = Obj
    BY Shape
  <2>2. /\ DOMAIN W = {m \in DOMAIN p : x \notin Above(m)} \cup Above(x) \cup {x}
        /\ \A n \in DOMAIN W : W[n] = IF n = x THEN Yes ELSE IF n \in Above(x) THEN Obj ELSE p[n]
        /\ W = [n \in DOMAIN W |-> W[n]]
    BY <1>2, <2>1, WithOne
  <2> HIDE DEF W
  <2>3. Above(x) \subseteq Seq(Steps) /\ x \notin Above(x)
    <3>1. \A i \in 0..(Len(x) - 1) : Len(SubSeq(x, 1, i)) = i /\ i # Len(x)
      OBVIOUS
    <3>2. x \notin Above(x)
      BY <3>1 DEF Above
    <3> QED
      BY <3>2, AboveIn
  <2>4. DOMAIN W \subseteq Seq(Steps) /\ <<>> \in DOMAIN W
    BY <2>1, <2>2, <2>3, AboveRoot
  <2>5. ASSUME NEW n \in DOMAIN W PROVE W[n] \in {Yes, No, Obj}
    BY <2>1, <2>2
  <2>6. ASSUME NEW n \in DOMAIN W, NEW m \in Above(n) PROVE m \in DOMAIN W /\ W[m] = Obj
    <3>1. CASE n \in Above(x) \cup {x}
      <4>1. m \in Above(x)
        BY <3>1, AboveUp
      <4> QED
        BY <2>2, <2>3, <4>1
    <3>2. CASE n \in DOMAIN p /\ x \notin Above(n)
      <4>1. n \in Seq(Steps) /\ m \in DOMAIN p /\ p[m] = Obj /\ m # x
        BY <2>1, <3>2
      <4>2. x \notin Above(m)
        BY <3>2, <4>1, AboveUp
      <4> QED
        BY <2>2, <4>1, <4>2
    <3> QED
      BY <2>2, <3>1, <3>2
  <2> QED
    BY <2>2, <2>4, <2>5, <2>6, TreeIs DEF W
<1> QED
  BY <1>1, <1>2

(* Two functions call themselves alike: what they return is the same, or   *)
(* an object each, with the same fields and in each field the same, or     *)
(* what calls with the same arguments return.                              *)
Alike(D, E, f, g) ==
  \A p \in D, q \in E :
    \/ f[p][q] = g[p][q]
    \/ /\ f[p][q][<<>>] = g[p][q][<<>>] /\ Fields(f[p][q]) = Fields(g[p][q])
       /\ \A k \in Fields(f[p][q]) :
            \/ Of(f[p][q], k) = Of(g[p][q], k)
            \/ \E P \in D, Q \in E : Of(f[p][q], k) = f[P][Q] /\ Of(g[p][q], k) = g[P][Q]

LEMMA OneSolution ==
  \A D, E : \A f, g \in [D -> [E -> Trees]] : Alike(D, E, f, g) => f = g
<1> TAKE D, E
<1> TAKE f, g \in [D -> [E -> Trees]]
<1> HAVE Alike(D, E, f, g)
<1> DEFINE S == {n \in Seq(Steps) : \A p \in D, q \in E : SameAt(f[p][q], g[p][q], n)}
<1>1. \A p \in D, q \in E : f[p][q] \in Trees /\ g[p][q] \in Trees
  OBVIOUS
<1>2. <<>> \in S
  <2> SUFFICES ASSUME NEW p \in D, NEW q \in E PROVE SameAt(f[p][q], g[p][q], <<>>)
    BY EmptySeq
  <2> QED
    BY <1>1, Shape DEF SameAt, Alike
<1>3. ASSUME NEW k \in Steps, NEW m \in S \cap Seq(Steps) PROVE <<k>> \o m \in S
  <2> SUFFICES ASSUME NEW p \in D, NEW q \in E PROVE SameAt(f[p][q], g[p][q], <<k>> \o m)
    BY Down
  <2>1. CASE f[p][q] = g[p][q]
    BY <2>1 DEF SameAt
  <2>2. CASE f[p][q] # g[p][q]
    <3>1. Fields(f[p][q]) = Fields(g[p][q])
      BY <2>2 DEF Alike
    <3>2. SameAt(Of(f[p][q], k), Of(g[p][q], k), m)
      <4>1. CASE k \in Fields(f[p][q])
        <5>1. \A P \in D, Q \in E : SameAt(f[P][Q], g[P][Q], m)
          OBVIOUS
        <5>2. \/ Of(f[p][q], k) = Of(g[p][q], k)
              \/ \E P \in D, Q \in E : Of(f[p][q], k) = f[P][Q] /\ Of(g[p][q], k) = g[P][Q]
          BY <2>2, <4>1 DEF Alike
        <5>3. CASE Of(f[p][q], k) = Of(g[p][q], k)
          BY <5>3 DEF SameAt
        <5>4. CASE \E P \in D, Q \in E : Of(f[p][q], k) = f[P][Q] /\ Of(g[p][q], k) = g[P][Q]
          BY <5>1, <5>4
        <5> QED
          BY <5>2, <5>3, <5>4
      <4>2. CASE k \notin Fields(f[p][q])
        <5>1. DOMAIN Of(f[p][q], k) = {} /\ DOMAIN Of(g[p][q], k) = {}
          BY <1>1, <2>2, <3>1, <4>2, NoFieldIsNothing
        <5> QED
          BY <5>1 DEF SameAt
      <4> QED
        BY <4>1, <4>2
    <3> QED
      BY <1>1, <3>2, SameBelow
  <2> QED
    BY <2>1, <2>2
<1>4. Seq(Steps) \subseteq S
  <2> HIDE DEF S
  <2> QED
    BY <1>2, <1>3, PathInduction
<1>5. \A p \in D, q \in E : f[p][q] = g[p][q]
  BY <1>1, <1>4, SameEverywhere
<1>6. \A p \in D : f[p] = g[p]
  BY <1>5
<1> QED
  BY <1>6

(* One call of mergeProjections, f being what the calls it makes return.   *)
MergeCall(f, p, q) ==
  IF Yes \in {p[<<>>], q[<<>>]} THEN f[p][q] = Whole(Yes)
  ELSE IF p[<<>>] = No THEN f[p][q] = q
  ELSE IF q[<<>>] = No THEN f[p][q] = p
  ELSE /\ f[p][q][<<>>] = Obj /\ Fields(f[p][q]) = Fields(p) \cup Fields(q)
       /\ \A k \in Fields(f[p][q]) :
            Of(f[p][q], k) = IF k \notin Fields(p) THEN Of(q, k)
                             ELSE IF k \notin Fields(q) THEN Of(p, k)
                             ELSE f[Of(p, k)][Of(q, k)]

MergesAsCode(f) ==
  f \in [Objects -> [Objects -> Trees]] /\ \A p, q \in Objects : MergeCall(f, p, q)

(* Merge is mergeProjections, by which the projections of middlewares and  *)
(* of computed fields are added: of all functions on objects, it is the    *)
(* only one by whose calls true absorbs, false is the other one, and two   *)
(* objects have the fields of either, merged if both have them.            *)
THEOREM MergeDetermined ==
  ASSUME NEW f
  PROVE  MergesAsCode(f) <=> f = [p \in Objects |-> [q \in Objects |-> Merge(p, q)]]
<1> DEFINE g == [p \in Objects |-> [q \in Objects |-> Merge(p, q)]]
<1>1. g \in [Objects -> [Objects -> Trees]] /\ \A p, q \in Objects : g[p][q] = Merge(p, q)
  <2>1. \A p, q \in Objects : Merge(p, q) \in Trees
    BY ObjectsAreTrees, MergeTree
  <2> QED
    BY <2>1
<1> HIDE DEF g
<1>2. MergesAsCode(g)
  <2> SUFFICES ASSUME NEW p \in Objects, NEW q \in Objects PROVE MergeCall(g, p, q)
    BY <1>1 DEF MergesAsCode
  <2>1. g[p][q] = Merge(p, q)
    BY <1>1
  <2>2. \A k \in Fields(p) \cap Fields(q) : g[Of(p, k)][Of(q, k)] = Merge(Of(p, k), Of(q, k))
    BY <1>1, ObjectsOf
  <2> QED
    BY <2>1, <2>2, ObjectsAreTrees, MergeRecurs DEF MergeCall
<1>3. ASSUME MergesAsCode(f) PROVE f = g
  <2>1. f \in [Objects -> [Objects -> Trees]] /\ g \in [Objects -> [Objects -> Trees]]
    BY <1>2, <1>3 DEF MergesAsCode
  <2>2. ASSUME NEW p \in Objects, NEW q \in Objects
        PROVE  \/ f[p][q] = g[p][q]
               \/ /\ f[p][q][<<>>] = g[p][q][<<>>] /\ Fields(f[p][q]) = Fields(g[p][q])
                  /\ \A k \in Fields(f[p][q]) :
                       \/ Of(f[p][q], k) = Of(g[p][q], k)
                       \/ \E P, Q \in Objects : Of(f[p][q], k) = f[P][Q] /\ Of(g[p][q], k) = g[P][Q]
    <3>1. MergeCall(f, p, q) /\ MergeCall(g, p, q)
      BY <1>2, <1>3 DEF MergesAsCode
    <3>2. CASE Yes \in {p[<<>>], q[<<>>]} \/ p[<<>>] = No \/ q[<<>>] = No
      BY <3>1, <3>2 DEF MergeCall
    <3>3. CASE ~(Yes \in {p[<<>>], q[<<>>]} \/ p[<<>>] = No \/ q[<<>>] = No)
      <4>1. /\ f[p][q][<<>>] = g[p][q][<<>>] /\ Fields(f[p][q]) = Fields(g[p][q])
            /\ Fields(f[p][q]) = Fields(p) \cup Fields(q)
        BY <3>1, <3>3 DEF MergeCall
      <4>2. ASSUME NEW k \in Fields(f[p][q]), k \in Fields(p) \cap Fields(q)
            PROVE  /\ Of(p, k) \in Objects /\ Of(q, k) \in Objects
                   /\ Of(f[p][q], k) = f[Of(p, k)][Of(q, k)] /\ Of(g[p][q], k) = g[Of(p, k)][Of(q, k)]
        BY <3>1, <3>3, <4>1, <4>2, ObjectsOf DEF MergeCall
      <4>3. ASSUME NEW k \in Fields(f[p][q]), k \notin Fields(p) \cap Fields(q)
            PROVE  Of(f[p][q], k) = Of(g[p][q], k)
        BY <3>1, <3>3, <4>1, <4>3 DEF MergeCall
      <4> QED
        BY <4>1, <4>2, <4>3
    <3> QED
      BY <3>2, <3>3
  <2>3. Alike(Objects, Objects, f, g)
    BY <2>2 DEF Alike
  <2> QED
    BY <2>1, <2>3, OneSolution
<1> QED
  BY <1>2, <1>3 DEF g

(* One call of intersectProjections, f being what the calls it makes return.   *)
IntersectCall(f, p, q) ==
  IF No \in {p[<<>>], q[<<>>]} THEN f[p][q] = Whole(No)
  ELSE IF p[<<>>] = Yes THEN f[p][q] = q
  ELSE IF q[<<>>] = Yes THEN f[p][q] = p
  ELSE /\ f[p][q][<<>>] = Obj /\ Fields(f[p][q]) = Fields(p) \cap Fields(q)
       /\ \A k \in Fields(f[p][q]) : Of(f[p][q], k) = f[Of(p, k)][Of(q, k)]

IntersectsAsCode(f) ==
  f \in [Objects -> [Objects -> Trees]] /\ \A p, q \in Objects : IntersectCall(f, p, q)

(* Intersect is intersectProjections, by which a permission restricts      *)
(* what is read: it is the only function by whose calls false absorbs,     *)
(* true is the other one, and two objects keep the fields of both,         *)
(* intersected.                                                            *)
THEOREM IntersectDetermined ==
  ASSUME NEW f
  PROVE  IntersectsAsCode(f) <=> f = [p \in Objects |-> [q \in Objects |-> Intersect(p, q)]]
<1> DEFINE g == [p \in Objects |-> [q \in Objects |-> Intersect(p, q)]]
<1>1. g \in [Objects -> [Objects -> Trees]] /\ \A p, q \in Objects : g[p][q] = Intersect(p, q)
  <2>1. \A p, q \in Objects : Intersect(p, q) \in Trees
    BY ObjectsAreTrees, IntersectTree
  <2> QED
    BY <2>1
<1> HIDE DEF g
<1>2. IntersectsAsCode(g)
  <2> SUFFICES ASSUME NEW p \in Objects, NEW q \in Objects PROVE IntersectCall(g, p, q)
    BY <1>1 DEF IntersectsAsCode
  <2>1. g[p][q] = Intersect(p, q)
    BY <1>1
  <2>2. \A k \in Fields(p) \cap Fields(q) : g[Of(p, k)][Of(q, k)] = Intersect(Of(p, k), Of(q, k))
    BY <1>1, ObjectsOf
  <2> QED
    BY <2>1, <2>2, ObjectsAreTrees, IntersectRecurs DEF IntersectCall
<1>3. ASSUME IntersectsAsCode(f) PROVE f = g
  <2>1. f \in [Objects -> [Objects -> Trees]] /\ g \in [Objects -> [Objects -> Trees]]
    BY <1>2, <1>3 DEF IntersectsAsCode
  <2>2. ASSUME NEW p \in Objects, NEW q \in Objects
        PROVE  \/ f[p][q] = g[p][q]
               \/ /\ f[p][q][<<>>] = g[p][q][<<>>] /\ Fields(f[p][q]) = Fields(g[p][q])
                  /\ \A k \in Fields(f[p][q]) :
                       \/ Of(f[p][q], k) = Of(g[p][q], k)
                       \/ \E P, Q \in Objects : Of(f[p][q], k) = f[P][Q] /\ Of(g[p][q], k) = g[P][Q]
    <3>1. IntersectCall(f, p, q) /\ IntersectCall(g, p, q)
      BY <1>2, <1>3 DEF IntersectsAsCode
    <3>2. CASE No \in {p[<<>>], q[<<>>]} \/ p[<<>>] = Yes \/ q[<<>>] = Yes
      BY <3>1, <3>2 DEF IntersectCall
    <3>3. CASE ~(No \in {p[<<>>], q[<<>>]} \/ p[<<>>] = Yes \/ q[<<>>] = Yes)
      <4>1. /\ f[p][q][<<>>] = g[p][q][<<>>] /\ Fields(f[p][q]) = Fields(g[p][q])
            /\ Fields(f[p][q]) = Fields(p) \cap Fields(q)
        BY <3>1, <3>3 DEF IntersectCall
      <4>2. ASSUME NEW k \in Fields(f[p][q])
            PROVE  /\ Of(p, k) \in Objects /\ Of(q, k) \in Objects
                   /\ Of(f[p][q], k) = f[Of(p, k)][Of(q, k)] /\ Of(g[p][q], k) = g[Of(p, k)][Of(q, k)]
        BY <3>1, <3>3, <4>1, ObjectsOf DEF IntersectCall
      <4> QED
        BY <4>1, <4>2
    <3> QED
      BY <3>2, <3>3
  <2>3. Alike(Objects, Objects, f, g)
    BY <2>2 DEF Alike
  <2> QED
    BY <2>1, <2>3, OneSolution
<1> QED
  BY <1>2, <1>3 DEF g

LEMMA WholeObject ==
  ASSUME NEW v \in {Yes, No, Obj}
  PROVE  Whole(v) \in Objects
<1> DEFINE p == Whole(v)
<1>1. DOMAIN p = {<<>>} /\ (\A n \in DOMAIN p : p[n] = v) /\ p = [n \in DOMAIN p |-> p[n]]
  BY DEF Whole
<1> HIDE DEF p
<1>2. DOMAIN p \subseteq Seq(Steps)
  BY <1>1, EmptySeq
<1>3. p \in Trees
  BY <1>1, <1>2, AboveRoot, TreeIs
<1>4. Within(p, 0)
  BY <1>1, EmptySeq DEF Within
<1> QED
  BY <1>3, <1>4 DEF p, Objects

(* One call of setTraversing, at the path n.                               *)
SetCall(f, p, n) ==
  IF n = <<>> THEN f[p][n] = Whole(Yes)
  ELSE IF p[<<>>] # Obj THEN f[p][n] = p
  ELSE /\ f[p][n][<<>>] = Obj /\ Fields(f[p][n]) = Fields(p) \cup {Head(n)}
       /\ \A k \in Fields(f[p][n]) :
            Of(f[p][n], k) = IF k # Head(n) THEN Of(p, k)
                             ELSE f[IF k \in Fields(p) THEN Of(p, k) ELSE Whole(Obj)][Tail(n)]

SetsAsCode(f) ==
  f \in [Objects -> [Seq(Steps) -> Trees]] /\ \A p \in Objects, n \in Seq(Steps) : SetCall(f, p, n)

(* WithAll of one path is setTraversing to true, by which the keys of      *)
(* relations are added to a projection: it is the only function that       *)
(* leaves true and false as they are and calls itself down the path,       *)
(* making the objects that are not there.                                  *)
THEOREM WithAllDetermined ==
  ASSUME NEW f
  PROVE  SetsAsCode(f) <=> f = [p \in Objects |-> [n \in Seq(Steps) |-> WithAll(p, {n})]]
<1> DEFINE g == [p \in Objects |-> [n \in Seq(Steps) |-> WithAll(p, {n})]]
<1>1. /\ g \in [Objects -> [Seq(Steps) -> Trees]]
      /\ \A p \in Objects, n \in Seq(Steps) : g[p][n] = WithAll(p, {n})
  <2>1. \A p \in Objects, n \in Seq(Steps) : WithAll(p, {n}) \in Trees
    BY ObjectsAreTrees, WithTree
  <2> QED
    BY <2>1
<1> HIDE DEF g
<1>2. ASSUME NEW p \in Objects, NEW n \in Seq(Steps), n # <<>>, NEW k \in Steps
      PROVE  Tail(n) \in Seq(Steps) /\ (IF k \in Fields(p) THEN Of(p, k) ELSE Whole(Obj)) \in Objects
  BY <1>2, ObjectsOf, WholeObject, SplitPath
<1>3. SetsAsCode(g)
  <2> SUFFICES ASSUME NEW p \in Objects, NEW n \in Seq(Steps) PROVE SetCall(g, p, n)
    BY <1>1 DEF SetsAsCode
  <2>1. g[p][n] = WithAll(p, {n})
    BY <1>1
  <2>2. ASSUME n # <<>>, NEW k \in Steps
        PROVE  g[IF k \in Fields(p) THEN Of(p, k) ELSE Whole(Obj)][Tail(n)] =
                 WithAll(IF k \in Fields(p) THEN Of(p, k) ELSE Whole(Obj), {Tail(n)})
    BY <1>1, <1>2, <2>2
  <2>3. CASE n = <<>> \/ p[<<>>] # Obj
    BY <2>1, <2>3, ObjectsAreTrees, WithAllRecurs DEF SetCall
  <2>4. CASE n # <<>> /\ p[<<>>] = Obj
    <3> DEFINE W == WithAll(p, {n})
    <3>1. /\ W[<<>>] = Obj /\ Fields(W) = Fields(p) \cup {Head(n)}
          /\ \A k \in Fields(W) :
               Of(W, k) = IF k # Head(n) THEN Of(p, k)
                          ELSE WithAll(IF k \in Fields(p) THEN Of(p, k) ELSE Whole(Obj), {Tail(n)})
      BY <2>4, ObjectsAreTrees, WithAllRecurs
    <3>2. \A k \in Fields(W) : k \in Steps
      BY ObjectsAreTrees, WithTree, FieldsAre
    <3> HIDE DEF W
    <3>3. \A k \in Fields(W) :
            Of(W, k) = IF k # Head(n) THEN Of(p, k)
                       ELSE g[IF k \in Fields(p) THEN Of(p, k) ELSE Whole(Obj)][Tail(n)]
      <4> SUFFICES ASSUME NEW k \in Fields(W), k = Head(n)
                   PROVE  Of(W, k) = g[IF k \in Fields(p) THEN Of(p, k) ELSE Whole(Obj)][Tail(n)]
        BY <3>1
      <4>1. Of(W, k) = WithAll(IF k \in Fields(p) THEN Of(p, k) ELSE Whole(Obj), {Tail(n)})
        BY <3>1
      <4>2. k \in Steps
        BY <3>2
      <4> QED
        BY <2>2, <2>4, <4>1, <4>2
    <3>4. g[p][n] = W
      BY <2>1 DEF W
    <3> QED
      BY <2>4, <3>1, <3>3, <3>4 DEF SetCall
  <2> QED
    BY <2>3, <2>4
<1>4. ASSUME SetsAsCode(f) PROVE f = g
  <2>1. f \in [Objects -> [Seq(Steps) -> Trees]] /\ g \in [Objects -> [Seq(Steps) -> Trees]]
    BY <1>3, <1>4 DEF SetsAsCode
  <2>2. ASSUME NEW p \in Objects, NEW n \in Seq(Steps)
        PROVE  \/ f[p][n] = g[p][n]
               \/ /\ f[p][n][<<>>] = g[p][n][<<>>] /\ Fields(f[p][n]) = Fields(g[p][n])
                  /\ \A k \in Fields(f[p][n]) :
                       \/ Of(f[p][n], k) = Of(g[p][n], k)
                       \/ \E P \in Objects, m \in Seq(Steps) : Of(f[p][n], k) = f[P][m] /\ Of(g[p][n], k) = g[P][m]
    <3>1. SetCall(f, p, n) /\ SetCall(g, p, n)
      BY <1>3, <1>4 DEF SetsAsCode
    <3>2. CASE n = <<>> \/ p[<<>>] # Obj
      BY <3>1, <3>2 DEF SetCall
    <3>3. CASE n # <<>> /\ p[<<>>] = Obj
      <4>1. f[p][n][<<>>] = g[p][n][<<>>] /\ Fields(f[p][n]) = Fields(g[p][n])
        BY <3>1, <3>3 DEF SetCall
      <4>2. ASSUME NEW k \in Fields(f[p][n]), k # Head(n)
            PROVE  Of(f[p][n], k) = Of(g[p][n], k)
        BY <3>1, <3>3, <4>1, <4>2 DEF SetCall
      <4>3. ASSUME NEW k \in Fields(f[p][n]), k = Head(n)
            PROVE  \E P \in Objects, m \in Seq(Steps) : Of(f[p][n], k) = f[P][m] /\ Of(g[p][n], k) = g[P][m]
        <5> DEFINE P == IF k \in Fields(p) THEN Of(p, k) ELSE Whole(Obj)
        <5>1. Of(f[p][n], k) = f[P][Tail(n)] /\ Of(g[p][n], k) = g[P][Tail(n)]
          BY <3>1, <3>3, <4>1, <4>3 DEF SetCall
        <5>2. k \in Steps
          BY <3>3, <4>3, SplitPath
        <5>3. P \in Objects /\ Tail(n) \in Seq(Steps)
          BY <1>2, <3>3, <5>2
        <5> HIDE DEF P
        <5> QED
          BY <5>1, <5>3
      <4> QED
        BY <4>1, <4>2, <4>3
    <3> QED
      BY <3>2, <3>3
  <2>3. Alike(Objects, Seq(Steps), f, g)
    BY <2>2 DEF Alike
  <2> QED
    BY <2>1, <2>3, OneSolution
<1> QED
  BY <1>3, <1>4 DEF g

(* One call of getProjection and of getTraversing, at the path n.          *)
GetCall(f, p, n) ==
  f[p][n] = IF n = <<>> \/ p[<<>>] # Obj THEN p[<<>>]
            ELSE IF Head(n) \in Fields(p) THEN f[Of(p, Head(n))][Tail(n)]
            ELSE No

FindCall(f, p, n) ==
  f[p][n] = IF n = <<>> THEN p[<<>>] # No
            ELSE /\ p[<<>>] = Obj /\ Head(n) \in Fields(p)
                 /\ f[Of(p, Head(n))][Tail(n)]

GetsAsCode(f) ==
  /\ f \in [Objects -> [Seq(Steps) -> {Yes, No, Obj}]]
  /\ \A p \in Objects, n \in Seq(Steps) : GetCall(f, p, n)

FindsAsCode(f) ==
  f \in [Objects -> [Seq(Steps) -> BOOLEAN]] /\ \A p \in Objects, n \in Seq(Steps) : FindCall(f, p, n)

(* What goes down a path by the same equation is the same. *)
LEMMA OneReading ==
  \A R : \A f, g \in [Objects -> [Seq(Steps) -> R]] :
    (\A p \in Objects, n \in Seq(Steps) :
       \/ f[p][n] = g[p][n]
       \/ /\ n # <<>> /\ Head(n) \in Fields(p)
          /\ f[Of(p, Head(n))][Tail(n)] = g[Of(p, Head(n))][Tail(n)] => f[p][n] = g[p][n])
    => f = g
<1> TAKE R
<1> TAKE f, g \in [Objects -> [Seq(Steps) -> R]]
<1> HAVE \A p \in Objects, n \in Seq(Steps) :
           \/ f[p][n] = g[p][n]
           \/ /\ n # <<>> /\ Head(n) \in Fields(p)
              /\ f[Of(p, Head(n))][Tail(n)] = g[Of(p, Head(n))][Tail(n)] => f[p][n] = g[p][n]
<1> DEFINE S == {n \in Seq(Steps) : \A p \in Objects : f[p][n] = g[p][n]}
<1>1. <<>> \in S
  BY EmptySeq
<1>2. ASSUME NEW k \in Steps, NEW m \in S \cap Seq(Steps) PROVE <<k>> \o m \in S
  <2> DEFINE n == <<k>> \o m
  <2>1. n \in Seq(Steps) /\ Head(n) = k /\ Tail(n) = m
    BY Down
  <2> HIDE DEF n
  <2>2. ASSUME NEW p \in Objects PROVE f[p][n] = g[p][n]
    <3>1. CASE k \in Fields(p)
      <4>1. Of(p, k) \in Objects
        BY <3>1, ObjectsOf
      <4>2. f[Of(p, k)][m] = g[Of(p, k)][m]
        BY <4>1
      <4> QED
        BY <2>1, <4>2
    <3>2. CASE k \notin Fields(p)
      BY <2>1, <3>2
    <3> QED
      BY <3>1, <3>2
  <2> QED
    BY <2>1, <2>2 DEF n
<1>3. Seq(Steps) \subseteq S
  <2> HIDE DEF S
  <2> QED
    BY <1>1, <1>2, PathInduction
<1>4. \A p \in Objects : f[p] = g[p]
  BY <1>3
<1> QED
  BY <1>4

(* At is getProjection, which ends at true and false, and Mentions is      *)
(* whether getTraversing of a projection finds what is not false: they     *)
(* are the only functions that go down a path as the code does.            *)
THEOREM ReadsDetermined ==
  ASSUME NEW f
  PROVE  /\ GetsAsCode(f) <=> f = [p \in Objects |-> [n \in Seq(Steps) |-> At(p, n)]]
         /\ FindsAsCode(f) <=> f = [p \in Objects |-> [n \in Seq(Steps) |-> Mentions(p, n)]]
<1> DEFINE g == [p \in Objects |-> [n \in Seq(Steps) |-> At(p, n)]]
           h == [p \in Objects |-> [n \in Seq(Steps) |-> Mentions(p, n)]]
<1>1. /\ g \in [Objects -> [Seq(Steps) -> {Yes, No, Obj}]]
      /\ \A p \in Objects, n \in Seq(Steps) : g[p][n] = At(p, n)
  <2>1. \A p \in Objects, n \in Seq(Steps) : At(p, n) \in {Yes, No, Obj}
    BY ObjectsAreTrees, Shape DEF At
  <2> QED
    BY <2>1
<1>2. /\ h \in [Objects -> [Seq(Steps) -> BOOLEAN]]
      /\ \A p \in Objects, n \in Seq(Steps) : h[p][n] = Mentions(p, n)
  BY DEF Mentions
<1> HIDE DEF g, h
<1>3. ASSUME NEW p \in Objects, NEW n \in Seq(Steps), n # <<>>, Head(n) \in Fields(p)
      PROVE  Of(p, Head(n)) \in Objects /\ Tail(n) \in Seq(Steps)
  BY <1>3, ObjectsOf, SplitPath
<1>4. GetsAsCode(g)
  <2> SUFFICES ASSUME NEW p \in Objects, NEW n \in Seq(Steps) PROVE GetCall(g, p, n)
    BY <1>1 DEF GetsAsCode
  <2>1. At(p, n) = IF n = <<>> \/ p[<<>>] # Obj THEN p[<<>>]
                   ELSE IF Head(n) \in Fields(p) THEN At(Of(p, Head(n)), Tail(n))
                   ELSE No
    BY ObjectsAreTrees, ReadsRecur
  <2>2. CASE n # <<>> /\ Head(n) \in Fields(p)
    <3>1. g[Of(p, Head(n))][Tail(n)] = At(Of(p, Head(n)), Tail(n))
      BY <1>1, <1>3, <2>2
    <3> QED
      BY <1>1, <2>1, <3>1 DEF GetCall
  <2>3. CASE ~(n # <<>> /\ Head(n) \in Fields(p))
    BY <1>1, <2>1, <2>3 DEF GetCall
  <2> QED
    BY <2>2, <2>3
<1>5. FindsAsCode(h)
  <2> SUFFICES ASSUME NEW p \in Objects, NEW n \in Seq(Steps) PROVE FindCall(h, p, n)
    BY <1>2 DEF FindsAsCode
  <2>1. Mentions(p, n) <=> IF n = <<>> THEN p[<<>>] # No
                           ELSE /\ p[<<>>] = Obj /\ Head(n) \in Fields(p)
                                /\ Mentions(Of(p, Head(n)), Tail(n))
    BY ObjectsAreTrees, ReadsRecur
  <2>2. h[p][n] \in BOOLEAN /\ (h[p][n] <=> Mentions(p, n))
    BY <1>2
  <2>3. CASE n # <<>> /\ Head(n) \in Fields(p)
    <3>1. /\ h[Of(p, Head(n))][Tail(n)] \in BOOLEAN
          /\ h[Of(p, Head(n))][Tail(n)] <=> Mentions(Of(p, Head(n)), Tail(n))
      BY <1>2, <1>3, <2>3
    <3> QED
      BY <2>1, <2>2, <2>3, <3>1 DEF FindCall
  <2>4. CASE ~(n # <<>> /\ Head(n) \in Fields(p))
    BY <2>1, <2>2, <2>4 DEF FindCall
  <2> QED
    BY <2>3, <2>4
<1>6. ASSUME GetsAsCode(f) PROVE f = g
  <2>1. /\ f \in [Objects -> [Seq(Steps) -> {Yes, No, Obj}]]
        /\ g \in [Objects -> [Seq(Steps) -> {Yes, No, Obj}]]
    BY <1>4, <1>6 DEF GetsAsCode
  <2>2. \A p \in Objects, n \in Seq(Steps) :
          \/ f[p][n] = g[p][n]
          \/ /\ n # <<>> /\ Head(n) \in Fields(p)
             /\ f[Of(p, Head(n))][Tail(n)] = g[Of(p, Head(n))][Tail(n)] => f[p][n] = g[p][n]
    BY <1>4, <1>6 DEF GetsAsCode, GetCall
  <2> QED
    BY <2>1, <2>2, OneReading
<1>7. ASSUME FindsAsCode(f) PROVE f = h
  <2>1. f \in [Objects -> [Seq(Steps) -> BOOLEAN]] /\ h \in [Objects -> [Seq(Steps) -> BOOLEAN]]
    BY <1>5, <1>7 DEF FindsAsCode
  <2>2. \A p \in Objects, n \in Seq(Steps) :
          \/ f[p][n] = h[p][n]
          \/ /\ n # <<>> /\ Head(n) \in Fields(p)
             /\ f[Of(p, Head(n))][Tail(n)] = h[Of(p, Head(n))][Tail(n)] => f[p][n] = h[p][n]
    <3> SUFFICES ASSUME NEW p \in Objects, NEW n \in Seq(Steps)
        PROVE  \/ f[p][n] = h[p][n]
               \/ /\ n # <<>> /\ Head(n) \in Fields(p)
                  /\ f[Of(p, Head(n))][Tail(n)] = h[Of(p, Head(n))][Tail(n)] => f[p][n] = h[p][n]
      OBVIOUS
    <3>1. FindCall(f, p, n) /\ FindCall(h, p, n)
      BY <1>5, <1>7 DEF FindsAsCode
    <3>2. CASE n = <<>>
      BY <3>1, <3>2 DEF FindCall
    <3>3. CASE n # <<>> /\ Head(n) \in Fields(p)
      <4>1. ASSUME f[Of(p, Head(n))][Tail(n)] = h[Of(p, Head(n))][Tail(n)] PROVE f[p][n] = h[p][n]
        BY <3>1, <3>3, <4>1 DEF FindCall
      <4> QED
        BY <3>3, <4>1
    <3>4. CASE n # <<>> /\ Head(n) \notin Fields(p)
      <4>1. f[p][n] = FALSE /\ h[p][n] = FALSE
        BY <3>1, <3>4 DEF FindCall
      <4> QED
        BY <4>1
    <3> QED
      BY <3>2, <3>3, <3>4
  <2> QED
    BY <2>1, <2>2, OneReading
<1> QED
  BY <1>4, <1>5, <1>6, <1>7 DEF g, h

(* One call of isProjectionIntersected, of isProjectionContained, where q  *)
(* is the container, and of isEmptyProjection.                             *)
MeetCall(f, p, q) ==
  f[p][q] <=> /\ No \notin {p[<<>>], q[<<>>]}
              /\ \/ Yes \in {p[<<>>], q[<<>>]}
                 \/ \E k \in Fields(p) \cap Fields(q) : f[Of(p, k)][Of(q, k)]

ContainCall(f, p, q) ==
  f[p][q] <=> \/ q[<<>>] = Yes \/ p = q
              \/ q[<<>>] # No /\ p[<<>>] = No
              \/ /\ q[<<>>] = Obj /\ p[<<>>] = Obj
                 /\ \A k \in Fields(p) : k \in Fields(q) /\ f[Of(p, k)][Of(q, k)]

EmptyCall(f, p) == f[p] <=> p[<<>>] = Obj /\ \A k \in Fields(p) : f[Of(p, k)]

ComparesAsCode(meet, contain, empty) ==
  /\ meet \in [Objects -> [Objects -> BOOLEAN]] /\ \A p, q \in Objects : MeetCall(meet, p, q)
  /\ contain \in [Objects -> [Objects -> BOOLEAN]] /\ \A p, q \in Objects : ContainCall(contain, p, q)
  /\ empty \in [Objects -> BOOLEAN] /\ \A p \in Objects : EmptyCall(empty, p)

(* Intersected is isProjectionIntersected, which triggers middlewares,     *)
(* Contained is isProjectionContained, by which a permission grants, and   *)
(* IsEmptyProjection is isEmptyProjection: they are the only predicates    *)
(* with the calls of these.                                                *)
THEOREM ComparisonsDetermined ==
  ASSUME NEW meet, NEW contain, NEW empty
  PROVE  ComparesAsCode(meet, contain, empty) <=>
           /\ meet = [p \in Objects |-> [q \in Objects |-> Intersected(p, q)]]
           /\ contain = [p \in Objects |-> [q \in Objects |-> Contained(q, p)]]
           /\ empty = [p \in Objects |-> IsEmptyProjection(p)]
<1> DEFINE meets == [p \in Objects |-> [q \in Objects |-> Intersected(p, q)]]
           contains == [p \in Objects |-> [q \in Objects |-> Contained(q, p)]]
           empties == [p \in Objects |-> IsEmptyProjection(p)]
<1>1. /\ meets \in [Objects -> [Objects -> BOOLEAN]]
      /\ \A p, q \in Objects : meets[p][q] = Intersected(p, q)
  BY DEF Intersected
<1>2. /\ contains \in [Objects -> [Objects -> BOOLEAN]]
      /\ \A p, q \in Objects : contains[p][q] = Contained(q, p)
  BY DEF Contained
<1>3. /\ empties \in [Objects -> BOOLEAN]
      /\ \A p \in Objects : empties[p] = IsEmptyProjection(p)
  BY DEF IsEmptyProjection
<1> HIDE DEF meets, contains, empties
<1>4. \A p \in Objects : p \in Trees /\ \A k \in Fields(p) : Of(p, k) \in Objects
  BY ObjectsOf DEF Objects
<1>5. ASSUME NEW p \in Objects, NEW q \in Objects
      PROVE  MeetCall(meets, p, q) /\ ContainCall(contains, p, q) /\ EmptyCall(empties, p)
  <2>1. \A k \in Fields(p) \cap Fields(q) :
          /\ meets[Of(p, k)][Of(q, k)] = Intersected(Of(p, k), Of(q, k))
          /\ contains[Of(p, k)][Of(q, k)] = Contained(Of(q, k), Of(p, k))
    BY <1>1, <1>2, <1>4
  <2>2. \A k \in Fields(p) : empties[Of(p, k)] = IsEmptyProjection(Of(p, k))
    BY <1>3, <1>4
  <2>3. /\ meets[p][q] = Intersected(p, q) /\ contains[p][q] = Contained(q, p)
        /\ empties[p] = IsEmptyProjection(p)
    BY <1>1, <1>2, <1>3
  <2>4. /\ Intersected(p, q) <=>
              /\ No \notin {p[<<>>], q[<<>>]}
              /\ \/ Yes \in {p[<<>>], q[<<>>]}
                 \/ \E k \in Fields(p) \cap Fields(q) : Intersected(Of(p, k), Of(q, k))
        /\ Contained(q, p) <=>
              \/ q[<<>>] = Yes \/ p = q
              \/ q[<<>>] # No /\ p[<<>>] = No
              \/ /\ q[<<>>] = Obj /\ p[<<>>] = Obj
                 /\ \A k \in Fields(p) : k \in Fields(q) /\ Contained(Of(q, k), Of(p, k))
        /\ IsEmptyProjection(p) <=>
              p[<<>>] = Obj /\ \A k \in Fields(p) : IsEmptyProjection(Of(p, k))
    BY <1>4, ComparisonsRecur
  <2>5. MeetCall(meets, p, q)
    BY <2>1, <2>3, <2>4 DEF MeetCall
  <2>6. ContainCall(contains, p, q)
    BY <2>1, <2>3, <2>4 DEF ContainCall
  <2>7. EmptyCall(empties, p)
    BY <2>2, <2>3, <2>4 DEF EmptyCall
  <2> QED
    BY <2>5, <2>6, <2>7
<1>6. ComparesAsCode(meets, contains, empties)
  BY <1>1, <1>2, <1>3, <1>5 DEF ComparesAsCode
<1>7. ASSUME ComparesAsCode(meet, contain, empty)
      PROVE  meet = meets /\ contain = contains /\ empty = empties
  <2> DEFINE S == {p \in Objects : /\ \A q \in Objects : meet[p][q] = meets[p][q] /\ contain[p][q] = contains[p][q]
                                   /\ empty[p] = empties[p]}
  <2>1. ASSUME NEW p \in Objects, \A k \in Fields(p) : Of(p, k) \in S
        PROVE  p \in S
    <3>1. ASSUME NEW q \in Objects PROVE meet[p][q] = meets[p][q]
      <4>1. MeetCall(meet, p, q) /\ MeetCall(meets, p, q)
        BY <1>6, <1>7 DEF ComparesAsCode
      <4>2. \A k \in Fields(p) \cap Fields(q) : meet[Of(p, k)][Of(q, k)] = meets[Of(p, k)][Of(q, k)]
        BY <1>4, <2>1
      <4>3. meet[p][q] \in BOOLEAN /\ meets[p][q] \in BOOLEAN
        BY <1>6, <1>7 DEF ComparesAsCode
      <4>4. meet[p][q] <=> meets[p][q]
        BY <4>1, <4>2 DEF MeetCall
      <4> QED
        BY <4>3, <4>4
    <3>2. ASSUME NEW q \in Objects PROVE contain[p][q] = contains[p][q]
      <4>1. ContainCall(contain, p, q) /\ ContainCall(contains, p, q)
        BY <1>6, <1>7 DEF ComparesAsCode
      <4>2. \A k \in Fields(p) \cap Fields(q) : contain[Of(p, k)][Of(q, k)] = contains[Of(p, k)][Of(q, k)]
        BY <1>4, <2>1
      <4>3. contain[p][q] \in BOOLEAN /\ contains[p][q] \in BOOLEAN
        BY <1>6, <1>7 DEF ComparesAsCode
      <4>4. contain[p][q] <=> contains[p][q]
        BY <4>1, <4>2 DEF ContainCall
      <4> QED
        BY <4>3, <4>4
    <3>3. empty[p] = empties[p]
      <4>1. EmptyCall(empty, p) /\ EmptyCall(empties, p)
        BY <1>6, <1>7 DEF ComparesAsCode
      <4>2. \A k \in Fields(p) : empty[Of(p, k)] = empties[Of(p, k)]
        BY <2>1
      <4>3. empty[p] \in BOOLEAN /\ empties[p] \in BOOLEAN
        BY <1>6, <1>7 DEF ComparesAsCode
      <4>4. empty[p] <=> empties[p]
        BY <4>1, <4>2 DEF EmptyCall
      <4> QED
        BY <4>3, <4>4
    <3> QED
      BY <3>1, <3>2, <3>3
  <2>2. Objects \subseteq S
    <3> HIDE DEF S
    <3> QED
      BY <2>1, ObjectInduction
  <2>3. \A p \in Objects : meet[p] = meets[p] /\ contain[p] = contains[p] /\ empty[p] = empties[p]
    BY <1>6, <1>7, <2>2 DEF ComparesAsCode
  <2> QED
    BY <1>6, <1>7, <2>3 DEF ComparesAsCode
<1> QED
  BY <1>6, <1>7 DEF meets, contains, empties
=============================================================================
