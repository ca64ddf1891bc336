--------------------------- MODULE InMemoryProofs ---------------------------
(***************************************************************************)
(* Proofs about the in-memory driver, for every set of ids, fields, values *)
(* and filters and every growth policy of the array.                       *)
(*                                                                         *)
(* SlotsAccounted is not inductive: that an insertion leaves no hole       *)
(* depends on the order of the free stack.  StackShape supplies it: the    *)
(* slots never used so far sit at the bottom, highest first, so that they  *)
(* are taken in ascending order; slots freed by deletions lie above them.  *)
(***************************************************************************)
EXTENDS InMemoryDAO, FiniteSetTheorems, TLAPS

StackShape ==
  \E n \in 0..Len(emptyIndexes) :
     /\ \A k \in 1..n : emptyIndexes[k] = length + n - k
     /\ \A k \in (n + 1)..Len(emptyIndexes) : emptyIndexes[k] < length

SlotInv ==
  /\ TypeOK
  /\ SlotsAccounted
  /\ StackShape
  /\ emptyIndexes = <<>> => length > 0

-----------------------------------------------------------------------------
(* Types of the data. *)

LEMMA DocIsNotNull == \A d \in Doc : d # Null
BY NullIsNotADoc

LEMMA UpdatedType ==
  ASSUME NEW doc \in Doc, NEW ch \in Change
  PROVE  Updated(doc, ch) \in Doc
BY SpecialValues DEF Doc, Val, Change, Updated, DeepMerge

LEMMA ReplacedType ==
  ASSUME NEW doc \in Doc, NEW val \in Val
  PROVE  Replaced(doc, val) \in Doc
BY DEF Doc, Val, Replaced, DeepMerge

LEMMA OccupiedDoc ==
  ASSUME TypeOK, NEW i \in Occupied
  PROVE  memory[i] \in Doc /\ i \in 0..(length - 1)
BY DEF TypeOK, Occupied

LEMMA EntitiesOccupied ==
  ASSUME TypeOK, SlotsAccounted, NEW f \in Filters
  PROVE  Entities(f) \subseteq Occupied
<1>1. \A i \in Occupied : i \in DOMAIN memory
  BY DEF Occupied
<1>2. ASSUME NEW idf  PROVE IdPlan(idf) \subseteq DOMAIN memory
  BY DEF IdPlan, TypeOK, SlotsAccounted
<1>3. Plan(f) \subseteq DOMAIN memory
  BY <1>2 DEF Plan, AndPlans
<1> QED
  BY <1>1, <1>3 DEF Entities, Candidates, Occupied

-----------------------------------------------------------------------------
(* The slot allocator. *)

LEMMA InitSlotInv == Init => SlotInv
<1> SUFFICES ASSUME Init PROVE SlotInv
  OBVIOUS
<1> USE DEF Init, EmptyState
<1>1. TypeOK
  BY DEF TypeOK
<1>2. SlotsAccounted
  BY DEF SlotsAccounted
<1>3. StackShape
  BY 1 \in 0..Len(emptyIndexes) DEF StackShape
<1> QED
  BY <1>1, <1>2, <1>3 DEF SlotInv

LEMMA ClearSlotInv == ClearMemory => SlotInv'
<1> SUFFICES ASSUME ClearMemory PROVE SlotInv'
  OBVIOUS
<1> USE DEF ClearMemory
<1>1. TypeOK'
  BY DEF TypeOK
<1>2. SlotsAccounted'
  BY DEF SlotsAccounted
<1>3. StackShape'
  BY 1 \in 0..Len(emptyIndexes') DEF StackShape
<1> QED
  BY <1>1, <1>2, <1>3 DEF SlotInv

(* What taking the top of the stack leaves, and where the top is. *)
LEMMA TopOfStack ==
  ASSUME SlotInv, emptyIndexes # <<>>
  PROVE  /\ Top \in 0..length
         /\ Top \in DOMAIN memory => memory[Top] = Null
         /\ \A k \in 1..(Len(emptyIndexes) - 1) : emptyIndexes[k] # Top
<1> DEFINE L == Len(emptyIndexes)
<1>1. L \in Nat \ {0} /\ \A k \in 1..L : emptyIndexes[k] \in Nat
  BY DEF SlotInv, TypeOK
<1>2. PICK n \in 0..L :
        /\ \A k \in 1..n : emptyIndexes[k] = length + n - k
        /\ \A k \in (n + 1)..L : emptyIndexes[k] < length
  BY DEF SlotInv, StackShape
<1>3. length \in Nat
  BY DEF SlotInv, TypeOK
<1>4. Top \in 0..length
  <2>1. CASE n = L
    BY <2>1, <1>1, <1>2, <1>3 DEF Top
  <2>2. CASE n # L
    <3>1. L \in (n + 1)..L
      BY <2>2, <1>1
    <3> QED BY <3>1, <1>1, <1>2, <1>3 DEF Top
  <2> QED BY <2>1, <2>2
<1>5. DOMAIN emptyIndexes = 1..L
  BY DEF SlotInv, TypeOK
<1>6. Top \in DOMAIN memory => memory[Top] = Null
  BY <1>1, <1>5 DEF SlotInv, SlotsAccounted, Top
<1>7. ASSUME NEW k \in 1..(L - 1)  PROVE emptyIndexes[k] # Top
  <2>1. k \in 1..L /\ L \in 1..L /\ k # L
    BY <1>1
  <2>2. emptyIndexes[k] # emptyIndexes[L]
    BY <2>1, <1>5 DEF SlotInv, SlotsAccounted
  <2> QED
    BY <2>2 DEF Top
<1> QED
  BY <1>4, <1>6, <1>7

LEMMA FreeSlotSlotInv ==
  ASSUME SlotInv, NEW id \in Ids, NEW e \in Doc, InsertIntoFreeSlot(id, e)
  PROVE  SlotInv'
<1> DEFINE L == Len(emptyIndexes)
<1>0. emptyIndexes # <<>> /\ L \in Nat \ {0} /\ length \in Nat /\ DOMAIN emptyIndexes = 1..L
  BY DEF SlotInv, TypeOK, InsertIntoFreeSlot
<1>1. /\ Top \in 0..length
      /\ Top \in DOMAIN memory => memory[Top] = Null
      /\ \A k \in 1..(L - 1) : emptyIndexes[k] # Top
  BY <1>0, TopOfStack
<1>2. /\ Len(emptyIndexes') = L - 1
      /\ emptyIndexes' \in Seq(Nat)
      /\ DOMAIN emptyIndexes' = 1..(L - 1)
      /\ \A k \in 1..(L - 1) : emptyIndexes'[k] = emptyIndexes[k]
  BY <1>0 DEF SlotInv, TypeOK, InsertIntoFreeSlot
<1>3. /\ DOMAIN memory' = DOMAIN memory \cup {Top}
      /\ memory'[Top] = e
      /\ \A i \in DOMAIN memory : i # Top => memory'[i] = memory[i]
  BY DEF InsertIntoFreeSlot, Store
<1>4. length' \in Nat /\ length' > 0 /\ length' = IF Top < length THEN length ELSE length + 1
  BY <1>0, <1>1 DEF InsertIntoFreeSlot, Store
<1>5. DOMAIN memory = 0..(length - 1)
  BY DEF SlotInv, SlotsAccounted
<1>6. DOMAIN memory' = 0..(length' - 1)
  BY <1>0, <1>1, <1>3, <1>4, <1>5
<1>7. TypeOK'
  <2>1. \A i \in DOMAIN memory' : memory'[i] \in Doc \cup {Null}
    BY <1>3 DEF SlotInv, TypeOK
  <2>2. DOMAIN idIndex' \subseteq Ids /\ \A x \in DOMAIN idIndex' : idIndex'[x] \in 0..(length' - 1)
    BY <1>0, <1>1, <1>4 DEF SlotInv, TypeOK, InsertIntoFreeSlot, SetIdIndex
  <2> QED
    BY <1>2, <1>4, <1>6, <2>1, <2>2 DEF TypeOK
<1>8. SlotsAccounted'
  <2>1. ASSUME NEW i \in 0..(length' - 1)
        PROVE  memory'[i] = Null <=> \E k \in DOMAIN emptyIndexes' : emptyIndexes'[k] = i
    <3>1. CASE i = Top
      BY <3>1, <1>1, <1>2, <1>3, DocIsNotNull
    <3>2. CASE i # Top
      <4>1. i \in DOMAIN memory /\ memory'[i] = memory[i]
        BY <3>2, <2>1, <1>3, <1>6
      <4>2. memory[i] = Null <=> \E k \in 1..L : emptyIndexes[k] = i
        BY <4>1, <1>0, <1>5 DEF SlotInv, SlotsAccounted
      <4>3. \A k \in 1..L : k \in 1..(L - 1) \/ emptyIndexes[k] = Top
        BY <1>0 DEF Top
      <4>4. 1..(L - 1) \subseteq 1..L
        BY <1>0
      <4>5. (\E k \in 1..L : emptyIndexes[k] = i) <=> \E k \in 1..(L - 1) : emptyIndexes[k] = i
        BY <4>3, <4>4, <3>2
      <4>6. (\E k \in 1..(L - 1) : emptyIndexes[k] = i)
              <=> \E k \in DOMAIN emptyIndexes' : emptyIndexes'[k] = i
        BY <1>2
      <4> QED
        BY <4>1, <4>2, <4>5, <4>6
    <3> QED BY <3>1, <3>2
  <2>2. \A k, m \in DOMAIN emptyIndexes' : emptyIndexes'[k] = emptyIndexes'[m] => k = m
    BY <1>0, <1>2 DEF SlotInv, SlotsAccounted
  <2> QED
    BY <1>6, <2>1, <2>2 DEF SlotsAccounted
<1>a. L \in Nat \ {0} /\ length \in Nat
  BY <1>0
<1>b. length' = IF Top < length THEN length ELSE length + 1
  BY <1>4
<1>c. \A k \in 1..(L - 1) : emptyIndexes'[k] = emptyIndexes[k]
  BY <1>2
<1>d. Len(emptyIndexes') = L - 1
  BY <1>2
<1>9. StackShape'
  <2>1. PICK n \in 0..L :
          /\ \A k \in 1..n : emptyIndexes[k] = length + n - k
          /\ \A k \in (n + 1)..L : emptyIndexes[k] < length
    BY DEF SlotInv, StackShape
  <2>2. CASE n = L
    <3>1. Top = length
      BY <2>2, <2>1, <1>a DEF Top
    <3>2. \A k \in 1..(L - 1) : emptyIndexes'[k] = length' + (L - 1) - k
      <4>1. length' = length + 1
        BY <3>1, <1>a, <1>b
      <4>2. \A k \in 1..(L - 1) : k \in 1..n
        BY <2>2, <1>a
      <4> QED
        BY <4>1, <4>2, <2>1, <2>2, <1>a, <1>c
    <3>3. L - 1 \in 0..Len(emptyIndexes') /\ (L - 1 + 1)..(L - 1) = {}
      BY <1>a, <1>d
    <3> QED
      BY <3>2, <3>3, <1>d DEF StackShape
  <2>3. CASE n # L
    <3>1. Top < length
      BY <2>3, <2>1, <1>a DEF Top
    <3>2. n \in 0..Len(emptyIndexes')
      BY <2>3, <1>a, <1>d
    <3>3. length' = length
      BY <3>1, <1>b
    <3>4. (\A k \in 1..n : k \in 1..(L - 1)) /\ \A k \in (n + 1)..(L - 1) : k \in (n + 1)..L
      BY <3>2, <1>a, <1>d
    <3>5. \A k \in 1..n : emptyIndexes'[k] = length' + n - k
      BY <3>3, <3>4, <2>1, <1>c
    <3>6. \A k \in (n + 1)..(L - 1) : emptyIndexes'[k] < length'
      BY <3>3, <3>4, <2>1, <1>a, <1>c
    <3> QED
      BY <3>2, <3>5, <3>6, <1>d DEF StackShape
  <2> QED BY <2>2, <2>3
<1> QED
  BY <1>4, <1>7, <1>8, <1>9 DEF SlotInv

LEMMA GrowSlotInv ==
  ASSUME SlotInv, NEW id \in Ids, NEW e \in Doc, InsertAndGrow(id, e)
  PROVE  SlotInv'
<1> DEFINE n == SizeIncrement - 1
<1>1. length \in Nat /\ n \in Nat /\ SizeIncrement = n + 1
  BY GrowthAssumption DEF SlotInv, TypeOK, InsertAndGrow, SizeIncrement
<1>2. /\ emptyIndexes = <<>>
      /\ emptyIndexes' = [k \in 1..n |-> length + 1 + n - k]
      /\ length' = length + 1
  BY <1>1 DEF InsertAndGrow, Store
<1>3. emptyIndexes' \in Seq(Nat) /\ Len(emptyIndexes') = n /\ DOMAIN emptyIndexes' = 1..n
  BY <1>1, <1>2
<1>4. DOMAIN memory = 0..(length - 1) /\ \A i \in DOMAIN memory : memory[i] # Null
  BY <1>2 DEF SlotInv, SlotsAccounted
<1>5. /\ DOMAIN memory' = DOMAIN memory \cup {length}
      /\ memory'[length] = e
      /\ \A i \in DOMAIN memory : memory'[i] = memory[i]
  BY <1>1, <1>4 DEF InsertAndGrow, Store
<1>6. DOMAIN memory' = 0..(length' - 1)
  BY <1>1, <1>2, <1>4, <1>5
<1>7. TypeOK'
  <2>1. \A i \in DOMAIN memory' : memory'[i] \in Doc \cup {Null}
    BY <1>5 DEF SlotInv, TypeOK
  <2>2. DOMAIN idIndex' \subseteq Ids /\ \A x \in DOMAIN idIndex' : idIndex'[x] \in 0..(length' - 1)
    BY <1>1, <1>2 DEF SlotInv, TypeOK, InsertAndGrow, SetIdIndex
  <2> QED
    BY <1>1, <1>2, <1>3, <1>6, <2>1, <2>2 DEF TypeOK
<1>8. SlotsAccounted'
  <2>1. \A i \in 0..(length' - 1) : memory'[i] # Null
    BY <1>4, <1>5, <1>6, DocIsNotNull
  <2>2. \A k \in 1..n : emptyIndexes'[k] \notin 0..(length' - 1)
    BY <1>1, <1>2
  <2>3. \A k, m \in 1..n : emptyIndexes'[k] = emptyIndexes'[m] => k = m
    BY <1>1, <1>2
  <2> QED
    BY <1>3, <1>6, <2>1, <2>2, <2>3 DEF SlotsAccounted
<1>9. StackShape'
  <2>1. /\ n \in 0..Len(emptyIndexes')
        /\ \A k \in 1..n : emptyIndexes'[k] = length' + n - k
        /\ (n + 1)..Len(emptyIndexes') = {}
    BY <1>1, <1>2, <1>3
  <2> QED
    BY <2>1 DEF StackShape
<1>10. length' > 0
  BY <1>1, <1>2
<1> QED
  BY <1>7, <1>8, <1>9, <1>10 DEF SlotInv

(* Overwriting live records with records moves no slot. *)
LEMMA UpdateSlotInv ==
  ASSUME SlotInv, NEW new,
         DOMAIN new \subseteq Occupied,
         \A i \in DOMAIN new : new[i] \in Doc,
         UpdateElements(new)
  PROVE  SlotInv'
<1>1. /\ DOMAIN memory' = DOMAIN memory
      /\ \A i \in DOMAIN memory : memory'[i] = IF i \in DOMAIN new THEN new[i] ELSE memory[i]
      /\ UNCHANGED <<length, emptyIndexes, idIndex>>
  BY DEF UpdateElements
<1>2. \A i \in DOMAIN memory : memory'[i] = Null <=> memory[i] = Null
  BY <1>1, DocIsNotNull DEF Occupied
<1>3. TypeOK'
  BY <1>1 DEF SlotInv, TypeOK
<1>4. SlotsAccounted'
  BY <1>1, <1>2 DEF SlotInv, SlotsAccounted
<1>5. StackShape'
  BY <1>1 DEF SlotInv, StackShape
<1> QED
  BY <1>1, <1>3, <1>4, <1>5 DEF SlotInv

(* Deleting live records, each once, pushes exactly their slots. *)
LEMMA DeleteSlotInv ==
  ASSUME SlotInv, NEW order \in Seq(Occupied),
         \A k, m \in DOMAIN order : order[k] = order[m] => k = m,
         DeleteElements(order)
  PROVE  SlotInv'
<1> DEFINE S == {order[k] : k \in DOMAIN order}
           L == Len(emptyIndexes)
           D == Len(order)
<1>1. /\ DOMAIN memory' = DOMAIN memory
      /\ \A i \in DOMAIN memory : memory'[i] = IF i \in S THEN Null ELSE memory[i]
      /\ emptyIndexes' = emptyIndexes \o order
      /\ length' = length
  BY DEF DeleteElements
<1>2. /\ length \in Nat /\ DOMAIN memory = 0..(length - 1)
      /\ emptyIndexes \in Seq(Nat) /\ L \in Nat /\ DOMAIN emptyIndexes = 1..L
  BY DEF SlotInv, TypeOK, SlotsAccounted
<1>3. Occupied \subseteq 0..(length - 1)
  BY <1>2 DEF Occupied
<1>4. D \in Nat /\ DOMAIN order = 1..D /\ \A k \in 1..D : order[k] \in Occupied
  OBVIOUS
<1>5. order \in Seq(Nat)
  <2>1. order = [k \in 1..D |-> order[k]] /\ \A k \in 1..D : order[k] \in Nat
    BY <1>2, <1>3, <1>4
  <2> QED BY <2>1, <1>4
<1>6. /\ emptyIndexes' \in Seq(Nat)
      /\ Len(emptyIndexes') = L + D
      /\ DOMAIN emptyIndexes' = 1..(L + D)
      /\ \A k \in 1..L : emptyIndexes'[k] = emptyIndexes[k]
      /\ \A k \in (L + 1)..(L + D) : emptyIndexes'[k] = order[k - L]
  BY <1>1, <1>2, <1>4, <1>5
<1>7. TypeOK'
  <2>1. \A i \in DOMAIN memory' : memory'[i] \in Doc \cup {Null}
    BY <1>1 DEF SlotInv, TypeOK
  <2>2. DOMAIN idIndex' \subseteq Ids /\ \A x \in DOMAIN idIndex' : idIndex'[x] \in 0..(length' - 1)
    BY <1>1 DEF SlotInv, TypeOK, DeleteElements
  <2> QED
    BY <1>1, <1>2, <1>6, <2>1, <2>2 DEF TypeOK
<1>8. SlotsAccounted'
  <2>1. ASSUME NEW i \in 0..(length' - 1)
        PROVE  memory'[i] = Null <=> \E k \in DOMAIN emptyIndexes' : emptyIndexes'[k] = i
    <3>1. memory'[i] = Null <=> i \in S \/ memory[i] = Null
      BY <1>1, <1>2
    <3>2. memory[i] = Null <=> \E k \in 1..L : emptyIndexes'[k] = i
      BY <1>1, <1>2, <1>6 DEF SlotInv, SlotsAccounted
    <3>3. i \in S <=> \E k \in (L + 1)..(L + D) : emptyIndexes'[k] = i
      <4>1. ASSUME NEW k \in 1..D, order[k] = i
            PROVE  L + k \in (L + 1)..(L + D) /\ emptyIndexes'[L + k] = i
        <5>1. L + k \in (L + 1)..(L + D) /\ (L + k) - L = k
          BY <1>2, <1>4
        <5> QED BY <4>1, <5>1, <1>6
      <4>2. ASSUME NEW k \in (L + 1)..(L + D), emptyIndexes'[k] = i
            PROVE  k - L \in 1..D /\ order[k - L] = i
        BY <4>2, <1>2, <1>4, <1>6
      <4> QED
        BY <4>1, <4>2, <1>4
    <3>4. DOMAIN emptyIndexes' = 1..L \cup (L + 1)..(L + D)
      BY <1>2, <1>4, <1>6
    <3> QED
      BY <3>1, <3>2, <3>3, <3>4
  <2>2. ASSUME NEW k \in 1..(L + D), NEW m \in 1..(L + D), k < m
        PROVE  emptyIndexes'[k] # emptyIndexes'[m]
    <3>1. CASE m <= L
      <4>1. k \in 1..L /\ m \in 1..L /\ k # m
        BY <3>1, <2>2, <1>2, <1>4
      <4>2. emptyIndexes[k] # emptyIndexes[m]
        BY <4>1, <1>2 DEF SlotInv, SlotsAccounted
      <4> QED BY <4>1, <4>2, <1>6
    <3>2. CASE k <= L /\ m > L
      <4>1. emptyIndexes'[m] \in Occupied /\ emptyIndexes'[k] = emptyIndexes[k] /\ k \in 1..L
        <5>1. m \in (L + 1)..(L + D) /\ m - L \in 1..D /\ k \in 1..L
          BY <3>2, <1>2, <1>4
        <5> QED BY <5>1, <1>4, <1>6
      <4>2. emptyIndexes[k] \in DOMAIN memory => memory[emptyIndexes[k]] = Null
        BY <4>1, <1>2 DEF SlotInv, SlotsAccounted
      <4> QED
        BY <4>1, <4>2 DEF Occupied
    <3>3. CASE k > L
      <4>1. k - L \in 1..D /\ m - L \in 1..D /\ k - L # m - L
        BY <3>3, <2>2, <1>2, <1>4
      <4>2. emptyIndexes'[k] = order[k - L] /\ emptyIndexes'[m] = order[m - L]
        BY <3>3, <2>2, <1>2, <1>4, <1>6
      <4> QED
        BY <4>1, <4>2, <1>4
    <3> QED BY <3>1, <3>2, <3>3, <2>2, <1>2, <1>4
  <2>3. ASSUME NEW k \in 1..(L + D), NEW m \in 1..(L + D), emptyIndexes'[k] = emptyIndexes'[m]
        PROVE  k = m
    <3>1. k < m \/ m < k \/ k = m
      BY <1>2, <1>4
    <3> QED BY <3>1, <2>2, <2>3
  <2> QED
    BY <1>1, <1>2, <1>6, <2>1, <2>3 DEF SlotsAccounted
<1>9. StackShape'
  <2>1. PICK n \in 0..L :
          /\ \A k \in 1..n : emptyIndexes[k] = length + n - k
          /\ \A k \in (n + 1)..L : emptyIndexes[k] < length
    BY DEF SlotInv, StackShape
  <2>2. n \in 0..(L + D) /\ \A k \in 1..n : k \in 1..L
    BY <1>2, <1>4
  <2>3. \A k \in 1..n : emptyIndexes'[k] = length' + n - k
    BY <2>1, <2>2, <1>1, <1>6
  <2>4. ASSUME NEW k \in (n + 1)..(L + D)  PROVE emptyIndexes'[k] < length'
    <3>1. CASE k <= L
      <4>1. k \in (n + 1)..L /\ k \in 1..L
        BY <3>1, <1>2, <1>4
      <4> QED BY <4>1, <2>1, <1>1, <1>6
    <3>2. CASE k > L
      <4>1. emptyIndexes'[k] \in Occupied
        <5>1. k \in (L + 1)..(L + D) /\ k - L \in 1..D
          BY <3>2, <1>2, <1>4
        <5> QED BY <5>1, <1>4, <1>6
      <4>2. emptyIndexes'[k] \in 0..(length - 1)
        BY <4>1, <1>3
      <4>3. length' = length /\ length \in Nat
        BY <1>1, <1>2
      <4> QED BY <4>2, <4>3
    <3> QED BY <3>1, <3>2, <1>2, <1>4
  <2> QED
    BY <2>2, <2>3, <2>4, <1>6 DEF StackShape
<1>10. emptyIndexes' = <<>> => length' > 0
  <2>1. emptyIndexes' = <<>> => L = 0
    BY <1>2, <1>4, <1>6
  <2>2. L = 0 => emptyIndexes = <<>>
    BY <1>2
  <2> QED
    BY <2>1, <2>2, <1>1 DEF SlotInv
<1> QED
  BY <1>7, <1>8, <1>9, <1>10 DEF SlotInv

(* The slots of a deletion are visited once each. *)
LEMMA VisitOrderIsSeq ==
  ASSUME NEW S, IsFiniteSet(S), NEW order \in VisitOrders(S)
  PROVE  /\ order \in Seq(S)
         /\ \A k, m \in DOMAIN order : order[k] = order[m] => k = m
         /\ S = {order[k] : k \in DOMAIN order}
<1>1. Cardinality(S) \in Nat
  BY FS_CardinalityType
<1>2. order \in [1..Cardinality(S) -> S]
  BY DEF VisitOrders
<1> QED
  BY <1>1, <1>2 DEF VisitOrders

LEMMA OccupiedFinite ==
  ASSUME TypeOK, NEW S, S \subseteq Occupied
  PROVE  IsFiniteSet(S)
<1>1. length \in Nat /\ S \subseteq 0..(length - 1)
  BY DEF TypeOK, Occupied
<1>2. IsFiniteSet(0..(length - 1))
  BY <1>1, FS_Interval
<1> QED
  BY <1>1, <1>2, FS_Subset

(* The driver steps, in the form the three allocator lemmas need. *)
LEMMA UpdateOneStep ==
  ASSUME SlotInv, NEW f \in Filters, NEW ch \in Changes, UpdateOne(f, ch)
  PROVE  \E i \in Entities(f) :
           /\ i \in Occupied
           /\ UpdateElements([j \in {i} |-> Updated(memory[j], ch)])
BY EntitiesOccupied DEF UpdateOne, SlotInv

LEMMA NextSlotInv == SlotInv /\ [Next]_vars => SlotInv'
<1> SUFFICES ASSUME SlotInv, [Next]_vars PROVE SlotInv'
  OBVIOUS
<1>a. TypeOK /\ SlotsAccounted
  BY DEF SlotInv
<1>b. \A i \in Occupied : memory[i] \in Doc
  BY <1>a, OccupiedDoc
<1>1. ASSUME NEW doc \in Doc, InsertOne(doc)  PROVE SlotInv'
  <2>1. doc.id \in Ids
    BY DEF Doc
  <2> QED
    BY <1>1, <2>1, FreeSlotSlotInv, GrowSlotInv DEF InsertOne, InsertElement
<1>2. ASSUME NEW f \in Filters, NEW ch \in Changes, UpdateOne(f, ch)  PROVE SlotInv'
  <2>1. PICK i \in Occupied : UpdateElements([j \in {i} |-> Updated(memory[j], ch)])
    BY <1>2, UpdateOneStep
  <2>2. \A j \in {i} : Updated(memory[j], ch) \in Doc
    BY <1>b, UpdatedType, CallerAssumption
  <2> DEFINE new == [j \in {i} |-> Updated(memory[j], ch)]
  <2>3. DOMAIN new \subseteq Occupied /\ \A j \in DOMAIN new : new[j] \in Doc
    BY <2>2
  <2>4. UpdateElements(new)
    BY <2>1
  <2> HIDE DEF new
  <2> QED BY <2>3, <2>4, UpdateSlotInv
<1>3. ASSUME NEW f \in Filters, NEW ch \in Changes, UpdateAll(f, ch)  PROVE SlotInv'
  <2> DEFINE new == [j \in Entities(f) |-> Updated(memory[j], ch)]
  <2>1. Entities(f) \subseteq Occupied
    BY <1>a, EntitiesOccupied
  <2>2. \A j \in Entities(f) : Updated(memory[j], ch) \in Doc
    BY <2>1, <1>b, UpdatedType, CallerAssumption
  <2>3. DOMAIN new \subseteq Occupied /\ \A j \in DOMAIN new : new[j] \in Doc
    BY <2>1, <2>2
  <2>4. UpdateElements(new)
    BY <1>3 DEF UpdateAll
  <2> HIDE DEF new
  <2> QED BY <2>3, <2>4, UpdateSlotInv
<1>4. ASSUME NEW f \in Filters, NEW val \in Val, ReplaceOne(f, val)  PROVE SlotInv'
  <2>1. PICK i \in Occupied : UpdateElements([j \in {i} |-> Replaced(memory[j], val)])
    BY <1>4 DEF ReplaceOne, ReplaceTargets
  <2> DEFINE new == [j \in {i} |-> Replaced(memory[j], val)]
  <2>2. \A j \in {i} : Replaced(memory[j], val) \in Doc
    BY <1>b, ReplacedType
  <2>3. DOMAIN new \subseteq Occupied /\ \A j \in DOMAIN new : new[j] \in Doc
    BY <2>2
  <2>4. UpdateElements(new)
    BY <2>1
  <2> HIDE DEF new
  <2> QED BY <2>3, <2>4, UpdateSlotInv
<1>5. ASSUME NEW f \in Filters, DeleteOne(f)  PROVE SlotInv'
  <2>1. PICK i \in Entities(f) : DeleteElements(<<i>>)
    BY <1>5 DEF DeleteOne
  <2>2. i \in Occupied
    BY <1>a, EntitiesOccupied
  <2>3. <<i>> \in Seq(Occupied) /\ \A k, m \in DOMAIN <<i>> : <<i>>[k] = <<i>>[m] => k = m
    BY <2>2
  <2> QED BY <2>1, <2>3, DeleteSlotInv
<1>6. ASSUME NEW f \in Filters, DeleteAll(f)  PROVE SlotInv'
  <2>1. Entities(f) \subseteq Occupied /\ IsFiniteSet(Entities(f))
    BY <1>a, EntitiesOccupied, OccupiedFinite
  <2>2. PICK order \in VisitOrders(Entities(f)) : DeleteElements(order)
    BY <1>6 DEF DeleteAll
  <2>3. /\ order \in Seq(Entities(f))
        /\ \A k, m \in DOMAIN order : order[k] = order[m] => k = m
    BY <2>1, VisitOrderIsSeq
  <2>4. order \in Seq(Occupied)
    <3>1. \A k \in 1..Len(order) : order[k] \in Occupied
      BY <2>1, <2>3
    <3>2. order = [k \in 1..Len(order) |-> order[k]] /\ Len(order) \in Nat
      BY <2>3
    <3> QED BY <3>1, <3>2
  <2> QED BY <2>2, <2>3, <2>4, DeleteSlotInv
<1>7. CASE ClearMemory
  BY <1>7, ClearSlotInv
<1>8. CASE UNCHANGED vars
  BY <1>8 DEF SlotInv, TypeOK, SlotsAccounted, StackShape, vars, stateVars
<1> QED
  BY <1>1, <1>2, <1>3, <1>4, <1>5, <1>6, <1>7, <1>8 DEF Next

THEOREM SlotInvariant == Spec => []SlotInv
BY InitSlotInv, NextSlotInv, PTL DEF Spec

(* The array, the free stack and the id index are always well formed.      *)
THEOREM TypeCorrect == Spec => []TypeOK
BY SlotInvariant, PTL DEF SlotInv

(* No slot of the in-memory store is ever lost, handed out twice or        *)
(* skipped, whatever callers do with ids.                                  *)
THEOREM SlotsAlwaysAccounted == Spec => []SlotsAccounted
BY SlotInvariant, PTL DEF SlotInv

(* insertElement never computes a negative allocation size.                *)
THEOREM GrowthAlwaysSucceeds == Spec => []GrowthNeverFails
<1>1. SlotInv => GrowthNeverFails
  BY GrowthAssumption DEF SlotInv, TypeOK, GrowthNeverFails, SizeIncrement
<1> QED
  BY SlotInvariant, <1>1, PTL

-----------------------------------------------------------------------------
(* The id index, when callers keep ids unique. *)

LEMMA InsertedSlot ==
  ASSUME SlotInv, NEW doc \in Doc, InsertElement(doc.id, doc)
  PROVE  \E index :
           /\ index \notin Occupied
           /\ Occupied' = Occupied \cup {index}
           /\ memory'[index] = doc
           /\ \A i \in Occupied : memory'[i] = memory[i]
           /\ SetIdIndex(doc.id, index)
<1>1. PICK index : /\ index \notin Occupied
                   /\ SetIdIndex(doc.id, index) /\ Store(index, doc)
  <2>1. CASE InsertIntoFreeSlot(doc.id, doc)
    <3>1. emptyIndexes # <<>> /\ SetIdIndex(doc.id, Top) /\ Store(Top, doc)
      BY <2>1 DEF InsertIntoFreeSlot
    <3>2. Top \notin Occupied
      BY <3>1, TopOfStack DEF Occupied
    <3> QED BY <3>1, <3>2
  <2>2. CASE InsertAndGrow(doc.id, doc)
    <3>1. SetIdIndex(doc.id, length) /\ Store(length, doc)
      BY <2>2 DEF InsertAndGrow
    <3>2. length \notin Occupied
      BY DEF SlotInv, TypeOK, SlotsAccounted, Occupied
    <3> QED BY <3>1, <3>2
  <2> QED BY <2>1, <2>2 DEF InsertElement
<1>2. /\ DOMAIN memory' = DOMAIN memory \cup {index}
      /\ memory'[index] = doc
      /\ \A i \in DOMAIN memory : i # index => memory'[i] = memory[i]
  BY <1>1 DEF Store
<1>3. \A i \in Occupied : memory'[i] = memory[i]
  BY <1>1, <1>2 DEF Occupied
<1>4. Occupied' = Occupied \cup {index}
  BY <1>1, <1>2, <1>3, DocIsNotNull DEF Occupied
<1> QED
  BY <1>1, <1>2, <1>3, <1>4

LEMMA InsertIndexExact ==
  ASSUME SlotInv, ~clashed, IndexExact, NEW doc \in Doc, doc.id \notin LiveIds, InsertOne(doc)
  PROVE  IndexExact'
<1>1. PICK index :
        /\ index \notin Occupied
        /\ Occupied' = Occupied \cup {index}
        /\ memory'[index] = doc
        /\ \A i \in Occupied : memory'[i] = memory[i]
        /\ SetIdIndex(doc.id, index)
  BY InsertedSlot DEF InsertOne
<1>2. doc.id \notin LiveIds
  OBVIOUS
<1>3. DOMAIN idIndex = LiveIds /\ \A i \in Occupied : idIndex[memory[i].id] = i
  BY DEF IndexExact
<1>4. /\ DOMAIN idIndex' = DOMAIN idIndex \cup {doc.id}
      /\ idIndex'[doc.id] = index
      /\ \A x \in DOMAIN idIndex : x # doc.id => idIndex'[x] = idIndex[x]
  BY <1>1 DEF SetIdIndex
<1>5. LiveIds' = LiveIds \cup {doc.id}
  BY <1>1 DEF LiveIds
<1>6. ASSUME NEW i \in Occupied'  PROVE idIndex'[memory'[i].id] = i
  <2>1. CASE i = index
    BY <2>1, <1>1, <1>4
  <2>2. CASE i \in Occupied
    <3>1. memory[i].id \in LiveIds /\ memory[i].id # doc.id
      BY <2>2, <1>2 DEF LiveIds
    <3> QED BY <2>2, <3>1, <1>1, <1>3, <1>4
  <2> QED BY <2>1, <2>2, <1>1
<1> QED
  BY <1>3, <1>4, <1>5, <1>6 DEF IndexExact

LEMMA UpdateIndexExact ==
  ASSUME ~clashed, IndexExact, NEW new,
         DOMAIN new \subseteq Occupied,
         \A i \in DOMAIN new : new[i] \in Doc /\ new[i].id = memory[i].id,
         UpdateElements(new)
  PROVE  IndexExact'
<1>1. /\ DOMAIN memory' = DOMAIN memory
      /\ \A i \in DOMAIN memory : memory'[i] = IF i \in DOMAIN new THEN new[i] ELSE memory[i]
      /\ idIndex' = idIndex
  BY DEF UpdateElements
<1>2. Occupied' = Occupied
  BY <1>1, DocIsNotNull DEF Occupied
<1>3. \A i \in Occupied : memory'[i].id = memory[i].id
  BY <1>1 DEF Occupied
<1>4. LiveIds' = LiveIds
  BY <1>2, <1>3 DEF LiveIds
<1> QED
  BY <1>1, <1>2, <1>3, <1>4 DEF IndexExact

LEMMA DeleteIndexExact ==
  ASSUME ~clashed, IndexExact, NEW order,
         {order[k] : k \in DOMAIN order} \subseteq Occupied,
         DeleteElements(order)
  PROVE  IndexExact'
<1> DEFINE S == {order[k] : k \in DOMAIN order}
           gone == {memory[i].id : i \in S}
<1>1. /\ DOMAIN memory' = DOMAIN memory
      /\ \A i \in DOMAIN memory : memory'[i] = IF i \in S THEN Null ELSE memory[i]
      /\ idIndex' = [x \in DOMAIN idIndex \ gone |-> idIndex[x]]
  BY DEF DeleteElements
<1> HIDE DEF S
<1>2. Occupied' = Occupied \ S
  BY <1>1 DEF Occupied
<1>3. DOMAIN idIndex = LiveIds /\ \A i \in Occupied : idIndex[memory[i].id] = i
  BY DEF IndexExact
<1>4. \A i \in Occupied : memory'[i] = IF i \in S THEN Null ELSE memory[i]
  BY <1>1 DEF Occupied
<1>5. ASSUME NEW i \in Occupied \ S  PROVE memory[i].id \in DOMAIN idIndex \ gone
  <2>1. memory[i].id \in DOMAIN idIndex
    BY <1>3 DEF LiveIds
  <2>2. \A j \in S : memory[j].id # memory[i].id
    BY <1>3 DEF S
  <2> QED BY <2>1, <2>2
<1>6. \A i \in Occupied' : memory'[i] = memory[i] /\ i \in Occupied \ S
  BY <1>2, <1>4
<1>7. \A i \in Occupied' : idIndex'[memory'[i].id] = i
  BY <1>1, <1>3, <1>5, <1>6
<1>8. LiveIds' = LiveIds \ gone
  <2>1. LiveIds' = {memory[i].id : i \in Occupied \ S}
    BY <1>2, <1>6 DEF LiveIds
  <2>2. {memory[i].id : i \in Occupied \ S} \subseteq LiveIds \ gone
    BY <1>3, <1>5
  <2>3. LiveIds \ gone \subseteq {memory[i].id : i \in Occupied \ S}
    BY DEF LiveIds
  <2> QED BY <2>1, <2>2, <2>3
<1> QED
  BY <1>1, <1>3, <1>7, <1>8 DEF IndexExact

LEMMA NextIndexExact ==
  SlotInv /\ IndexExact /\ [Next]_vars => IndexExact'
<1> SUFFICES ASSUME SlotInv, IndexExact, [Next]_vars, ~clashed' PROVE IndexExact'
  BY DEF IndexExact
<1>a. TypeOK /\ SlotsAccounted
  BY DEF SlotInv
<1>b. \A i \in Occupied : memory[i] \in Doc
  BY <1>a, OccupiedDoc
<1>c. \A ch \in Changes : ch \in Change
  BY CallerAssumption
<1>d. ASSUME NEW doc \in Doc, NEW ch \in Changes, ch.id = Keep
      PROVE  Updated(doc, ch) \in Doc /\ Updated(doc, ch).id = doc.id
  BY <1>c, <1>d, UpdatedType DEF Updated
<1>e. ASSUME NEW doc \in Doc, NEW val \in Val
      PROVE  Replaced(doc, val) \in Doc /\ Replaced(doc, val).id = doc.id
  BY ReplacedType DEF Replaced
<1>1. ASSUME ~clashed, NEW doc \in Doc, InsertOne(doc), doc.id \notin LiveIds  PROVE IndexExact'
  BY <1>1, InsertIndexExact
<1>2. ASSUME ~clashed, NEW f \in Filters, NEW ch \in Changes, UpdateOne(f, ch), ch.id = Keep
      PROVE  IndexExact'
  <2>1. PICK i \in Occupied : UpdateElements([j \in {i} |-> Updated(memory[j], ch)])
    BY <1>2, UpdateOneStep
  <2> DEFINE new == [j \in {i} |-> Updated(memory[j], ch)]
  <2>2. /\ DOMAIN new \subseteq Occupied
        /\ \A j \in DOMAIN new : new[j] \in Doc /\ new[j].id = memory[j].id
    BY <1>2, <1>b, <1>d
  <2>3. UpdateElements(new)
    BY <2>1
  <2> HIDE DEF new
  <2> QED BY <1>2, <2>2, <2>3, UpdateIndexExact
<1>3. ASSUME ~clashed, NEW f \in Filters, NEW ch \in Changes, UpdateAll(f, ch), ch.id = Keep
      PROVE  IndexExact'
  <2> DEFINE new == [j \in Entities(f) |-> Updated(memory[j], ch)]
  <2>1. Entities(f) \subseteq Occupied
    BY <1>a, EntitiesOccupied
  <2>2. /\ DOMAIN new \subseteq Occupied
        /\ \A j \in DOMAIN new : new[j] \in Doc /\ new[j].id = memory[j].id
    BY <1>3, <2>1, <1>b, <1>d
  <2>3. UpdateElements(new)
    BY <1>3 DEF UpdateAll
  <2> HIDE DEF new
  <2> QED BY <1>3, <2>2, <2>3, UpdateIndexExact
<1>4. ASSUME ~clashed, NEW f \in Filters, NEW val \in Val, ReplaceOne(f, val)
      PROVE  IndexExact'
  <2>1. PICK i \in Occupied : UpdateElements([j \in {i} |-> Replaced(memory[j], val)])
    BY <1>4 DEF ReplaceOne, ReplaceTargets
  <2> DEFINE new == [j \in {i} |-> Replaced(memory[j], val)]
  <2>2. /\ DOMAIN new \subseteq Occupied
        /\ \A j \in DOMAIN new : new[j] \in Doc /\ new[j].id = memory[j].id
    BY <1>b, <1>e
  <2>3. UpdateElements(new)
    BY <2>1
  <2> HIDE DEF new
  <2> QED BY <1>4, <2>2, <2>3, UpdateIndexExact
<1>5. ASSUME ~clashed, NEW f \in Filters, DeleteOne(f)  PROVE IndexExact'
  <2>1. PICK i \in Entities(f) : DeleteElements(<<i>>)
    BY <1>5 DEF DeleteOne
  <2>2. i \in Occupied
    BY <1>a, EntitiesOccupied
  <2>3. {<<i>>[k] : k \in DOMAIN <<i>>} \subseteq Occupied
    BY <2>2
  <2> QED BY <1>5, <2>1, <2>3, DeleteIndexExact
<1>6. ASSUME ~clashed, NEW f \in Filters, DeleteAll(f)  PROVE IndexExact'
  <2>1. Entities(f) \subseteq Occupied
    BY <1>a, EntitiesOccupied
  <2>2. PICK order \in VisitOrders(Entities(f)) : DeleteElements(order)
    BY <1>6 DEF DeleteAll
  <2>3. Entities(f) = {order[k] : k \in DOMAIN order}
    BY DEF VisitOrders
  <2> QED BY <1>6, <2>1, <2>2, <2>3, DeleteIndexExact
<1>7. CASE ClearMemory
  BY <1>7 DEF ClearMemory, IndexExact, LiveIds, Occupied
<1>8. CASE UNCHANGED vars
  BY <1>8 DEF IndexExact, LiveIds, Occupied, vars, stateVars
<1> QED
  BY <1>1, <1>2, <1>3, <1>4, <1>5, <1>6, <1>7, <1>8 DEF Next, Clash

(* While ids are unique the id index is exact after any sequence of calls. *)
THEOREM IndexAlwaysExact == Spec => []IndexExact
<1>1. Init => IndexExact
  BY DEF Init, EmptyState, IndexExact, LiveIds, Occupied
<1> QED
  BY <1>1, NextIndexExact, SlotInvariant, PTL DEF Spec

(* An exact index proposes every record that satisfies the id condition.   *)
LEMMA IdPlanComplete ==
  ASSUME TypeOK, ~clashed, IndexExact, NEW i \in Occupied, NEW idf,
         HasIdPlan(idf), IdMatches(memory[i].id, idf), ~(idf.op = "eq" /\ Null \in idf.ids)
  PROVE  i \in IdPlan(idf)
<1>1. memory[i].id \in idf.ids
  BY DEF HasIdPlan, IdMatches
<1>2. memory[i].id \in DOMAIN idIndex /\ idIndex[memory[i].id] = i
  BY DEF IndexExact, LiveIds
<1> QED
  BY <1>1, <1>2 DEF IdPlan

LEMMA IndexedReadLemma ==
  ASSUME SlotInv, ~clashed, IndexExact, NEW f \in Filters, ~NullOperand(f)
  PROVE  Entities(f) = {i \in Occupied : Matches(memory[i], f)}
<1>1. TypeOK /\ SlotsAccounted
  BY DEF SlotInv
<1>2. Entities(f) \subseteq Occupied
  BY <1>1, EntitiesOccupied
<1>3. ASSUME NEW i \in Occupied, Matches(memory[i], f)  PROVE i \in Candidates(f)
  <2>1. IdMatches(memory[i].id, f.id) /\ \A g \in f.and : IdMatches(memory[i].id, g.id)
    BY <1>3 DEF Matches, SimpleMatches
  <2>2. /\ ~(f.id.op = "eq" /\ Null \in f.id.ids)
        /\ \A g \in f.and : ~(g.id.op = "eq" /\ Null \in g.id.ids)
    <3> DEFINE self == [id |-> f.id, val |-> f.val]
    <3>1. \A g \in f.and \cup {self} : ~(g.id.op = "eq" /\ Null \in g.id.ids)
      BY DEF NullOperand
    <3>2. self.id = f.id /\ self \in f.and \cup {self}
      OBVIOUS
    <3> HIDE DEF self
    <3>3. ~(self.id.op = "eq" /\ Null \in self.id.ids)
      BY <3>1, <3>2
    <3> QED
      BY <3>1, <3>2, <3>3
  <2>3. ASSUME UsesAndPlan(f)  PROVE i \in Plan(f)
    <3>1. \A P \in AndPlans(f) : i \in P
      BY <1>1, <2>1, <2>2, IdPlanComplete DEF AndPlans
    <3> QED
      BY <2>3, <3>1 DEF Plan, UsesAndPlan
  <2>4. ASSUME ~UsesAndPlan(f), HasIdPlan(f.id)  PROVE i \in Plan(f)
    BY <1>1, <2>1, <2>2, <2>4, IdPlanComplete DEF Plan
  <2> QED
    BY <2>3, <2>4 DEF Candidates, UsesIndex
<1>4. \A i \in Occupied : memory[i] # Null
  BY DEF Occupied
<1> QED
  BY <1>2, <1>3, <1>4 DEF Entities

(* A read through the id index returns what a scan of the slots returns.   *)
THEOREM IndexedReadsAreScans == Spec => []IndexedReadIsScan
<1>1. SlotInv /\ IndexExact => IndexedReadIsScan
  BY IndexedReadLemma DEF IndexedReadIsScan
<1> QED
  BY <1>1, SlotInvariant, IndexAlwaysExact, PTL

(* Whatever callers do with ids, an insertion adds its record and leaves   *)
(* the stored ones where they are.                                         *)
THEOREM InsertsKeepRecords == Spec => InsertKeepsRecords
<1>1. ASSUME SlotInv, NEW doc \in Doc, InsertOne(doc)
      PROVE  /\ \A i \in Occupied : memory'[i] = memory[i]
             /\ \E i \in Occupied' \ Occupied : memory'[i] = doc
  BY <1>1, InsertedSlot DEF InsertOne
<1>2. SlotInv /\ [Next]_vars =>
        [\A doc \in Doc : InsertOne(doc) =>
           /\ \A i \in Occupied : memory'[i] = memory[i]
           /\ \E i \in Occupied' \ Occupied : memory'[i] = doc]_vars
  BY <1>1
<1> QED
  BY <1>2, SlotInvariant, PTL DEF Spec, InsertKeepsRecords

-----------------------------------------------------------------------------
(***************************************************************************)
(* The in-memory driver implements the abstract collection: each step of   *)
(* InMemoryDAO, seen through StoredDocs, is a step of DocumentCollection   *)
(* or leaves the collection as it is.                                      *)
(***************************************************************************)

(* No filter compares the id with a null: see NullOperand.                 *)
NoNullOperands == \A f \in Filters : ~NullOperand(f)

(* Where ids are unique, the id of an element leads back to it.            *)
LEMMA ChosenById ==
  ASSUME NEW occupied, NEW mem, NEW i \in occupied,
         \A j, k \in occupied : mem[j].id = mem[k].id => j = k
  PROVE  (CHOOSE j \in occupied : mem[j].id = mem[i].id) = i
OBVIOUS

LEMMA StoredNow ==
  ASSUME SlotInv, IndexExact, ~clashed
  PROVE  /\ \A i \in Occupied : /\ memory[i].id \in Ids
                                /\ StoredDocs[memory[i].id] = memory[i].val
         /\ \A x \in Ids \ LiveIds : StoredDocs[x] = Null
<1>1. \A i \in Occupied : memory[i] \in Doc
  BY OccupiedDoc DEF SlotInv
<1>2. \A i, j \in Occupied : memory[i].id = memory[j].id => i = j
  BY DEF IndexExact
<1>3. ASSUME NEW i \in Occupied
      PROVE  memory[i].id \in Ids /\ StoredDocs[memory[i].id] = memory[i].val
  <2>1. memory[i].id \in Ids /\ memory[i].id \in LiveIds
    BY <1>1 DEF Doc, LiveIds
  <2>2. (CHOOSE j \in Occupied : memory[j].id = memory[i].id) = i
    BY <1>2, ChosenById
  <2> QED BY <2>1, <2>2 DEF StoredDocs
<1> QED
  BY <1>3 DEF StoredDocs

LEMMA StoredNext ==
  ASSUME SlotInv', IndexExact', ~clashed'
  PROVE  /\ \A i \in Occupied' : StoredDocs'[memory'[i].id] = memory'[i].val
         /\ \A x \in Ids \ LiveIds' : StoredDocs'[x] = Null
<1>1. \A i \in Occupied' : memory'[i] \in Doc
  BY DEF SlotInv, TypeOK, Occupied
<1>2. \A i, j \in Occupied' : memory'[i].id = memory'[j].id => i = j
  BY DEF IndexExact
<1>3. ASSUME NEW i \in Occupied'  PROVE StoredDocs'[memory'[i].id] = memory'[i].val
  <2>1. memory'[i].id \in Ids /\ memory'[i].id \in LiveIds'
    BY <1>1 DEF Doc, LiveIds
  <2>2. (CHOOSE j \in Occupied' : memory'[j].id = memory'[i].id) = i
    BY <1>2, ChosenById
  <2> QED BY <2>1, <2>2 DEF StoredDocs
<1> QED
  BY <1>3 DEF StoredDocs

(* The abstract module reads filters and changes with the same operators.  *)
LEMMA SameMatches ==
  ASSUME NEW doc, NEW f
  PROVE  Collection!Matches(doc, f) <=> Matches(doc, f)
<1>1. \A id, idf : Collection!IdMatches(id, idf) <=> IdMatches(id, idf)
  BY DEF Collection!IdMatches, IdMatches
<1>2. \A g : Collection!SimpleMatches(doc, g) <=> SimpleMatches(doc, g)
  BY <1>1 DEF Collection!SimpleMatches, SimpleMatches
<1> QED
  BY <1>2 DEF Collection!Matches, Matches

LEMMA SameDeepMerge ==
  ASSUME NEW weak, NEW strong, NEW nulls
  PROVE  Collection!DeepMerge(weak, strong, nulls) = DeepMerge(weak, strong, nulls)
BY DEF Collection!DeepMerge, DeepMerge

LEMMA SameUpdated ==
  ASSUME NEW doc, NEW ch
  PROVE  Collection!Updated(doc, ch) = Updated(doc, ch)
BY SameDeepMerge DEF Collection!Updated, Updated

(* The abstract collection selects the records the driver visits.          *)
LEMMA MatchingIsEntities ==
  ASSUME SlotInv, IndexExact, ~clashed, NEW f \in Filters, ~NullOperand(f)
  PROVE  /\ Collection!Matching(f) = {memory[i].id : i \in Entities(f)}
         /\ Collection!Present = LiveIds
         /\ \A i \in Occupied : Collection!DocOf(memory[i].id) = memory[i]
<1>1. \A i \in Occupied : memory[i] \in Doc
  BY OccupiedDoc DEF SlotInv
<1>2. /\ \A i \in Occupied : /\ memory[i].id \in Ids
                             /\ StoredDocs[memory[i].id] = memory[i].val
      /\ \A x \in Ids \ LiveIds : StoredDocs[x] = Null
  BY StoredNow
<1>3. \A i \in Occupied : memory[i].val # Null
  BY <1>1, NullIsNotADoc DEF Doc
<1>4. Collection!Present = LiveIds
  BY <1>2, <1>3 DEF Collection!Present, LiveIds
<1>5. ASSUME NEW i \in Occupied  PROVE Collection!DocOf(memory[i].id) = memory[i]
  <2>1. Collection!DocOf(memory[i].id) = [id |-> memory[i].id, val |-> memory[i].val]
    BY <1>2 DEF Collection!DocOf
  <2> QED BY <2>1, <1>1 DEF Doc
<1>6. Entities(f) = {i \in Occupied : Matches(memory[i], f)}
  BY IndexedReadLemma
<1>7. Collection!Matching(f) = {x \in LiveIds : Matches(Collection!DocOf(x), f)}
  BY <1>4, SameMatches DEF Collection!Matching
<1>8. Collection!Matching(f) = {memory[i].id : i \in Entities(f)}
  <2>1. ASSUME NEW i \in Entities(f)  PROVE memory[i].id \in Collection!Matching(f)
    BY <1>5, <1>6, <1>7 DEF LiveIds
  <2>2. ASSUME NEW x \in Collection!Matching(f)  PROVE x \in {memory[i].id : i \in Entities(f)}
    <3>1. PICK i \in Occupied : memory[i].id = x
      BY <1>7 DEF LiveIds
    <3>2. Matches(memory[i], f)
      BY <1>5, <1>7, <3>1
    <3> QED BY <1>6, <3>1, <3>2
  <2> QED BY <2>1, <2>2
<1> QED
  BY <1>4, <1>5, <1>8

LEMMA UpdateMaps ==
  ASSUME SlotInv, IndexExact, SlotInv', IndexExact', ~clashed, ~clashed',
         NEW new, DOMAIN new \subseteq Occupied,
         \A i \in DOMAIN new : new[i] \in Doc /\ new[i].id = memory[i].id,
         UpdateElements(new)
  PROVE  /\ \A i \in DOMAIN new : StoredDocs'[memory[i].id] = new[i].val
         /\ \A x \in Ids : (\A i \in DOMAIN new : memory[i].id # x) => StoredDocs'[x] = StoredDocs[x]
<1>1. /\ DOMAIN memory' = DOMAIN memory
      /\ \A i \in DOMAIN memory : memory'[i] = IF i \in DOMAIN new THEN new[i] ELSE memory[i]
  BY DEF UpdateElements
<1>2. Occupied' = Occupied
  BY <1>1, DocIsNotNull DEF Occupied
<1>3. \A i \in Occupied : /\ memory'[i].id = memory[i].id
                          /\ i \in DOMAIN new => memory'[i] = new[i]
                          /\ i \notin DOMAIN new => memory'[i] = memory[i]
  BY <1>1 DEF Occupied
<1>4. \A i \in DOMAIN new : StoredDocs'[memory[i].id] = new[i].val
  BY <1>2, <1>3, StoredNext
<1>5. LiveIds' = LiveIds
  BY <1>2, <1>3 DEF LiveIds
<1>6. ASSUME NEW x \in Ids, \A i \in DOMAIN new : memory[i].id # x
      PROVE  StoredDocs'[x] = StoredDocs[x]
  <2>1. CASE x \in LiveIds
    <3>1. PICK i \in Occupied : memory[i].id = x
      BY <2>1 DEF LiveIds
    <3>2. memory'[i] = memory[i]
      BY <1>3, <1>6, <3>1
    <3> QED BY <1>2, <3>1, <3>2, StoredNow, StoredNext
  <2>2. CASE x \notin LiveIds
    BY <1>5, <2>2, StoredNow, StoredNext
  <2> QED BY <2>1, <2>2
<1> QED
  BY <1>4, <1>6

LEMMA DeleteMaps ==
  ASSUME SlotInv, IndexExact, SlotInv', IndexExact', ~clashed, ~clashed',
         NEW order, {order[k] : k \in DOMAIN order} \subseteq Occupied,
         DeleteElements(order)
  PROVE  \A x \in Ids :
           StoredDocs'[x] = IF x \in {memory[i].id : i \in {order[k] : k \in DOMAIN order}}
                            THEN Null ELSE StoredDocs[x]
<1> DEFINE S == {order[k] : k \in DOMAIN order}
<1>1. /\ DOMAIN memory' = DOMAIN memory
      /\ \A i \in DOMAIN memory : memory'[i] = IF i \in S THEN Null ELSE memory[i]
  BY DEF DeleteElements
<1>0. S \subseteq Occupied
  OBVIOUS
<1> HIDE DEF S
<1>2. Occupied' = Occupied \ S
  BY <1>1 DEF Occupied
<1>3. \A i \in Occupied' : memory'[i] = memory[i]
  BY <1>1, <1>2 DEF Occupied
<1>4. \A i, j \in Occupied : memory[i].id = memory[j].id => i = j
  BY DEF IndexExact
<1>5. LiveIds' = {memory[i].id : i \in Occupied \ S}
  BY <1>2, <1>3 DEF LiveIds
<1>6. ASSUME NEW x \in Ids
      PROVE  StoredDocs'[x] = IF x \in {memory[i].id : i \in S} THEN Null ELSE StoredDocs[x]
  <2>1. CASE x \in LiveIds'
    <3>1. PICK i \in Occupied \ S : memory[i].id = x
      BY <1>5, <2>1
    <3>2. x \notin {memory[j].id : j \in S}
      BY <1>0, <1>4, <3>1
    <3> QED BY <1>2, <1>3, <3>1, <3>2, StoredNow, StoredNext
  <2>2. CASE x \notin LiveIds' /\ x \in LiveIds
    <3>1. x \in {memory[i].id : i \in S}
      BY <1>5, <2>2 DEF LiveIds
    <3> QED BY <2>2, <3>1, StoredNext
  <2>3. CASE x \notin LiveIds' /\ x \notin LiveIds
    BY <2>3, StoredNow, StoredNext
  <2> QED BY <2>1, <2>2, <2>3
<1> QED
  BY <1>6 DEF S

LEMMA InsertMaps ==
  ASSUME SlotInv, IndexExact, SlotInv', IndexExact', ~clashed, ~clashed',
         NEW doc \in Doc, InsertElement(doc.id, doc)
  PROVE  /\ StoredDocs'[doc.id] = doc.val
         /\ \A x \in Ids \ {doc.id} : StoredDocs'[x] = StoredDocs[x]
<1>1. PICK index :
        /\ index \notin Occupied
        /\ Occupied' = Occupied \cup {index}
        /\ memory'[index] = doc
        /\ \A i \in Occupied : memory'[i] = memory[i]
  BY InsertedSlot
<1>2. LiveIds' = LiveIds \cup {doc.id}
  BY <1>1 DEF LiveIds
<1>3. StoredDocs'[doc.id] = doc.val
  BY <1>1, StoredNext
<1>4. ASSUME NEW x \in Ids \ {doc.id}  PROVE StoredDocs'[x] = StoredDocs[x]
  <2>1. CASE x \in LiveIds
    <3>1. PICK i \in Occupied : memory[i].id = x
      BY <2>1 DEF LiveIds
    <3> QED BY <1>1, <3>1, StoredNow, StoredNext
  <2>2. CASE x \notin LiveIds
    BY <1>2, <2>2, StoredNow, StoredNext
  <2> QED BY <2>1, <2>2
<1> QED
  BY <1>3, <1>4

LEMMA ClashedIsEmpty ==
  ASSUME clashed'
  PROVE  StoredDocs' = [x \in Ids |-> Null]
BY DEF StoredDocs

(* Two collections with the same record under every id are the same.       *)
LEMMA StoredFunction ==
  ASSUME NEW docs, \A x \in Ids : StoredDocs'[x] = docs[x], docs = [x \in Ids |-> docs[x]]
  PROVE  StoredDocs' = docs
<1>1. StoredDocs' = [x \in Ids |-> StoredDocs'[x]]
  BY DEF StoredDocs
<1> QED
  BY <1>1

(* An update of the entities of S, in terms of the collection.             *)
LEMMA UpdateStep ==
  ASSUME SlotInv, IndexExact, SlotInv', IndexExact', ~clashed, ~clashed',
         NEW f \in Filters, ~NullOperand(f),
         NEW S, S \subseteq Entities(f), NEW ch \in Change, ch.id = Keep,
         UpdateElements([j \in S |-> Updated(memory[j], ch)])
  PROVE  Collection!Update({memory[i].id : i \in S}, ch)
<1> DEFINE new == [j \in S |-> Updated(memory[j], ch)]
           docs == [x \in Ids |-> IF x \in {memory[i].id : i \in S}
                                  THEN Updated(Collection!DocOf(x), ch).val ELSE StoredDocs[x]]
<1>1. S \subseteq Occupied
  BY EntitiesOccupied DEF SlotInv
<1>2. \A i \in Occupied : memory[i] \in Doc
  BY OccupiedDoc DEF SlotInv
<1>3. \A i \in S : /\ new[i] \in Doc /\ new[i].id = memory[i].id
                   /\ new[i].val = Updated(Collection!DocOf(memory[i].id), ch).val
  <2>1. \A i \in S : Collection!DocOf(memory[i].id) = memory[i]
    BY <1>1, MatchingIsEntities
  <2> QED BY <1>1, <1>2, <2>1, UpdatedType DEF Updated
<1>4. UpdateElements(new) /\ DOMAIN new = S
  OBVIOUS
<1> HIDE DEF new
<1>5. /\ \A i \in S : StoredDocs'[memory[i].id] = new[i].val
      /\ \A x \in Ids : (\A i \in S : memory[i].id # x) => StoredDocs'[x] = StoredDocs[x]
  BY <1>1, <1>3, <1>4, UpdateMaps
<1>6. \A x \in Ids : StoredDocs'[x] = docs[x]
  BY <1>3, <1>5
<1>7. StoredDocs' = docs
  BY <1>6, StoredFunction
<1> QED
  BY <1>7, SameUpdated DEF Collection!Update

LEMMA RemoveStep ==
  ASSUME SlotInv, IndexExact, SlotInv', IndexExact', ~clashed, ~clashed',
         NEW order, {order[k] : k \in DOMAIN order} \subseteq Occupied,
         DeleteElements(order)
  PROVE  Collection!Remove({memory[i].id : i \in {order[k] : k \in DOMAIN order}})
<1> DEFINE gone == {memory[i].id : i \in {order[k] : k \in DOMAIN order}}
           docs == [x \in Ids |-> IF x \in gone THEN Null ELSE StoredDocs[x]]
<1>1. \A x \in Ids : StoredDocs'[x] = docs[x]
  BY DeleteMaps
<1>2. StoredDocs' = docs
  BY <1>1, StoredFunction
<1> QED
  BY <1>2 DEF Collection!Remove

LEMMA ReplaceStep ==
  ASSUME SlotInv, IndexExact, SlotInv', IndexExact', ~clashed, ~clashed',
         NEW val \in Val, NEW i \in Occupied,
         UpdateElements([j \in {i} |-> Replaced(memory[j], val)])
  PROVE  Collection!ReplaceSome(val)
<1> DEFINE new == [j \in {i} |-> Replaced(memory[j], val)]
           x == memory[i].id
           docs == [StoredDocs EXCEPT ![x] = DeepMerge(StoredDocs[x], val, TRUE)]
<1>1. memory[i] \in Doc /\ x \in Ids /\ StoredDocs[x] = memory[i].val
  BY OccupiedDoc, StoredNow DEF SlotInv
<1>2. new[i] \in Doc /\ new[i].id = x /\ new[i].val = DeepMerge(StoredDocs[x], val, TRUE)
  BY <1>1, ReplacedType DEF Replaced
<1>3. UpdateElements(new) /\ DOMAIN new = {i}
  OBVIOUS
<1>4. x \in Collection!Present
  BY <1>1, NullIsNotADoc DEF Collection!Present, Doc
<1>5. DOMAIN StoredDocs = Ids
  BY DEF StoredDocs
<1> HIDE DEF new
<1>6. /\ StoredDocs'[x] = new[i].val
      /\ \A y \in Ids : x # y => StoredDocs'[y] = StoredDocs[y]
  BY <1>2, <1>3, UpdateMaps
<1>7. \A y \in Ids : StoredDocs'[y] = docs[y]
  BY <1>1, <1>2, <1>5, <1>6
<1>8. StoredDocs' = docs
  BY <1>5, <1>7, StoredFunction
<1> QED
  BY <1>4, <1>8, SameDeepMerge DEF Collection!ReplaceSome

LEMMA InsertStep ==
  ASSUME SlotInv, IndexExact, SlotInv', IndexExact', ~clashed, ~clashed',
         NEW doc \in Doc, InsertOne(doc), doc.id \notin LiveIds
  PROVE  Collection!Insert(doc)
<1> DEFINE docs == [StoredDocs EXCEPT ![doc.id] = doc.val]
<1>1. doc.id \in Ids /\ StoredDocs[doc.id] = Null
  BY StoredNow DEF Doc
<1>2. doc.id \notin Collection!Present
  BY <1>1 DEF Collection!Present
<1>3. DOMAIN StoredDocs = Ids
  BY DEF StoredDocs
<1>4. /\ StoredDocs'[doc.id] = doc.val
      /\ \A x \in Ids \ {doc.id} : StoredDocs'[x] = StoredDocs[x]
  BY InsertMaps DEF InsertOne
<1>5. \A x \in Ids : StoredDocs'[x] = docs[x]
  BY <1>1, <1>3, <1>4
<1>6. StoredDocs' = docs
  BY <1>3, <1>5, StoredFunction
<1> QED
  BY <1>2, <1>6 DEF Collection!Insert

LEMMA EmptiedCollection ==
  ASSUME Occupied' = {} \/ clashed'
  PROVE  Collection!Clear
BY DEF StoredDocs, LiveIds, Collection!Clear

(* Before and after the step the index is in use: each operation of the    *)
(* driver is the operation of the collection.                              *)
LEMMA ExactStep ==
  ASSUME NoNullOperands, SlotInv, IndexExact, SlotInv', IndexExact',
         ~clashed, ~clashed', Next
  PROVE  Collection!Next
<1>a. TypeOK /\ SlotsAccounted /\ \A f \in Filters : ~NullOperand(f)
  BY DEF SlotInv, NoNullOperands
<1>b. \A ch \in Changes : ch \in Change
  BY CallerAssumption
<1>1. ASSUME NEW doc \in Doc, InsertOne(doc), doc.id \notin LiveIds  PROVE Collection!Next
  BY <1>1, InsertStep DEF Collection!Next, Doc, Val, Collection!Doc, Collection!Val
<1>2. ASSUME NEW f \in Filters, NEW ch \in Changes, UpdateOne(f, ch), ch.id = Keep
      PROVE  Collection!Next
  <2>1. PICK i \in Entities(f) : UpdateElements([j \in {i} |-> Updated(memory[j], ch)])
    BY <1>2, UpdateOneStep
  <2> DEFINE S == {i}
  <2>2. UpdateElements([j \in S |-> Updated(memory[j], ch)]) /\ S \subseteq Entities(f)
    BY <2>1
  <2> HIDE DEF S
  <2>3. Collection!Update({memory[j].id : j \in S}, ch)
    BY <1>a, <1>b, <1>2, <2>2, UpdateStep
  <2>4. {memory[j].id : j \in S} = {memory[i].id}
    BY DEF S
  <2>5. memory[i].id \in Collection!Matching(f)
    BY <1>a, MatchingIsEntities
  <2> QED BY <1>2, <2>3, <2>4, <2>5 DEF Collection!UpdateOne, Collection!Next
<1>3. ASSUME NEW f \in Filters, NEW ch \in Changes, UpdateAll(f, ch), ch.id = Keep
      PROVE  Collection!Next
  <2>1. Collection!Update({memory[j].id : j \in Entities(f)}, ch)
    BY <1>a, <1>b, <1>3, UpdateStep DEF UpdateAll
  <2>2. Collection!Matching(f) = {memory[j].id : j \in Entities(f)}
    BY <1>a, MatchingIsEntities
  <2> QED BY <1>3, <2>1, <2>2 DEF Collection!UpdateAll, Collection!Next
<1>4. ASSUME NEW f \in Filters, NEW val \in Val, ReplaceOne(f, val)  PROVE Collection!Next
  <2>1. PICK i \in Occupied : UpdateElements([j \in {i} |-> Replaced(memory[j], val)])
    BY <1>4 DEF ReplaceOne, ReplaceTargets
  <2>2. Collection!ReplaceSome(val)
    BY <2>1, ReplaceStep
  <2> QED BY <2>2 DEF Collection!Next, Val, Collection!Val
<1>5. ASSUME NEW f \in Filters, DeleteOne(f)  PROVE Collection!Next
  <2>1. PICK i \in Entities(f) : DeleteElements(<<i>>)
    BY <1>5 DEF DeleteOne
  <2> DEFINE order == <<i>>
  <2>2. {order[k] : k \in DOMAIN order} = {i} /\ i \in Occupied
    BY <1>a, EntitiesOccupied
  <2>3. Collection!Remove({memory[j].id : j \in {order[k] : k \in DOMAIN order}})
    BY <2>1, <2>2, RemoveStep
  <2>4. {memory[j].id : j \in {order[k] : k \in DOMAIN order}} = {memory[i].id}
    BY <2>2
  <2>5. memory[i].id \in Collection!Matching(f)
    BY <1>a, MatchingIsEntities
  <2> HIDE DEF order
  <2> QED BY <2>3, <2>4, <2>5 DEF Collection!DeleteOne, Collection!Next
<1>6. ASSUME NEW f \in Filters, DeleteAll(f)  PROVE Collection!Next
  <2>1. PICK order \in VisitOrders(Entities(f)) : DeleteElements(order)
    BY <1>6 DEF DeleteAll
  <2>2. {order[k] : k \in DOMAIN order} = Entities(f)
    BY DEF VisitOrders
  <2>3. Entities(f) \subseteq Occupied
    BY <1>a, EntitiesOccupied
  <2>4. Collection!Remove({memory[j].id : j \in {order[k] : k \in DOMAIN order}})
    BY <2>1, <2>2, <2>3, RemoveStep
  <2>5. Collection!Matching(f) = {memory[j].id : j \in Entities(f)}
    BY <1>a, MatchingIsEntities
  <2> QED BY <2>2, <2>4, <2>5 DEF Collection!DeleteAll, Collection!Next
<1>7. CASE ClearMemory
  <2>1. Occupied' = {}
    BY <1>7 DEF ClearMemory, Occupied
  <2> QED BY <2>1, EmptiedCollection DEF Collection!Next
<1> QED
  BY <1>1, <1>2, <1>3, <1>4, <1>5, <1>6, <1>7 DEF Next, Clash

LEMMA CollectionStep ==
  ASSUME NoNullOperands, SlotInv, IndexExact, SlotInv', IndexExact', [Next]_vars
  PROVE  [Collection!Next]_StoredDocs
<1>1. CASE clashed'
  BY <1>1, EmptiedCollection DEF Collection!Next
<1>2. CASE UNCHANGED vars
  BY <1>2 DEF StoredDocs, LiveIds, Occupied, vars, stateVars
<1>3. CASE Next /\ clashed /\ ~clashed'
  <2>1. ClearMemory
    BY <1>3 DEF Next, Clash
  <2>2. Occupied' = {}
    BY <2>1 DEF ClearMemory, Occupied
  <2> QED BY <2>2, EmptiedCollection DEF Collection!Next
<1>4. CASE Next /\ ~clashed /\ ~clashed'
  BY <1>4, ExactStep
<1> QED
  BY <1>1, <1>2, <1>3, <1>4

(* The driver is an atomic map from ids to records: whatever the calls and  *)
(* however the array grew, reused its slots and rebuilt its index, callers *)
(* that keep ids unique see one operation on the map per call.             *)
THEOREM CollectionImplemented ==
  ASSUME NoNullOperands
  PROVE  Spec => ImplementsCollection
<1>1. Init => Collection!Init
  BY DEF Init, EmptyState, StoredDocs, LiveIds, Occupied, Collection!Init
<1>2. SlotInv /\ IndexExact /\ SlotInv' /\ IndexExact' /\ [Next]_vars => [Collection!Next]_StoredDocs
  BY CollectionStep
<1> QED
  BY <1>1, <1>2, SlotInvariant, IndexAlwaysExact, PTL DEF Spec, ImplementsCollection, Collection!Spec
=============================================================================
