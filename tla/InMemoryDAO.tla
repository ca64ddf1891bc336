---------------------------- MODULE InMemoryDAO -----------------------------
(***************************************************************************)
(* AbstractInMemoryDAO: the driver operations over InMemoryState.  The     *)
(* body of each driver method runs without an await, so each is one        *)
(* atomic step; calls of different clients interleave between the steps.   *)
(*                                                                         *)
(* The entities a filter selects are found through the id index when the   *)
(* filter constrains the id, by a scan of the slots otherwise, and every   *)
(* candidate is checked against the whole filter again.                    *)
(***************************************************************************)
EXTENDS InMemoryState, FiniteSets

CONSTANTS
  Filters,    \* the filters callers pass
  Changes,    \* the changes they pass to updateOne and updateAll
  MaxLength   \* bound: no growth once the array has this many slots

ASSUME CallerAssumption ==
  /\ Filters \subseteq Filter
  /\ Changes \subseteq Change
  /\ MaxLength \in Nat

VARIABLE clashed  \* auxiliary: since the memory was empty, a caller has
                  \* inserted a stored id or updated an id

vars == <<stateVars, clashed>>

-----------------------------------------------------------------------------
(* getIndexes: the slots the id index proposes for a filter. *)

(* Mutant: ne is looked up like an equality. *)
HasIdPlanNe(idf) == idf.op # "none"

HasIdPlan(idf) == idf.op \in {"is", "eq", "in"}

IdPlan(idf) == {idIndex[x] : x \in idf.ids \cap DOMAIN idIndex}

(* typeof idFilter === 'object', which a null also is. *)
IsObject(idf) == idf.op \in {"eq", "in", "ne"} \/ (idf.op = "is" /\ idf.ids = {Null})

AndPlans(f) == {IdPlan(g.id) : g \in {h \in f.and : HasIdPlan(h.id)}}

UsesAndPlan(f) == IsObject(f.id) /\ AndPlans(f) # {}

UsesIndex(f) == UsesAndPlan(f) \/ HasIdPlan(f.id)

Plan(f) ==
  IF UsesAndPlan(f)
  THEN {i \in UNION AndPlans(f) : \A P \in AndPlans(f) : i \in P}
  ELSE IdPlan(f.id)

-----------------------------------------------------------------------------
(* entities(filter) *)

Candidates(f) == IF UsesIndex(f) THEN Plan(f) ELSE Occupied

Entities(f) ==
  {i \in Candidates(f) : memory[i] # Null /\ Matches(memory[i], f)}

(* A scan meets the lowest slot first, an index plan the caller's first id. *)
IsFirst(i, f) ==
  /\ i \in Entities(f)
  /\ UsesIndex(f) \/ \A j \in Entities(f) : i <= j

(* The orders in which a loop can visit the slots of S. *)
VisitOrders(S) ==
  {order \in [1..Cardinality(S) -> S] :
     /\ \A k, m \in DOMAIN order : order[k] = order[m] => k = m
     /\ S = {order[k] : k \in DOMAIN order}}

Ascending(order) == \A k, m \in DOMAIN order : k < m => order[k] < order[m]

-----------------------------------------------------------------------------
(* The operations. *)

LiveIds == {memory[i].id : i \in Occupied}

Init == EmptyState /\ clashed = FALSE

InsertOne(doc) ==
  /\ emptyIndexes = <<>> => length < MaxLength
  /\ InsertElement(doc.id, doc)

UpdateOne(f, ch) ==
  \E i \in Entities(f) :
     /\ IsFirst(i, f)
     /\ UpdateElements([j \in {i} |-> Updated(memory[j], ch)])

UpdateAll(f, ch) ==
  UpdateElements([j \in Entities(f) |-> Updated(memory[j], ch)])

(* What the scan of replaceOne selects: it is not given the caller's filter, *)
(* so its first record is the record in the lowest slot.                     *)
ReplaceTargets(f) == Occupied

(* The id of the record stays; null or missing fields of the replacement    *)
(* leave the old values in place.                                           *)
Replaced(doc, val) == [id |-> doc.id, val |-> DeepMerge(doc.val, val, TRUE)]

ReplaceOne(f, val) ==
  \E i \in ReplaceTargets(f) :
     /\ \A j \in ReplaceTargets(f) : i <= j
     /\ UpdateElements([j \in {i} |-> Replaced(memory[j], val)])

DeleteOne(f) == \E i \in Entities(f) : IsFirst(i, f) /\ DeleteElements(<<i>>)

DeleteAll(f) ==
  \E order \in VisitOrders(Entities(f)) :
     /\ UsesIndex(f) \/ Ascending(order)
     /\ DeleteElements(order)

(* What callers do to keep ids unique, or not. *)
Clash(condition) == clashed' = (clashed \/ condition)

Next ==
  \/ \E doc \in Doc : InsertOne(doc) /\ Clash(doc.id \in LiveIds)
  \/ \E f \in Filters, ch \in Changes :
        (UpdateOne(f, ch) \/ UpdateAll(f, ch)) /\ Clash(ch.id # Keep)
  \/ \E f \in Filters, val \in Val : ReplaceOne(f, val) /\ Clash(FALSE)
  \/ \E f \in Filters : (DeleteOne(f) \/ DeleteAll(f)) /\ Clash(FALSE)
  \/ ClearMemory /\ clashed' = FALSE

Spec == Init /\ [][Next]_vars

-----------------------------------------------------------------------------
(* Correctness. *)

(* Types of the state: the array, the free stack and the id index only     *)
(* ever mention slots the array has or is about to grow into.              *)
TypeOK ==
  /\ length \in Nat
  /\ DOMAIN memory \subseteq 0..(length - 1)
  /\ \A i \in DOMAIN memory : memory[i] \in Doc \cup {Null}
  /\ emptyIndexes \in Seq(Nat)
  /\ DOMAIN idIndex \subseteq Ids
  /\ \A x \in DOMAIN idIndex : idIndex[x] \in 0..(length - 1)

(* No slot is lost and none is given out twice: the array has no holes     *)
(* (elements() would hand an undefined record to the caller), the slots    *)
(* of the array that are free are those the stack holds, once each.        *)
SlotsAccounted ==
  /\ DOMAIN memory = 0..(length - 1)
  /\ \A i \in 0..(length - 1) :
        memory[i] = Null <=> \E k \in DOMAIN emptyIndexes : emptyIndexes[k] = i
  /\ \A k, m \in DOMAIN emptyIndexes : emptyIndexes[k] = emptyIndexes[m] => k = m

(* Insertion never reaches allocMemory with a negative size.               *)
GrowthNeverFails == emptyIndexes = <<>> => SizeIncrement > 0

(* An insertion adds its record and leaves every stored record where it    *)
(* is: the slot it takes from the stack, or grows into, was free.          *)
InsertKeepsRecords ==
  [][\A doc \in Doc : InsertOne(doc) =>
       /\ \A i \in Occupied : memory'[i] = memory[i]
       /\ \E i \in Occupied' \ Occupied : memory'[i] = doc]_vars

(* As long as callers keep ids unique the id index is exact: it maps the id of   *)
(* every stored record to the record's slot, and nothing else.             *)
IndexExact ==
  ~clashed =>
    /\ DOMAIN idIndex = LiveIds
    /\ \A i \in Occupied : idIndex[memory[i].id] = i

(* A null operand of eq: the plan is empty though the filter is a no-op.   *)
NullOperand(f) ==
  \E g \in f.and \cup {[id |-> f.id, val |-> f.val]} : g.id.op = "eq" /\ Null \in g.id.ids

(* Reading through the id index finds what a scan of the slots would find, *)
(* whatever combination of id filter, field filter and $and is asked for.  *)
IndexedReadIsScan ==
  ~clashed =>
    \A f \in Filters :
       ~NullOperand(f) => Entities(f) = {i \in Occupied : Matches(memory[i], f)}

(* The collection the slots and the index stand for.  It is given up, as   *)
(* if it were cleared, when a caller no longer keeps ids unique.           *)
StoredDocs ==
  [x \in Ids |-> IF x \in LiveIds /\ ~clashed
                 THEN memory[CHOOSE i \in Occupied : memory[i].id = x].val
                 ELSE Null]

Collection == INSTANCE DocumentCollection WITH docs <- StoredDocs

(* While ids are unique the driver implements the abstract collection.     *)
ImplementsCollection == Collection!Spec
=============================================================================
