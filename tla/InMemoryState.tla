--------------------------- MODULE InMemoryState ----------------------------
(***************************************************************************)
(* InMemoryStateManager: the slots one collection of the in-memory driver  *)
(* keeps its records in, the stack of free slots and the map from ids to   *)
(* slots.  The state is global to the process (IN_MEMORY_STATE): every     *)
(* entity manager works on this one.  Slots are numbered from 0, as in     *)
(* the code; a JavaScript array can have holes, so memory is a function    *)
(* on the slots that were ever written and length is the array's length.   *)
(***************************************************************************)
EXTENDS Documents, Integers, Sequences

CONSTANTS
  GrowthThreshold,  \* 512 in the code: above it the array grows linearly ...
  GrowthStep        \* ... by this many slots, 1024 in the code

ASSUME GrowthAssumption == GrowthThreshold \in Nat /\ GrowthStep \in Nat \ {0}

VARIABLES
  memory,        \* slot -> record, Null once the record is deleted
  length,        \* memory.length
  emptyIndexes,  \* stack of free slots, its top is the last element
  idIndex        \* id -> slot, a Map

stateVars == <<memory, length, emptyIndexes, idIndex>>

EmptyState ==
  /\ memory = [i \in {} |-> Null]
  /\ length = 0
  /\ emptyIndexes = <<0>>
  /\ idIndex = [x \in {} |-> 0]

(* The slots elements() visits, in ascending order. *)
Occupied == {i \in DOMAIN memory : memory[i] # Null}

(* Mutant: the array grows one slot less than needed. *)
StoreShort(index, e) ==
  /\ memory' = [i \in DOMAIN memory \cup {index} |-> IF i = index THEN e ELSE memory[i]]
  /\ length' = IF index < length THEN length ELSE index

(* memory[index] = e: an assignment past the end extends the array. *)
Store(index, e) ==
  /\ memory' = [i \in DOMAIN memory \cup {index} |-> IF i = index THEN e ELSE memory[i]]
  /\ length' = IF index < length THEN length ELSE index + 1

SetIdIndex(id, index) ==
  idIndex' = [x \in DOMAIN idIndex \cup {id} |-> IF x = id THEN index ELSE idIndex[x]]

SizeIncrement == IF length > GrowthThreshold THEN GrowthStep ELSE length * 2

Top == emptyIndexes[Len(emptyIndexes)]

(* Mutant: the free slot is read and not popped. *)
InsertIntoFreeSlotUnpopped(id, e) ==
  /\ emptyIndexes # <<>>
  /\ emptyIndexes' = emptyIndexes
  /\ SetIdIndex(id, Top)
  /\ Store(Top, e)

InsertIntoFreeSlot(id, e) ==
  /\ emptyIndexes # <<>>
  /\ emptyIndexes' = SubSeq(emptyIndexes, 1, Len(emptyIndexes) - 1)
  /\ SetIdIndex(id, Top)
  /\ Store(Top, e)

(* Mutant: the free slots pushed start one too low. *)
InsertAndGrowLow(id, e) ==
  /\ emptyIndexes = <<>>
  /\ SizeIncrement > 0
  /\ emptyIndexes' = [k \in 1..(SizeIncrement - 1) |-> length + SizeIncrement - k - 1]
  /\ SetIdIndex(id, length)
  /\ Store(length, e)

(* allocMemory(-1) throws a RangeError, before anything is written. *)
InsertAndGrow(id, e) ==
  /\ emptyIndexes = <<>>
  /\ SizeIncrement > 0
  /\ emptyIndexes' = [k \in 1..(SizeIncrement - 1) |-> length + SizeIncrement - k]
  /\ SetIdIndex(id, length)
  /\ Store(length, e)

InsertElement(id, e) == InsertIntoFreeSlot(id, e) \/ InsertAndGrow(id, e)

(* updateElement on each slot new is defined on; the id index stays as it is. *)
UpdateElements(new) ==
  /\ memory' = [i \in DOMAIN memory |-> IF i \in DOMAIN new THEN new[i] ELSE memory[i]]
  /\ UNCHANGED <<length, emptyIndexes, idIndex>>

(* Mutant: the freed slots are not pushed on the stack. *)
DeleteElementsLeaking(order) ==
  LET S == {order[k] : k \in DOMAIN order} IN
  /\ memory' = [i \in DOMAIN memory |-> IF i \in S THEN Null ELSE memory[i]]
  /\ idIndex' = [x \in DOMAIN idIndex \ {memory[i].id : i \in S} |-> idIndex[x]]
  /\ UNCHANGED <<length, emptyIndexes>>

(* Mutant: the ids of the deleted records stay in the index. *)
DeleteElementsKeepIndex(order) ==
  LET S == {order[k] : k \in DOMAIN order} IN
  /\ memory' = [i \in DOMAIN memory |-> IF i \in S THEN Null ELSE memory[i]]
  /\ emptyIndexes' = emptyIndexes \o order
  /\ UNCHANGED <<length, idIndex>>

(* deleteElement on each slot of the sequence order, one after the other. *)
DeleteElements(order) ==
  LET S == {order[k] : k \in DOMAIN order} IN
  /\ memory' = [i \in DOMAIN memory |-> IF i \in S THEN Null ELSE memory[i]]
  /\ idIndex' = [x \in DOMAIN idIndex \ {memory[i].id : i \in S} |-> idIndex[x]]
  /\ emptyIndexes' = emptyIndexes \o order
  /\ UNCHANGED length

(* mock.clearMemory(): the next access creates the state anew. *)
ClearMemory ==
  /\ memory' = [i \in {} |-> Null]
  /\ length' = 0
  /\ emptyIndexes' = <<0>>
  /\ idIndex' = [x \in {} |-> 0]
=============================================================================
