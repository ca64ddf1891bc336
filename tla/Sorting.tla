------------------------------ MODULE Sorting -------------------------------
(***************************************************************************)
(* sort() of the in-memory driver: one pass of Array.sort, which is        *)
(* stable, for each key of each sort object, the last object first and,    *)
(* within an object, the keys in their order.  A sort object is the        *)
(* sequence of its keys, each with a direction.                            *)
(***************************************************************************)
EXTENDS Filters, FiniteSets

CONSTANTS
  Unsorted,     \* rows, in the order of insertion
  SortObjects,
  MaxSorts      \* bound on the sort objects of a query

VARIABLES
  sorts,
  objects,  \* how many objects have had their passes
  keys,     \* how many keys of the next one have
  place     \* where each row is

sorting == <<sorts, objects, keys, place>>

(* Rows have numbers to sort by.  The order of rows that miss a key or mix *)
(* types depends on the algorithm of the engine.                           *)
ASSUME SortingAssumption ==
  /\ Unsorted \in Seq({Unsorted[i] : i \in DOMAIN Unsorted}) /\ MaxSorts \in Nat
  /\ \A s \in SortObjects :
       /\ Len(s) \in Nat \ {0} /\ DOMAIN s = 1..Len(s)
       /\ \A k \in DOMAIN s : \A i \in DOMAIN Unsorted : IsNumber(Unsorted[i][s[k].key])

(* Mutant: the passes are made from the first sort object to the last. *)
TurnForward == objects + 1

(* The object whose turn it is: sort() calls itself with one index less. *)
Turn == Len(sorts) - objects

Before(a, b, c) == IF c.dir = "asc" THEN Less(a[c.key], b[c.key]) ELSE Less(b[c.key], a[c.key])

(* The rows that a pass puts in front of row i. *)
Ahead(i, c) ==
  {j \in DOMAIN Unsorted :
     \/ Before(Unsorted[j], Unsorted[i], c)
     \/ place[j] < place[i] /\ ~Before(Unsorted[i], Unsorted[j], c)}

NotSorted ==
  /\ sorts \in UNION {[1..n -> SortObjects] : n \in 0..MaxSorts}
  /\ objects = 0 /\ keys = 0
  /\ place = [i \in DOMAIN Unsorted |-> i]

Pass ==
  /\ objects < Len(sorts)
  /\ place' = [i \in DOMAIN Unsorted |-> Cardinality(Ahead(i, sorts[Turn][keys + 1])) + 1]
  /\ IF keys + 1 = Len(sorts[Turn]) THEN objects' = objects + 1 /\ keys' = 0
                                    ELSE keys' = keys + 1 /\ UNCHANGED objects
  /\ UNCHANGED sorts

SortingSpec == NotSorted /\ [][Pass]_sorting
-----------------------------------------------------------------------------
SingleKeys == \A o \in DOMAIN sorts : Len(sorts[o]) = 1

(* The sorts are criteria applied one after the other: of two rows the     *)
(* in-memory driver returns in this order, the second is never ahead of    *)
(* the first in the order SQL and MongoDB are asked for, as long as sort   *)
(* objects have one key each.  (sort; buildSort, adaptSorts)               *)
CriteriaInOrder ==
  objects = Len(sorts) /\ SingleKeys =>
    \A i, j \in DOMAIN Unsorted : place[i] < place[j] =>
      \A c \in DOMAIN sorts : Before(Unsorted[j], Unsorted[i], sorts[c][1]) =>
        \E d \in 1..(c - 1) : Unsorted[i][sorts[d][1].key] # Unsorted[j][sorts[d][1].key]
=============================================================================
