---------------------------- MODULE Selections -----------------------------
(***************************************************************************)
(* How the selections of a GraphQL query become a projection               *)
(* (infoToProjection).  A selection set is the sequence of its selections: *)
(* a field, with a selection set unless it is a leaf, or a fragment, inline*)
(* or spread, with the type it is on.                                      *)
(***************************************************************************)
EXTENDS Projections
LOCAL INSTANCE SequencesExt

CONSTANTS
  Types,      \* object, interface and union types, and those of leaves
  Unions,     \* the union types
  FieldType,  \* type -> field -> type of the field
  KeyOf,      \* type -> the key of fragments on it: its name in camel case
  Leaf        \* in place of a selection set: the field has none

ASSUME TypesAssumption ==
  /\ Unions \subseteq Types /\ Leaf \notin Types
  /\ \A t \in Types : \A f \in DOMAIN FieldType[t] : FieldType[t][f] \in Types

Field(name, set) == [kind |-> "field", name |-> name, set |-> set]
Fragment(type, set) == [kind |-> "fragment", on |-> type, set |-> set]

(* { ...p, ...q } *)
Spread(p, q) ==
  [k \in DOMAIN p \cup DOMAIN q |-> IF k \in DOMAIN q THEN q[k] ELSE p[k]]

Put(p, key, q) == Spread(p, [k \in {key} |-> q])
Part(p, keys) == [k \in DOMAIN p \cap keys |-> p[k]]

(* Mutant: what was selected of a field before is not passed on. *)
UnderNothing(p, key) == NoFields

(* { ...p[key] } *)
Under(p, key) == IF key \in DOMAIN p /\ p[key] \notin Booleans THEN p[key] ELSE NoFields

IsWhole(p, key) == key \in DOMAIN p /\ p[key] = Yes

(* What a fragment adds to the projection of the fields before it: objects *)
(* are spread, not merged.                                                 *)
AddFragment(proj, on, type, selected) ==
  LET own == Part(selected, DOMAIN FieldType[type])
      other == Part(selected, DOMAIN selected \ DOMAIN FieldType[type])
  IN CASE on = type -> Spread(proj, selected)
       [] on # type /\ type \in Unions -> Put(proj, KeyOf[on], selected)
       [] OTHER -> IF other = NoFields THEN Spread(proj, own)
                   ELSE Put(Spread(proj, own), KeyOf[on], other)

RECURSIVE InfoToProjection(_, _, _)
InfoToProjection(defaults, set, type) ==
  LET Add(proj, s) ==
        CASE s.kind = "field" /\ s.set = Leaf -> Put(proj, s.name, Yes)
          [] s.kind = "field" /\ s.set # Leaf ->
               IF IsWhole(proj, s.name) THEN proj
               ELSE IF type \notin Unions /\ s.name \in DOMAIN FieldType[type]
               THEN Put(proj, s.name,
                        InfoToProjection(Under(proj, s.name), s.set, FieldType[type][s.name]))
               ELSE NoFields
          [] s.kind = "fragment" ->
               IF IsWhole(proj, KeyOf[s.on]) THEN proj
               ELSE AddFragment(proj, s.on, type,
                                InfoToProjection(Under(proj, KeyOf[s.on]), s.set, s.on))
  IN FoldLeft(Add, defaults, set)

-----------------------------------------------------------------------------
(* What a query asks for, by the meaning of GraphQL. *)

(* The leaves that a selection set selects of an object, of which all its  *)
(* fragments hold.                                                         *)
RECURSIVE Wanted(_)
Wanted(set) ==
  UNION {LET s == set[i] IN
         IF s.kind = "fragment" THEN Wanted(s.set)
         ELSE IF s.set = Leaf THEN {<<s.name>>}
         ELSE {<<s.name>> \o l : l \in Wanted(s.set)} : i \in DOMAIN set}

(* The fields selected, those of fragments included, and those of them     *)
(* with a selection set.                                                   *)
Fields(set) == {Head(l) : l \in Wanted(set)}

RECURSIVE Objects(_)
Objects(set) ==
  UNION {LET s == set[i] IN
         IF s.kind = "fragment" THEN Objects(s.set)
         ELSE IF s.set = Leaf THEN {} ELSE {s.name} : i \in DOMAIN set}

(* No fragment selects of a field what was already selected of it, and     *)
(* none has a fragment within it on a type with more fields.               *)
RECURSIVE Mergeable(_)
Mergeable(set) ==
  \A j \in DOMAIN set :
    LET s == set[j] IN
    /\ s.set # Leaf => Mergeable(s.set)
    /\ s.kind = "fragment" =>
         /\ Objects(s.set) \cap Objects(SubSeq(set, 1, j - 1)) = {}
         /\ Fields(s.set) \subseteq DOMAIN FieldType[s.on]
=============================================================================
