----------------------------- MODULE MCInMemory -----------------------------
(* Small instances of InMemoryDAO for TLC. *)
EXTENDS InMemoryDAO, TLC

NoField == [x \in Fields |-> AnyVal]
IdIs(op, S) == [op |-> op, ids |-> S]
Where(idf, val, and) == [id |-> idf, val |-> val, and |-> and]
OnlyId(idf) == Where(idf, NoField, {})
Part(idf) == [id |-> idf, val |-> NoField]

Pairs == {S \in SUBSET Ids : Cardinality(S) = 2}

(* Every field equal to some value. *)
FieldsAre == [Fields -> Vals]

(* One filter of every kind getIndexes distinguishes: no id (a scan), a    *)
(* plain id, eq, in, ne, a null id, $and with and without a plan of its    *)
(* own, and an id together with a condition on the fields.                 *)
MCFilters ==
  {OnlyId(IdIs("none", {})), OnlyId(IdIs("is", {Null}))}
  \cup {Where(IdIs("none", {}), val, {}) : val \in FieldsAre}
  \cup {OnlyId(IdIs(op, {x})) : op \in {"is", "ne"}, x \in Ids}
  \cup {OnlyId(IdIs("in", S)) : S \in Pairs}
  \cup {Where(IdIs("eq", {x}), val, {}) : x \in Ids, val \in FieldsAre}
  \cup {Where(IdIs("in", S), NoField, {Part(IdIs("is", {x}))}) : S \in Pairs, x \in Ids}
  \cup {Where(IdIs("ne", {x}), NoField, {Part(IdIs("in", S)), Part(IdIs("none", {}))}) :
          x \in Ids, S \in Pairs}

SetField(c) == [id |-> Keep, val |-> [x \in Fields |-> c]]

(* Set or clear the fields. *)
MCFieldChanges == {SetField(c) : c \in Vals \cup {Null}}

(* The same, and updates of the id itself. *)
MCChanges ==
  MCFieldChanges \cup {[id |-> x, val |-> [y \in Fields |-> Keep]] : x \in Ids}

Symmetric == Permutations(Ids)
=============================================================================
