------------------------- MODULE MCInMemoryReplace --------------------------
(* A small instance of InMemoryReplace for TLC. *)
EXTENDS InMemoryReplace

NoField == [x \in Fields |-> AnyVal]

(* The filter that selects everything, and one per id. *)
MCFilters ==
  {[id |-> [op |-> "none", ids |-> {}], val |-> NoField, and |-> {}]}
  \cup {[id |-> [op |-> "is", ids |-> {x}], val |-> NoField, and |-> {}] : x \in Ids}

MCChanges == {}
=============================================================================
