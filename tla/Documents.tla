----------------------------- MODULE Documents ------------------------------
(***************************************************************************)
(* The data the stores of typetta hold and the parameters of their         *)
(* operations: records with an id and fields, filters, changes, and the    *)
(* two functions every driver is built on, filter evaluation and deep      *)
(* merge.  A record is an id plus one value per field; Null stands for a   *)
(* field that is null or missing (no filter below tells them apart).       *)
(***************************************************************************)
CONSTANTS
  Ids,     \* values of the id field
  Fields,  \* names of the other fields
  Vals,    \* values of the other fields
  Null,    \* a null or missing value, and a free slot
  AnyVal,  \* "the filter does not mention this field"
  Keep     \* "the change does not mention this field"

ASSUME SpecialValues ==
  /\ Null \notin Ids \cup Vals \cup {AnyVal, Keep}
  /\ AnyVal \notin Vals
  /\ Keep \notin Ids \cup Vals

Val == [Fields -> Vals \cup {Null}]
Doc == [id : Ids, val : Val]

(* Null is not a document: it is what an empty slot holds. *)
ASSUME NullIsNotADoc == Null \notin Doc \cup Val

(***************************************************************************)
(* A filter constrains the id with one operator ("none" when the id is not *)
(* mentioned, "is" for a plain value), each field with an equality or not  *)
(* at all, and may carry an $and list.  The bound on filters: the members  *)
(* of $and have no $and of their own.                                      *)
(***************************************************************************)
IdFilter == [op : {"none", "is", "eq", "in", "ne"}, ids : SUBSET (Ids \cup {Null})]
SimpleFilter == [id : IdFilter, val : [Fields -> Vals \cup {AnyVal}]]
Filter == [id : IdFilter, val : [Fields -> Vals \cup {AnyVal}], and : SUBSET SimpleFilter]

(* A null operand of eq or ne switches the operator off. *)
IdMatches(id, idf) ==
  \/ idf.op = "none"
  \/ idf.op \in {"is", "eq", "in"} /\ id \in idf.ids
  \/ idf.op = "ne" /\ id \notin idf.ids
  \/ idf.op \in {"eq", "ne"} /\ Null \in idf.ids

SimpleMatches(doc, f) ==
  /\ IdMatches(doc.id, f.id)
  /\ \A x \in Fields : f.val[x] \in {AnyVal, doc.val[x]}

(* filterEntity: the logic operators and every field must hold. *)
Matches(doc, f) == SimpleMatches(doc, f) /\ \A g \in f.and : SimpleMatches(doc, g)

(***************************************************************************)
(* deepMerge(weak, strong, nullsAsUndefined): the strong side wins where   *)
(* it has a value.  An update passes FALSE, so a null clears the field; an *)
(* insert and a replace use the default TRUE, so a null keeps the old one. *)
(***************************************************************************)
DeepMerge(weak, strong, nullsAsUndefined) ==
  [x \in Fields |->
     IF strong[x] = Keep \/ (nullsAsUndefined /\ strong[x] = Null)
     THEN weak[x]
     ELSE strong[x]]

(* The changes of an update; the id is one more field that can be set. *)
Change == [id : Ids \cup {Keep}, val : [Fields -> Vals \cup {Null, Keep}]]

Updated(doc, ch) ==
  [id  |-> IF ch.id = Keep THEN doc.id ELSE ch.id,
   val |-> DeepMerge(doc.val, ch.val, FALSE)]
=============================================================================
