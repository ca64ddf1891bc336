------------------------ MODULE DocumentCollection --------------------------
(***************************************************************************)
(* What the in-memory driver promises its callers, without slots or        *)
(* indexes: a map from ids to records.  Each operation is one step on the  *)
(* records that match its filter.                                          *)
(***************************************************************************)
EXTENDS Documents

CONSTANTS Filters, Changes

VARIABLE docs   \* id -> field values, Null when there is no such record

CollectionTypeOK == docs \in [Ids -> Val \cup {Null}]

DocOf(x) == [id |-> x, val |-> docs[x]]
Present == {x \in Ids : docs[x] # Null}
Matching(f) == {x \in Present : Matches(DocOf(x), f)}

Init == docs = [x \in Ids |-> Null]

Insert(doc) ==
  /\ doc.id \notin Present
  /\ docs' = [docs EXCEPT ![doc.id] = doc.val]

Update(S, ch) ==
  docs' = [x \in Ids |-> IF x \in S THEN Updated(DocOf(x), ch).val ELSE docs[x]]

UpdateOne(f, ch) == \E x \in Matching(f) : Update({x}, ch)
UpdateAll(f, ch) == Update(Matching(f), ch)

Remove(S) == docs' = [x \in Ids |-> IF x \in S THEN Null ELSE docs[x]]

DeleteOne(f) == \E x \in Matching(f) : Remove({x})
DeleteAll(f) == Remove(Matching(f))

(* All that callers of replaceOne can rely on: one record takes the new    *)
(* values that are not null.  Which record, and the fate of its other      *)
(* fields, are the subject of InMemoryReplace.                            *)
ReplaceSome(val) ==
  \E x \in Present :
     docs' = [docs EXCEPT ![x] = DeepMerge(docs[x], val, TRUE)]

Clear == docs' = [x \in Ids |-> Null]

Next ==
  \/ \E doc \in Doc : Insert(doc)
  \/ \E f \in Filters, ch \in Changes : UpdateOne(f, ch) \/ UpdateAll(f, ch)
  \/ \E f \in Filters : DeleteOne(f) \/ DeleteAll(f)
  \/ \E val \in Val : ReplaceSome(val)
  \/ Clear

Spec == Init /\ [][Next]_docs
=============================================================================
