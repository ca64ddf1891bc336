-------------------------- MODULE InMemoryReplace ---------------------------
(***************************************************************************)
(* replaceOne of the in-memory driver against its documentation.  A client *)
(* fills the collection and replaces records; call remembers what it asked *)
(* for, so that a step can be compared with the request behind it.         *)
(***************************************************************************)
EXTENDS InMemoryDAO

VARIABLE call   \* the replaceOne of the last step, Null after another step

callVars == <<vars, call>>

ReplaceInit == Init /\ call = Null

ReplaceNext ==
  \/ \E doc \in Doc : InsertOne(doc) /\ Clash(doc.id \in LiveIds) /\ call' = Null
  \/ \E f \in Filters, val \in Val :
        ReplaceOne(f, val) /\ Clash(FALSE) /\ call' = [filter |-> f, replace |-> val]
  \/ \E f \in Filters : DeleteOne(f) /\ Clash(FALSE) /\ call' = Null

ReplaceSpec == ReplaceInit /\ [][ReplaceNext]_callVars

(* "replace a record identified by a specific filter": the record that     *)
(* replaceOne changes is one its filter selects.                           *)
ReplaceHitsFilter ==
  [][call' # Null =>
       \A i \in Occupied : memory'[i] # memory[i] => Matches(memory[i], call'.filter)]_callVars
=============================================================================
