---------------------------- MODULE TenantViews -----------------------------
(***************************************************************************)
(* What tenants and soft deletion promise together: each tenant has a      *)
(* collection of its own, the records it can see.  A step made for a       *)
(* tenant changes no other tenant's collection, and changes its own as a   *)
(* collection without deleted records or other tenants would change: one   *)
(* record is added, or some of those present are rewritten or removed; a   *)
(* record that was removed only comes back by an insertion.  Steps of      *)
(* system actors, which belong to no tenant, are not restricted.           *)
(***************************************************************************)
CONSTANTS Ids, Vals, Tenants, None

VARIABLES
  view,  \* [Tenants -> [Ids -> value of the record, or None]]
  by     \* the tenant the last step was made for, None for a system actor

View == [Ids -> Vals \cup {None}]

Init == view = [t \in Tenants |-> [x \in Ids |-> None]] /\ by = None

Added(v, w) == \E x \in Ids : v[x] = None /\ \A y \in Ids \ {x} : w[y] = v[y]

Rewritten(v, w) == \A x \in Ids : v[x] = None => w[x] = None

OwnStep(t) ==
  /\ by' = t
  /\ \A u \in Tenants \ {t} : view'[u] = view[u]
  /\ Added(view[t], view'[t]) \/ Rewritten(view[t], view'[t])

SystemStep == by' = None

Next == view' \in [Tenants -> View] /\ (SystemStep \/ \E t \in Tenants : OwnStep(t))

Spec == Init /\ [][Next]_<<view, by>>
=============================================================================
