------------------------ MODULE MCScopedCollection --------------------------
(* A small instance of ScopedCollection for TLC. *)
EXTENDS ScopedCollection, TLC

CONSTANTS t1, t2, user1, user2, system, x1, x2, v1

(* Two tenants with soft deletion, and a system actor without either. *)
MCTenantOf == (user1 :> t1) @@ (user2 :> t2) @@ (system :> None)

(* Every order of the middlewares. *)
MCChains == {<<"soft", "tenant">>, <<"tenant", "soft">>}

(* No condition, one on the id, a nested one that asks for deleted         *)
(* records, and conditions on the tenant in each form.                     *)
MCFilters ==
  {AnyRecord, [AnyRecord EXCEPT !.ids = {x1}], [AnyRecord EXCEPT !.live = {FALSE}]}
    \cup {[OfTenant(t1) EXCEPT !.key = k] : k \in {t1, None, Compound}}
    \cup {[OfTenant(t2) EXCEPT !.key = t2]}

(* Changes of the value and the deletion mark, of the tenant, raw ones. *)
NoChange == [raw |-> FALSE, tenant |-> Keep, live |-> Keep, val |-> Keep]
MCChanges ==
  {[NoChange EXCEPT !.live = l, !.val = v] : l \in {TRUE, Keep}, v \in Vals}
    \cup {[NoChange EXCEPT !.tenant = t] : t \in Tenants \cup {None}}
    \cup {[NoChange EXCEPT !.raw = TRUE, !.tenant = t1]}
=============================================================================
