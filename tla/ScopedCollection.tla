------------------------- MODULE ScopedCollection ---------------------------
(***************************************************************************)
(* A collection shared by several tenants, seen through the middlewares    *)
(* tenantSecurityPolicy and softDelete.  They rewrite the parameters of an *)
(* operation before the driver executes it, or refuse it; softDelete turns *)
(* a delete into an update of its own, which passes all middlewares again. *)
(* They keep no state between an operation's call and its execution, so    *)
(* an operation is one step, the one in which the driver executes it.      *)
(***************************************************************************)
CONSTANTS
  Ids, Vals, Tenants,
  Actors,       \* users of the data layer: entity managers with their metadata
  TenantOf,     \* the tenant in an actor's metadata, None when there is none
  SoftDeletes,  \* the actors for whom softDelete's function gives an answer
  RawPolicy,    \* the option rawOperations of tenantSecurityPolicy
  Chains,       \* orders in which the two middlewares can be configured
  Filters,      \* filters the actors use
  Changes,      \* changes the actors use
  None,         \* a null or missing value
  Keep,         \* "the change does not mention this field"
  Compound      \* a filter constrains the tenant by operators, as in { in: [..] }

Rec == [tenant : Tenants \cup {None}, live : BOOLEAN, val : Vals]

(* What the tenant middleware can tell about a filter: its condition on    *)
(* the tenant when it is a plain object; and what the filter selects.      *)
Filter ==
  [key     : Tenants \cup {None, Compound},
   tenants : SUBSET (Tenants \cup {None}),
   live    : SUBSET BOOLEAN,
   ids     : SUBSET Ids]

(* Changes; raw ones are functions, opaque to the middlewares. *)
Change ==
  [raw    : BOOLEAN,
   tenant : Tenants \cup {None, Keep},
   live   : BOOLEAN \cup {Keep},
   val    : Vals \cup {Keep}]

ASSUME ScopedAssumption ==
  /\ None \notin Tenants \cup Vals \cup Rec \cup Actors
  /\ Keep \notin Tenants \cup Vals \cup BOOLEAN \cup {None}
  /\ Compound \notin Tenants \cup {None}
  /\ TenantOf \in [Actors -> Tenants \cup {None}]
  /\ SoftDeletes \subseteq Actors
  /\ RawPolicy \in {"forbidden", "warning", "allowed"}
  /\ Chains \subseteq {<<"soft", "tenant">>, <<"tenant", "soft">>}
  /\ Filters \subseteq Filter /\ Changes \subseteq Change
  /\ Vals # {}

VARIABLES
  store,  \* [Ids -> record, or None]
  chain,  \* the middlewares in the order they run; never changes
  reply   \* the last operation and what it returned

vars == <<store, chain, reply>>

-----------------------------------------------------------------------------
(* Filters *)

Selects(f, x, rec) ==
  /\ x \in f.ids
  /\ rec.tenant \in f.tenants
  /\ rec.live \in f.live

(* Mutant: the objects are spread into one, { ...f, ...g }: g wins. *)
Spread(f, g) ==
  [g EXCEPT !.live = IF @ = BOOLEAN THEN f.live ELSE @,
            !.tenants = IF @ = Tenants \cup {None} THEN f.tenants ELSE @]

(* { $and: [f, g] } has no condition on the tenant at its top level. *)
And(f, g) ==
  [key |-> None, tenants |-> f.tenants \cap g.tenants,
   live |-> f.live \cap g.live, ids |-> f.ids \cap g.ids]

AnyRecord == [key |-> None, tenants |-> Tenants \cup {None}, live |-> BOOLEAN, ids |-> Ids]
OfTenant(t) == [AnyRecord EXCEPT !.tenants = {t}]
NotDeleted == [AnyRecord EXCEPT !.live = {TRUE}]

-----------------------------------------------------------------------------
(* Middlewares.  A hook passes a request on, refuses it, or asks for       *)
(* another operation to be performed instead.                              *)

Go(req) == [next |-> "go", req |-> req]
Refuse(req) == [next |-> "refuse", req |-> req]
Instead(req) == [next |-> "instead", req |-> req]

(* The conditions under which tenantSecurityPolicy throws. *)
NamesOther(t, req) ==
  \/ req.op # "insert" /\ req.filter.key \notin {None, t}
  \/ req.op \in {"insert", "replace"} /\ req.rec.tenant \notin {None, t}
  \/ req.op = "update" /\ ~req.change.raw /\ req.change.tenant \notin {Keep, None, t}
  \/ req.op = "update" /\ req.change.raw /\ RawPolicy = "forbidden"

(* Mutant: the tenant is checked in the changes, not set. *)
ScopedFilter(t, req) ==
  [req EXCEPT !.filter = And(OfTenant(t), @), !.rec = [@ EXCEPT !.tenant = t]]

Scoped(t, req) ==
  [req EXCEPT !.filter = And(OfTenant(t), @),
              !.rec = [@ EXCEPT !.tenant = t],
              !.change = IF @.raw THEN @ ELSE [@ EXCEPT !.tenant = t]]

(* Mutant: no early return for actors without a tenant. *)
TenantAlways(a, req) ==
  IF NamesOther(TenantOf[a], req) THEN Refuse(req) ELSE Go(Scoped(TenantOf[a], req))

TenantBefore(a, req) ==
  CASE TenantOf[a] = None -> Go(req)
    [] TenantOf[a] # None /\ NamesOther(TenantOf[a], req) -> Refuse(req)
    [] OTHER -> Go(Scoped(TenantOf[a], req))

(* The changes softDelete is configured with, { live: false }. *)
Deletion == [raw |-> FALSE, tenant |-> Keep, live |-> FALSE, val |-> Keep]

(* Mutant: only reads leave deleted records out. *)
SoftReads(a, req) ==
  CASE a \notin SoftDeletes \/ req.op \in {"insert", "update", "replace"} -> Go(req)
    [] a \in SoftDeletes /\ req.op = "delete" ->
         Instead([req EXCEPT !.op = "update", !.change = Deletion])
    [] OTHER -> Go([req EXCEPT !.filter = And(NotDeleted, @)])

SoftBefore(a, req) ==
  CASE a \notin SoftDeletes \/ req.op = "insert" -> Go(req)
    [] a \in SoftDeletes /\ req.op = "delete" ->
         Instead([req EXCEPT !.op = "update", !.change = Deletion])
    [] OTHER -> Go([req EXCEPT !.filter = And(NotDeleted, @)])

Before(mw, a, req) == IF mw = "tenant" THEN TenantBefore(a, req) ELSE SoftBefore(a, req)

Through(a, req) ==
  LET first == Before(chain[1], a, req) IN
  IF first.next = "go" THEN Before(chain[2], a, first.req) ELSE first

(* Mutant: softDelete's update goes to the driver as it is. *)
AnswerDirectly(a, req) ==
  LET answer == Through(a, req) IN
  IF answer.next = "instead" THEN Go(answer.req) ELSE answer

(* The update softDelete asks for is not a delete: it is never replaced. *)
Answer(a, req) ==
  LET answer == Through(a, req) IN
  IF answer.next = "instead" THEN Through(a, answer.req) ELSE answer

-----------------------------------------------------------------------------
(* The driver *)

Present == {x \in Ids : store[x] # None}
Hits(f) == {x \in Present : Selects(f, x, store[x])}

(* The records an operation is applied to: all that its filter selects, or *)
(* one of them if there are any.                                           *)
Targets(req) ==
  IF req.all \/ Hits(req.filter) = {} THEN {Hits(req.filter)}
  ELSE {{x} : x \in Hits(req.filter)}

Updated(rec, ch) ==
  [tenant |-> IF ch.tenant = Keep THEN rec.tenant ELSE ch.tenant,
   live   |-> IF ch.live = Keep THEN rec.live ELSE ch.live,
   val    |-> IF ch.val = Keep THEN rec.val ELSE ch.val]

(* What the driver leaves of the records it applies an operation to. *)
Effect(req, S) ==
  [x \in Ids |->
     CASE x \in S /\ req.op = "update"  -> Updated(store[x], req.change)
       [] x \in S /\ req.op = "replace" -> req.rec
       [] x \in S /\ req.op = "delete"  -> None
       [] OTHER -> store[x]]

Reads == {"find", "aggregate"}

(* The caller's filter is kept for reads, which properties compare it with. *)
Respond(a, req, outcome, got) ==
  /\ reply' = [actor |-> a, op |-> req.op, outcome |-> outcome, got |-> got,
               filter |-> IF req.op \in Reads THEN req.filter ELSE AnyRecord]
  /\ UNCHANGED chain

-----------------------------------------------------------------------------
(* Operations *)

Request(op) ==
  [op |-> op, all |-> TRUE, filter |-> AnyRecord, change |-> Deletion,
   rec |-> [tenant |-> None, live |-> TRUE, val |-> CHOOSE v \in Vals : TRUE]]

Refused(a, req) ==
  /\ Answer(a, req).next = "refuse"
  /\ Respond(a, req, "error", {})
  /\ UNCHANGED store

Performed(a, req) ==
  /\ Answer(a, req).next = "go"
  /\ \E S \in Targets(Answer(a, req).req) :
       /\ store' = Effect(Answer(a, req).req, S)
       /\ Respond(a, req, "done", IF req.op \in Reads THEN {store[x] : x \in S} ELSE {})

(* insertOne, with an id no record has. *)
Insert(a) ==
  \E x \in Ids \ Present, rec \in Rec :
    LET req == [Request("insert") EXCEPT !.rec = rec] IN
    \/ Refused(a, req)
    \/ /\ Answer(a, req).next = "go"
       /\ store' = [store EXCEPT ![x] = Answer(a, req).req.rec]
       /\ Respond(a, req, "done", {})

(* findAll, findOne, and aggregate over the records a filter selects. *)
Read(a) ==
  \E op \in Reads, f \in Filters, all \in BOOLEAN :
    LET req == [Request(op) EXCEPT !.filter = f, !.all = all \/ op = "aggregate"] IN
    Refused(a, req) \/ Performed(a, req)

(* updateOne, updateAll *)
Update(a) ==
  \E f \in Filters, ch \in Changes, all \in BOOLEAN :
    LET req == [Request("update") EXCEPT !.filter = f, !.change = ch, !.all = all] IN
    Refused(a, req) \/ Performed(a, req)

(* replaceOne *)
Replace(a) ==
  \E f \in Filters, rec \in Rec :
    LET req == [Request("replace") EXCEPT !.filter = f, !.rec = rec, !.all = FALSE] IN
    Refused(a, req) \/ Performed(a, req)

(* deleteOne, deleteAll *)
Delete(a) ==
  \E f \in Filters, all \in BOOLEAN :
    LET req == [Request("delete") EXCEPT !.filter = f, !.all = all] IN
    Refused(a, req) \/ Performed(a, req)

NoReply == [actor |-> None, op |-> "none", outcome |-> "none", got |-> {}, filter |-> AnyRecord]

Init ==
  /\ store = [x \in Ids |-> None]
  /\ chain \in Chains
  /\ reply = NoReply

Next == \E a \in Actors : Insert(a) \/ Read(a) \/ Update(a) \/ Replace(a) \/ Delete(a)

Spec == Init /\ [][Next]_vars

-----------------------------------------------------------------------------
(* Properties *)

(* The type invariant. *)
TypeOK ==
  /\ store \in [Ids -> Rec \cup {None}]
  /\ chain \in Chains
  /\ reply.actor \in Actors \cup {None}
  /\ reply.got \subseteq Rec

TenantOfReply(r) == IF r.actor \in Actors THEN TenantOf[r.actor] ELSE None

(* An operation of a tenant's actor changes no record of another tenant,   *)
(* and what it writes is the tenant's: updates and replacements cannot     *)
(* move a record over, deletions that became updates are scoped again.     *)
TenantsApart ==
  [][LET t == TenantOfReply(reply') IN
     t # None =>
       \A x \in Ids :
         \/ store'[x] = store[x]
         \/ /\ store[x] = None \/ store[x].tenant = t
            /\ store'[x] = None \/ store'[x].tenant = t]_vars

(* Reads return a tenant's own records only, and none that are deleted, in *)
(* whatever order the two middlewares run.                                 *)
AnswersInScope ==
  \A rec \in reply.got :
    /\ TenantOfReply(reply) \in {None, rec.tenant}
    /\ reply.actor \in SoftDeletes => rec.live

Visible(a, rec) ==
  /\ TenantOf[a] \in {None, rec.tenant}
  /\ a \in SoftDeletes => rec.live

(* The middlewares take away nothing else: an aggregation that is answered *)
(* covers every visible record the caller's filter selects.                *)
NothingElseHidden ==
  [][reply'.op = "aggregate" /\ reply'.outcome = "done" =>
       {store[x] : x \in {y \in Hits(reply'.filter) : Visible(reply'.actor, store[y])}}
         \subseteq reply'.got]_vars

(* For actors with soft deletion no record is removed, and a deleted one   *)
(* is out of reach of every operation: none revives or rewrites it.        *)
DeletedStay ==
  [][reply'.actor \in SoftDeletes =>
       \A x \in Present : store'[x] # None /\ (store[x].live \/ store'[x] = store[x])]_vars

(* Every tenant has a collection of its own, when raw updates are          *)
(* forbidden and all actors of tenants have soft deletion.                 *)
ViewOf(t) ==
  [x \in Ids |->
     IF store[x] # None /\ store[x].tenant = t /\ store[x].live THEN store[x].val ELSE None]

Views == INSTANCE TenantViews WITH
  view <- [t \in Tenants |-> ViewOf(t)], by <- TenantOfReply(reply)

ImplementsViews == Views!Spec
=============================================================================
