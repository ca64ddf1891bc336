---------------------------- MODULE SecurityPolicy --------------------------
(***************************************************************************)
(* The records of one entity, whose operations pass the middleware that    *)
(* createSecurityPolicyMiddlewares makes from the entity's policy.  It     *)
(* compares what an operation asks for with what the actor's permissions   *)
(* grant in the operation's security domain, and confines the operation to *)
(* the records of that domain.  No record is looked at before the driver   *)
(* executes the operation, so an operation is one step; it returns in a    *)
(* second one, before the next operation is executed.                      *)
(***************************************************************************)
CONSTANTS
  Ids, Values,
  Keys,         \* keys of the security domains
  Fields,       \* fields of the entity that hold their values
  DomainMap,    \* the field of each key in this entity, None for keys it ignores
  Permissions,
  Policy,       \* what each permission allows: a crud
  Default,      \* the default permission: a crud, or None
  Actors,       \* entity managers
  ContextOf,    \* the security context of each actor
  Nodes,        \* nodes of the tree of fields that projections select from
  Projections,  \* projections that are asked for
  Domains,      \* operation domains that operations name
  Changes,      \* changes that updates make
  Everywhere,   \* the domain true: a permission without a restriction
  None, Keep    \* a missing value; "the change does not mention this field"

Rec == [Fields -> Values \cup {None}]

(* A projection is the set of nodes it selects, the root among them; true  *)
(* is Nodes and false is the empty set.  Nodes has a node for the fields   *)
(* that no projection names: a list of all fields is still not true.       *)
Crud == [read : SUBSET Nodes, create : BOOLEAN, update : BOOLEAN, delete : BOOLEAN]

(* A permission is held everywhere or for a list of atoms: values that the *)
(* fields of a record must have.  A domain lists the values for each key.  *)
Partial(D, R) == UNION {[S -> R] : S \in SUBSET D}
Atom == Partial(Keys, Values)
Domain == Partial(Keys, SUBSET Values)

ASSUME PolicyAssumption ==
  /\ None \notin Values \cup Rec \cup Fields \cup Crud \cup Actors
  /\ Keep \notin Values \cup {None}
  /\ DomainMap \in [Keys -> Fields \cup {None}]
  /\ \A k, l \in Keys : DomainMap[k] = DomainMap[l] => k = l \/ DomainMap[k] = None
  /\ Policy \in [Permissions -> Crud]
  /\ Default \in Crud \cup {None}
  /\ \A a \in Actors : \A p \in DOMAIN ContextOf[a] :
       ContextOf[a][p] = Everywhere \/ ContextOf[a][p] \subseteq Atom
  /\ Projections \subseteq SUBSET Nodes
  /\ Domains \subseteq Domain
  /\ Changes \subseteq [Fields -> Values \cup {None, Keep}]

VARIABLES
  store,  \* [Ids -> record, or None]
  reply   \* the operation just executed and what it returns

vars == <<store, reply>>

-----------------------------------------------------------------------------
(* Permissions *)

(* PERMISSION.or of no permission is DENY, PERMISSION.and of none is ALLOW. *)
Or(S) ==
  [read   |-> UNION {c.read : c \in S},
   create |-> \E c \in S : c.create,
   update |-> \E c \in S : c.update,
   delete |-> \E c \in S : c.delete]

(* Mutant: one value of the domain is enough. *)
AndSome(S) == Or(S)

And(S) ==
  [read   |-> {n \in Nodes : \A c \in S : n \in c.read},
   create |-> \A c \in S : c.create,
   update |-> \A c \in S : c.update,
   delete |-> \A c \in S : c.delete]

(* Atoms and domains in terms of the entity's fields. *)
Mapped(m) ==
  [f \in {DomainMap[k] : k \in DOMAIN m} \ {None} |->
     m[CHOOSE k \in DOMAIN m : DomainMap[k] = f]]

(* Where an actor holds a permission.  Atoms of ignored keys are dropped. *)
Held(a, p) ==
  IF ContextOf[a][p] = Everywhere THEN Everywhere
  ELSE {m \in {Mapped(atom) : atom \in ContextOf[a][p]} : DOMAIN m # {}}

Related(a) == {p \in Permissions \cap DOMAIN ContextOf[a] : Held(a, p) # {}}
Unrestricted(a) == {p \in Related(a) : Held(a, p) = Everywhere}
Restricted(a) == Related(a) \ Unrestricted(a)

Defaults == {Default} \ {None}

(* An atom grants a value of a field when its other fields fit the domain. *)
Fits(atom, f, v, dom) ==
  /\ f \in DOMAIN atom /\ atom[f] = v
  /\ \A g \in DOMAIN atom \ {f} : g \in DOMAIN dom /\ atom[g] \in dom[g]

HeldFor(a, f, v, dom) ==
  Unrestricted(a) \cup {p \in Restricted(a) : \E atom \in Held(a, p) : Fits(atom, f, v, dom)}

Cruds(S) == {Policy[p] : p \in S}

(* What an actor may do with all values the domain lists for a field. *)
FieldCrud(a, f, dom) == And({Or(Cruds(HeldFor(a, f, v, dom))) : v \in dom[f]})

(* Mutant: the default counts only if the actor has no permission. *)
CrudPolicyFallback(a, dom) ==
  LET held == {FieldCrud(a, f, dom) : f \in DOMAIN dom} \cup Cruds(Unrestricted(a)) IN
  IF held # {} THEN Or(held) ELSE Or(Defaults)

(* Mutant: the fields of the domain are intersected, too. *)
CrudPolicyStrict(a, dom) ==
  Or({And({FieldCrud(a, f, dom) : f \in DOMAIN dom})} \cup Cruds(Unrestricted(a)) \cup Defaults)

CrudPolicy(a, dom) ==
  Or({FieldCrud(a, f, dom) : f \in DOMAIN dom} \cup Cruds(Unrestricted(a)) \cup Defaults)

(* What an actor may do with a record: its permissions that hold for it. *)
Agrees(atom, rec) == \A f \in DOMAIN atom : rec[f] = atom[f]

HeldOn(a, rec) ==
  Unrestricted(a) \cup {p \in Restricted(a) : \E atom \in Held(a, p) : Agrees(atom, rec)}

(* Insertions look at the record, and at the default only without them. *)
InsertCrud(a, rec) ==
  IF HeldOn(a, rec) # {} THEN Or(Cruds(HeldOn(a, rec))) ELSE Or(Defaults)

-----------------------------------------------------------------------------
(* Operations *)

Request(op) == [op |-> op, domain |-> <<>>, ids |-> Ids, wanted |-> Nodes]

(* Whether the middleware lets an operation pass. *)
Allowed(a, req) ==
  LET crud == CrudPolicy(a, Mapped(req.domain)) IN
  \/ req.op = "read" /\ req.wanted \subseteq crud.read
  \/ req.op \in {"update", "replace"} /\ crud.update
  \/ req.op = "delete" /\ crud.delete

(* Mutant: the operation is not confined to its domain. *)
InDomainIgnored(rec, dom) == TRUE

InDomain(rec, dom) == \A f \in DOMAIN dom : rec[f] \in dom[f]

Present == {x \in Ids : store[x] # None}
Hits(req) == {x \in Present \cap req.ids : InDomain(store[x], Mapped(req.domain))}

Updated(rec, ch) == [f \in Fields |-> IF ch[f] = Keep THEN rec[f] ELSE ch[f]]

NoReply == [actor |-> None, req |-> Request("none"), outcome |-> "none", got |-> {}]

Respond(a, req, outcome, got) ==
  reply' = [actor |-> a, req |-> req, outcome |-> outcome, got |-> got]

Refused(a, req) ==
  /\ ~Allowed(a, req)
  /\ Respond(a, req, "error", {})
  /\ UNCHANGED store

(* insertOne, with an id no record has. *)
Insert(a) ==
  \E x \in Ids \ Present, rec \in Rec :
    IF InsertCrud(a, rec).create
    THEN /\ store' = [store EXCEPT ![x] = rec]
         /\ Respond(a, Request("insert"), "done", {})
    ELSE /\ Respond(a, Request("insert"), "error", {})
         /\ UNCHANGED store

(* Requests of the callers: their filters select all records or one. *)
Asked(op, projections) ==
  [op : {op}, domain : Domains, ids : {Ids} \cup {{x} : x \in Ids}, wanted : projections]

(* findAll, findPage, exists and count; aggregate, of the fields it uses. *)
Read(a) ==
  \E req \in Asked("read", Projections) :
    \/ Refused(a, req)
    \/ /\ Allowed(a, req)
       /\ Respond(a, req, "done", {store[x] : x \in Hits(req)})
       /\ UNCHANGED store

(* updateOne, updateAll *)
Update(a) ==
  \E req \in Asked("update", {Nodes}) :
    \/ Refused(a, req)
    \/ /\ Allowed(a, req)
       /\ \E ch \in Changes, S \in {Hits(req)} \cup {{x} : x \in Hits(req)} :
            store' = [x \in Ids |-> IF x \in S THEN Updated(store[x], ch) ELSE store[x]]
       /\ Respond(a, req, "done", {})

(* replaceOne *)
Replace(a) ==
  \E req \in Asked("replace", {Nodes}) :
    \/ Refused(a, req)
    \/ /\ Allowed(a, req)
       /\ \/ Hits(req) = {} /\ UNCHANGED store
          \/ \E x \in Hits(req), rec \in Rec : store' = [store EXCEPT ![x] = rec]
       /\ Respond(a, req, "done", {})

(* deleteOne, deleteAll *)
Delete(a) ==
  \E req \in Asked("delete", {Nodes}) :
    \/ Refused(a, req)
    \/ /\ Allowed(a, req)
       /\ \E S \in {Hits(req)} \cup {{x} : x \in Hits(req)} :
            store' = [x \in Ids |-> IF x \in S THEN None ELSE store[x]]
       /\ Respond(a, req, "done", {})

Return == reply # NoReply /\ reply' = NoReply /\ UNCHANGED store

Init == store = [x \in Ids |-> None] /\ reply = NoReply

Next ==
  \/ /\ reply = NoReply
     /\ \E a \in Actors : Insert(a) \/ Read(a) \/ Update(a) \/ Replace(a) \/ Delete(a)
  \/ Return

Spec == Init /\ [][Next]_vars

-----------------------------------------------------------------------------
(* Properties *)

(* The type invariant. *)
TypeOK ==
  /\ store \in [Ids -> Rec \cup {None}]
  /\ reply.actor \in Actors \cup {None}
  /\ reply.got \subseteq Rec

(* What an actor is entitled to, looking at the record itself. *)
Entitled(a, rec) == Or(Cruds(HeldOn(a, rec)) \cup Defaults)

(* The middleware takes the fields of a domain one by one: an atom with    *)
(* several fields is told apart from others only if the domain lists one   *)
(* value for each of them.                                                 *)
Separate(a, dom) ==
  \A p \in Restricted(a) : \A atom \in Held(a, p) : \A f, g \in DOMAIN atom :
    f = g \/ g \notin DOMAIN dom \/ \A v, w \in dom[g] : v = w

(* Of every record an operation returns, permissions that hold for that    *)
(* record allow what was asked for, though no record was looked at.        *)
ReadsPermitted ==
  reply.actor # None /\ Separate(reply.actor, Mapped(reply.req.domain)) =>
    \A rec \in reply.got : reply.req.wanted \subseteq Entitled(reply.actor, rec).read

(* A record is inserted, changed or removed only by an actor whose         *)
(* permissions for that record, as it was before, allow it.                *)
WritesPermitted ==
  [][LET a == reply'.actor IN LET op == reply'.req.op IN
     a # None /\ Separate(a, Mapped(reply'.req.domain)) =>
       \A x \in Ids :
         \/ store'[x] = store[x]
         \/ op = "insert" /\ Entitled(a, store'[x]).create
         \/ op \in {"update", "replace"} /\ Entitled(a, store[x]).update
         \/ op = "delete" /\ Entitled(a, store[x]).delete]_vars

(* A permission held for all the domain's values of a field. *)
HeldThroughout(a, p, dom) ==
  \/ p \in Unrestricted(a)
  \/ \E f \in DOMAIN dom : \A v \in dom[f] : [g \in {f} |-> v] \in Held(a, p)

(* An actor that names the domain in which it holds a permission can read  *)
(* all that the permission allows of all records of that domain.           *)
GrantedSuffices ==
  [][LET a == reply'.actor IN LET req == reply'.req IN
     req.op = "read" /\ (\E p \in Related(a) :
                           /\ req.wanted \subseteq Policy[p].read
                           /\ HeldThroughout(a, p, Mapped(req.domain))) =>
       /\ reply'.outcome = "done"
       /\ reply'.got = {store[x] : x \in Hits(req)}]_vars

(* One actor holds at least the permissions of another. *)
Covers(a, b) ==
  \A p \in Related(b) :
    /\ p \in Related(a)
    /\ p \in Restricted(a) => p \in Restricted(b) /\ Held(b, p) \subseteq Held(a, p)

(* What is refused to an actor is refused to those that hold less: a       *)
(* permission more never takes a right away.                               *)
RefusalsExtend ==
  reply.outcome = "error" /\ reply.req.op # "insert" =>
    \A b \in Actors : Covers(reply.actor, b) => ~Allowed(b, reply.req)
=============================================================================
