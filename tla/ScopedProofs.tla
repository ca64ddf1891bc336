--------------------------- MODULE ScopedProofs -----------------------------
(***************************************************************************)
(* Proofs about ScopedCollection, for every set of tenants, actors, ids,   *)
(* values, filters and changes, and both orders of the middlewares.        *)
(*                                                                         *)
(* The argument: a request that the middlewares let through is confined to *)
(* what its actor may touch (Confined), whatever the caller asked for; the *)
(* driver applies it to records its filter selects; so each step writes    *)
(* only such records (EveryStep).  The properties follow from that.        *)
(***************************************************************************)
EXTENDS ScopedCollection, TLAPS

(* Requests as the operations build them and the middlewares rewrite them. *)
Requests ==
  [op : {"insert", "find", "aggregate", "update", "replace", "delete"},
   all : BOOLEAN, filter : Filter, change : Change, rec : Rec]

(* What a request may do when it was made for actor a. *)
OnlyOwn(a, req) ==
  TenantOf[a] # None =>
    /\ req.filter.tenants \subseteq {TenantOf[a]}
    /\ req.rec.tenant = TenantOf[a]
    /\ req.op = "update" /\ RawPolicy = "forbidden" => req.change.tenant \in {Keep, TenantOf[a]}

OnlyLive(a, req) ==
  a \in SoftDeletes /\ req.op # "insert" =>
    req.op # "delete" /\ req.filter.live \subseteq {TRUE}

(* A hook's answer to a request of type Requests. *)
Answers == [next : {"go", "refuse", "instead"}, req : Requests]

USE DEF Reads

-----------------------------------------------------------------------------
(* The rewriting functions keep requests well formed. *)

LEMMA AndType ==
  ASSUME NEW f \in Filter, NEW g \in Filter
  PROVE  /\ And(f, g) \in Filter
         /\ And(f, g).tenants = f.tenants \cap g.tenants
         /\ And(f, g).live = f.live \cap g.live
BY DEF And, Filter

LEMMA FilterTypes ==
  /\ AnyRecord \in Filter
  /\ NotDeleted \in Filter /\ NotDeleted.live = {TRUE}
  /\ \A t \in Tenants \cup {None} : OfTenant(t) \in Filter /\ OfTenant(t).tenants = {t}
BY DEF AnyRecord, NotDeleted, OfTenant, Filter

LEMMA DeletionType == Deletion \in Change /\ ~Deletion.raw /\ Deletion.tenant = Keep
BY DEF Deletion, Change

LEMMA RequestType ==
  ASSUME NEW op \in {"insert", "find", "aggregate", "update", "replace", "delete"}
  PROVE  Request(op) \in Requests
<1>1. (CHOOSE v \in Vals : TRUE) \in Vals
  BY ScopedAssumption
<1>2. [tenant |-> None, live |-> TRUE, val |-> CHOOSE v \in Vals : TRUE] \in Rec
  BY <1>1 DEF Rec
<1> QED
  BY <1>2, FilterTypes, DeletionType DEF Request, Requests

LEMMA AnswerTypes ==
  ASSUME NEW req \in Requests
  PROVE  /\ Go(req) \in Answers /\ Go(req).next = "go" /\ Go(req).req = req
         /\ Refuse(req) \in Answers /\ Refuse(req).next = "refuse" /\ Refuse(req).req = req
         /\ Instead(req) \in Answers /\ Instead(req).next = "instead" /\ Instead(req).req = req
BY DEF Go, Refuse, Instead, Answers

(* tenantSecurityPolicy confines what it lets through to the tenant. *)
LEMMA TenantHook ==
  ASSUME NEW a \in Actors, NEW req \in Requests
  PROVE  LET ans == TenantBefore(a, req) IN
         /\ ans \in Answers /\ ans.next # "instead" /\ ans.req.op = req.op
         /\ ans.next = "go" => OnlyOwn(a, ans.req)
         /\ ans.req.filter.live \subseteq req.filter.live
<1> DEFINE t == TenantOf[a]
<1>t. t \in Tenants \cup {None}
  BY ScopedAssumption
<1>1. CASE t = None
  BY <1>1 DEF TenantBefore, Go, Answers, OnlyOwn
<1>2. CASE t # None /\ NamesOther(t, req)
  BY <1>2 DEF TenantBefore, Refuse, Answers
<1>3. CASE t # None /\ ~NamesOther(t, req)
  <2>1. TenantBefore(a, req) = Go(Scoped(t, req))
    BY <1>3 DEF TenantBefore
  <2> DEFINE f == And(OfTenant(t), req.filter)
             rec == [req.rec EXCEPT !.tenant = t]
             ch == IF req.change.raw THEN req.change ELSE [req.change EXCEPT !.tenant = t]
  <2>2. f \in Filter /\ f.tenants \subseteq {t} /\ f.live \subseteq req.filter.live
    <3>1. req.filter \in Filter
      BY DEF Requests
    <3> QED
      BY <1>t, <3>1, AndType, FilterTypes
  <2>3. rec \in Rec /\ rec.tenant = t
    BY <1>t DEF Requests, Rec
  <2>4. ch \in Change /\ (~req.change.raw => ch.tenant = t)
    BY <1>t DEF Requests, Change
  <2>5. /\ Scoped(t, req) \in Requests /\ Scoped(t, req).op = req.op
        /\ Scoped(t, req).filter = f /\ Scoped(t, req).rec = rec /\ Scoped(t, req).change = ch
    <3>1. Scoped(t, req) = [req EXCEPT !.filter = f, !.rec = rec, !.change = ch]
      BY DEF Scoped
    <3> HIDE DEF f, rec, ch
    <3> QED
      BY <3>1, <2>2, <2>3, <2>4 DEF Requests
  <2> HIDE DEF f, rec
  <2>6. req.op = "update" /\ RawPolicy = "forbidden" => ~req.change.raw
    BY <1>3 DEF NamesOther
  <2>7. OnlyOwn(a, Scoped(t, req))
    BY <2>2, <2>3, <2>4, <2>5, <2>6 DEF OnlyOwn
  <2> QED
    BY <2>1, <2>2, <2>5, <2>7, AnswerTypes
<1> QED
  BY <1>1, <1>2, <1>3

(* softDelete confines what it lets through to the records not deleted,    *)
(* and asks for an update in place of a delete.                            *)
LEMMA SoftHook ==
  ASSUME NEW a \in Actors, NEW req \in Requests
  PROVE  LET ans == SoftBefore(a, req) IN
         /\ ans \in Answers
         /\ ans.next = "instead" => ans.req.op = "update" /\ req.op = "delete"
         /\ ans.next = "go" => /\ OnlyLive(a, ans.req)
                               /\ ans.req.op = req.op
                               /\ OnlyOwn(a, req) => OnlyOwn(a, ans.req)
         /\ ans.next # "refuse"
<1>1. CASE a \notin SoftDeletes \/ req.op = "insert"
  BY <1>1 DEF SoftBefore, Go, Answers, OnlyLive
<1>2. CASE a \in SoftDeletes /\ req.op = "delete"
  <2> DEFINE new == [req EXCEPT !.op = "update", !.change = Deletion]
  <2>1. SoftBefore(a, req) = Instead(new)
    BY <1>2 DEF SoftBefore
  <2>2. new \in Requests /\ new.op = "update"
    BY DeletionType DEF Requests
  <2> HIDE DEF new
  <2> QED
    BY <1>2, <2>1, <2>2, AnswerTypes
<1>3. CASE a \in SoftDeletes /\ req.op # "insert" /\ req.op # "delete"
  <2> DEFINE new == [req EXCEPT !.filter = And(NotDeleted, @)]
  <2>1. SoftBefore(a, req) = Go(new)
    BY <1>3 DEF SoftBefore
  <2>2. And(NotDeleted, req.filter) \in Filter
        /\ And(NotDeleted, req.filter).live \subseteq {TRUE}
        /\ And(NotDeleted, req.filter).tenants \subseteq req.filter.tenants
    <3>1. req.filter \in Filter
      BY DEF Requests
    <3>2. NotDeleted \in Filter /\ NotDeleted.live = {TRUE}
      BY FilterTypes
    <3>3. /\ And(NotDeleted, req.filter) \in Filter
          /\ And(NotDeleted, req.filter).tenants = NotDeleted.tenants \cap req.filter.tenants
          /\ And(NotDeleted, req.filter).live = NotDeleted.live \cap req.filter.live
      BY <3>1, <3>2, AndType
    <3>4. \A A, B : A = {TRUE} => A \cap B \subseteq {TRUE}
      OBVIOUS
    <3>5. And(NotDeleted, req.filter).live \subseteq {TRUE}
      BY <3>2, <3>3, <3>4
    <3> QED
      BY <3>3, <3>5
  <2>3. /\ new \in Requests /\ new.op = req.op /\ new.filter = And(NotDeleted, req.filter)
        /\ new.rec = req.rec /\ new.change = req.change
    BY <2>2 DEF Requests
  <2>4. OnlyLive(a, new)
    BY <1>3, <2>2, <2>3 DEF OnlyLive
  <2>5. OnlyOwn(a, req) => OnlyOwn(a, new)
    BY <2>2, <2>3 DEF OnlyOwn
  <2> HIDE DEF new
  <2> QED
    BY <2>1, <2>3, <2>4, <2>5, AnswerTypes
<1> QED
  BY <1>1, <1>2, <1>3

(* Both hooks, in either order. *)
LEMMA ChainOfHooks ==
  ASSUME chain \in Chains, NEW a \in Actors, NEW req \in Requests
  PROVE  LET ans == Through(a, req) IN
         /\ ans \in Answers
         /\ ans.next = "instead" => ans.req.op = "update" /\ req.op = "delete"
         /\ ans.next = "go" =>
              ans.req.op = req.op /\ OnlyOwn(a, ans.req) /\ OnlyLive(a, ans.req)
<1>1. CASE chain = <<"tenant", "soft">>
  <2> DEFINE first == TenantBefore(a, req)
  <2>1. Through(a, req) = IF first.next = "go" THEN SoftBefore(a, first.req) ELSE first
    BY <1>1 DEF Through, Before
  <2>2. /\ first \in Answers /\ first.next # "instead" /\ first.req \in Requests
        /\ first.req.op = req.op /\ (first.next = "go" => OnlyOwn(a, first.req))
    BY TenantHook DEF Answers
  <2> HIDE DEF first
  <2>3. CASE first.next = "go"
    BY <2>1, <2>2, <2>3, SoftHook
  <2> QED
    BY <2>1, <2>2, <2>3
<1>2. CASE chain = <<"soft", "tenant">>
  <2> DEFINE first == SoftBefore(a, req)
  <2>1. Through(a, req) = IF first.next = "go" THEN TenantBefore(a, first.req) ELSE first
    BY <1>2 DEF Through, Before
  <2>2. /\ first \in Answers /\ first.req \in Requests
        /\ first.next = "instead" => first.req.op = "update" /\ req.op = "delete"
        /\ first.next = "go" => first.req.op = req.op /\ OnlyLive(a, first.req)
    BY SoftHook DEF Answers
  <2> HIDE DEF first
  <2>3. CASE first.next = "go"
    <3> DEFINE second == TenantBefore(a, first.req)
    <3>1. /\ second \in Answers /\ second.next # "instead" /\ second.req.op = first.req.op
          /\ second.next = "go" => OnlyOwn(a, second.req)
          /\ second.req.filter.live \subseteq first.req.filter.live
      BY <2>2, TenantHook
    <3> HIDE DEF second
    <3>2. OnlyLive(a, second.req)
      BY <2>2, <2>3, <3>1 DEF OnlyLive
    <3> QED
      BY <2>1, <2>2, <2>3, <3>1, <3>2 DEF second
  <2> QED
    BY <2>1, <2>2, <2>3
<1> QED
  BY <1>1, <1>2, ScopedAssumption

(* Whatever the caller asked for, what reaches the driver is confined. *)
LEMMA Confined ==
  ASSUME chain \in Chains, NEW a \in Actors, NEW req \in Requests,
         Answer(a, req).next = "go"
  PROVE  LET run == Answer(a, req).req IN
         /\ run \in Requests /\ OnlyOwn(a, run) /\ OnlyLive(a, run)
         /\ run.op = req.op \/ (req.op = "delete" /\ run.op = "update")
<1> DEFINE first == Through(a, req)
<1>1. /\ first \in Answers /\ first.req \in Requests
      /\ first.next = "instead" => first.req.op = "update" /\ req.op = "delete"
      /\ first.next = "go" => first.req.op = req.op /\ OnlyOwn(a, first.req) /\ OnlyLive(a, first.req)
  BY ChainOfHooks DEF Answers
<1>2. Answer(a, req) = IF first.next = "instead" THEN Through(a, first.req) ELSE first
  BY DEF Answer
<1> HIDE DEF first
<1>3. CASE first.next = "instead"
  <2> DEFINE again == Through(a, first.req)
  <2>1. /\ again \in Answers /\ again.req \in Requests
        /\ again.next = "go" => again.req.op = "update" /\ OnlyOwn(a, again.req) /\ OnlyLive(a, again.req)
    BY <1>1, <1>3, ChainOfHooks DEF Answers
  <2> HIDE DEF again
  <2> QED
    BY <1>1, <1>2, <1>3, <2>1 DEF again
<1>4. CASE first.next # "instead"
  BY <1>1, <1>2, <1>4
<1> QED
  BY <1>3, <1>4

-----------------------------------------------------------------------------
(* What one operation of actor a does to the store. *)

(* With raw updates forbidden, it writes the tenant's records only. *)
WritesOwn(a) ==
  RawPolicy = "forbidden" /\ TenantOf[a] # None =>
    \A x \in Ids :
      \/ store'[x] = store[x]
      \/ /\ store[x] = None \/ store[x].tenant = TenantOf[a]
         /\ store'[x] = None \/ store'[x].tenant = TenantOf[a]

(* With soft deletion, it removes nothing and writes no deleted record. *)
WritesLive(a) ==
  a \in SoftDeletes =>
    \A x \in Present : store'[x] # None /\ (store[x].live \/ store'[x] = store[x])

(* It adds one record, or none. *)
AddsOne ==
  \/ \A x \in Ids : store[x] = None => store'[x] = None
  \/ \E x \in Ids : store[x] = None /\ \A y \in Ids \ {x} : store'[y] = store[y]

StepOf(a) == Insert(a) \/ Read(a) \/ Update(a) \/ Replace(a) \/ Delete(a)

(* What it returns is within the tenant and not deleted. *)
ReturnsInScope(a) ==
  \A rec \in reply'.got :
    /\ TenantOf[a] \in {None, rec.tenant}
    /\ a \in SoftDeletes => rec.live

StepFacts(a) ==
  /\ store' \in [Ids -> Rec \cup {None}]
  /\ chain' = chain
  /\ reply'.actor = a /\ reply'.got \subseteq Rec
  /\ WritesOwn(a) /\ WritesLive(a) /\ AddsOne /\ ReturnsInScope(a)

LEMMA RecNotNone == None \notin Rec
BY ScopedAssumption

LEMMA UpdatedType ==
  ASSUME NEW rec \in Rec, NEW ch \in Change
  PROVE  /\ Updated(rec, ch) \in Rec
         /\ Updated(rec, ch).tenant = IF ch.tenant = Keep THEN rec.tenant ELSE ch.tenant
BY DEF Updated, Rec, Change

LEMMA RefusedFacts ==
  ASSUME TypeOK, NEW a \in Actors, NEW req \in Requests, Refused(a, req)
  PROVE  StepFacts(a)
<1>1. store' = store /\ chain' = chain /\ reply'.actor = a /\ reply'.got = {}
  BY DEF Refused, Respond
<1> QED
  BY <1>1 DEF StepFacts, WritesOwn, WritesLive, AddsOne, ReturnsInScope, TypeOK, Present

(* A request that was let through, applied to targets its filter selects. *)
LEMMA PerformedFacts ==
  ASSUME TypeOK, NEW a \in Actors, NEW req \in Requests, req.op # "insert", Performed(a, req)
  PROVE  StepFacts(a)
<1> DEFINE run == Answer(a, req).req
<1>1. /\ run \in Requests /\ OnlyOwn(a, run) /\ OnlyLive(a, run)
      /\ run.op = req.op \/ (req.op = "delete" /\ run.op = "update")
  BY Confined DEF Performed, TypeOK
<1>2. PICK S \in Targets(run) :
        /\ store' = Effect(run, S)
        /\ Respond(a, req, "done", IF req.op \in Reads THEN {store[x] : x \in S} ELSE {})
  BY DEF Performed
<1> HIDE DEF run
<1>3. S \subseteq Hits(run.filter)
  BY <1>2 DEF Targets
<1>4. \A x \in S : /\ x \in Ids /\ store[x] # None /\ store[x] \in Rec
                   /\ store[x].tenant \in run.filter.tenants
                   /\ store[x].live \in run.filter.live
  BY <1>3 DEF Hits, Present, Selects, TypeOK
<1>5. \A x \in S : TenantOf[a] # None => store[x].tenant = TenantOf[a]
  BY <1>1, <1>4 DEF OnlyOwn
<1>6. \A x \in S : a \in SoftDeletes => store[x].live /\ run.op # "delete"
  <2>1. a \in SoftDeletes => run.op # "delete" /\ run.filter.live \subseteq {TRUE}
    <3>1. run.op # "insert"
      BY <1>1
    <3> QED
      BY <1>1, <3>1 DEF OnlyLive
  <2>2. \A x \in S : a \in SoftDeletes => store[x].live = TRUE
    BY <1>4, <2>1
  <2> QED
    BY <2>1, <2>2, Zenon
<1>7. \A x \in Ids : x \notin S => store'[x] = store[x]
  BY <1>2 DEF Effect
<1>8. ASSUME NEW x \in S
      PROVE  /\ store'[x] \in Rec \cup {None}
             /\ store'[x] = None => run.op = "delete"
             /\ RawPolicy = "forbidden" /\ TenantOf[a] # None
                  => store'[x] = None \/ store'[x].tenant = TenantOf[a]
  <2> x \in Ids /\ store[x] \in Rec
    BY <1>4
  <2>1. CASE run.op = "update"
    <3>1. store'[x] = Updated(store[x], run.change) /\ run.change \in Change
      BY <1>1, <1>2, <2>1 DEF Effect, Requests
    <3>2. RawPolicy = "forbidden" /\ TenantOf[a] # None
            => run.change.tenant \in {Keep, TenantOf[a]}
      BY <1>1, <2>1 DEF OnlyOwn
    <3> QED
      BY <1>5, <3>1, <3>2, UpdatedType, RecNotNone
  <2>2. CASE run.op = "replace"
    <3>1. store'[x] = run.rec /\ run.rec \in Rec
      BY <1>1, <1>2, <2>2 DEF Effect, Requests
    <3>2. TenantOf[a] # None => run.rec.tenant = TenantOf[a]
      BY <1>1 DEF OnlyOwn
    <3> QED
      BY <3>1, <3>2, RecNotNone
  <2>3. CASE run.op = "delete"
    BY <1>2, <2>3 DEF Effect
  <2>4. CASE run.op \notin {"update", "replace", "delete"}
    <3>1. store'[x] = store[x]
      BY <1>2, <2>4 DEF Effect
    <3> QED
      BY <1>5, <3>1, RecNotNone
  <2> QED
    BY <2>1, <2>2, <2>3, <2>4
<1>9. store' \in [Ids -> Rec \cup {None}]
  <2>1. store' = [x \in Ids |-> store'[x]]
    BY <1>2 DEF Effect
  <2>2. \A x \in Ids : store'[x] \in Rec \cup {None}
    BY <1>7, <1>8 DEF TypeOK
  <2> QED
    BY <2>1, <2>2
<1>10. /\ chain' = chain /\ reply'.actor = a
       /\ reply'.got \subseteq {store[x] : x \in S}
  BY <1>2 DEF Respond
<1>11. WritesOwn(a)
  BY <1>5, <1>7, <1>8 DEF WritesOwn
<1>12. WritesLive(a)
  BY <1>6, <1>7, <1>8 DEF WritesLive, Present
<1>13. AddsOne
  BY <1>4, <1>7 DEF AddsOne
<1>14. ReturnsInScope(a) /\ reply'.got \subseteq Rec
  BY <1>4, <1>5, <1>6, <1>10 DEF ReturnsInScope
<1> QED
  BY <1>9, <1>10, <1>11, <1>12, <1>13, <1>14 DEF StepFacts

LEMMA InsertFacts ==
  ASSUME TypeOK, NEW a \in Actors, Insert(a)
  PROVE  StepFacts(a)
<1>1. PICK x \in Ids \ Present, rec \in Rec :
        LET req == [Request("insert") EXCEPT !.rec = rec] IN
        \/ Refused(a, req)
        \/ /\ Answer(a, req).next = "go"
           /\ store' = [store EXCEPT ![x] = Answer(a, req).req.rec]
           /\ Respond(a, req, "done", {})
  BY DEF Insert
<1> DEFINE req == [Request("insert") EXCEPT !.rec = rec]
<1>2. req \in Requests /\ req.op = "insert"
  BY RequestType DEF Requests, Request
<1> HIDE DEF req
<1>3. CASE Refused(a, req)
  BY <1>2, <1>3, RefusedFacts
<1>4. CASE /\ Answer(a, req).next = "go"
           /\ store' = [store EXCEPT ![x] = Answer(a, req).req.rec]
           /\ Respond(a, req, "done", {})
  <2> DEFINE new == Answer(a, req).req.rec
  <2>1. new \in Rec /\ (TenantOf[a] # None => new.tenant = TenantOf[a])
    BY <1>2, <1>4, Confined DEF OnlyOwn, Requests, TypeOK
  <2> HIDE DEF new
  <2>2. /\ store' = [store EXCEPT ![x] = new]
        /\ chain' = chain /\ reply'.actor = a /\ reply'.got = {}
    BY <1>4 DEF Respond, new
  <2>3. store[x] = None /\ x \in Ids
    BY DEF Present
  <2>4. store' \in [Ids -> Rec \cup {None}] /\ store'[x] = new
        /\ \A y \in Ids \ {x} : store'[y] = store[y]
    BY <2>1, <2>2, <2>3 DEF TypeOK
  <2>5. WritesOwn(a)
    BY <2>1, <2>3, <2>4 DEF WritesOwn
  <2>6. WritesLive(a)
    BY <2>3, <2>4 DEF WritesLive, Present
  <2>7. AddsOne /\ ReturnsInScope(a)
    BY <2>2, <2>3, <2>4 DEF AddsOne, ReturnsInScope
  <2> QED
    BY <2>2, <2>4, <2>5, <2>6, <2>7 DEF StepFacts
<1> QED
  BY <1>1, <1>3, <1>4 DEF req

LEMMA EveryStep ==
  ASSUME TypeOK, NEW a \in Actors, StepOf(a)
  PROVE  StepFacts(a)
<1>1. CASE Insert(a)
  BY <1>1, InsertFacts
<1>2. CASE Read(a)
  <2>1. PICK op \in Reads, f \in Filters, all \in BOOLEAN :
          LET req == [Request(op) EXCEPT !.filter = f, !.all = all \/ op = "aggregate"] IN
          Refused(a, req) \/ Performed(a, req)
    BY <1>2 DEF Read
  <2> DEFINE req == [Request(op) EXCEPT !.filter = f, !.all = all \/ op = "aggregate"]
  <2>2. req \in Requests /\ req.op # "insert"
    <3>1. f \in Filter /\ (all \/ op = "aggregate") \in BOOLEAN
      BY ScopedAssumption
    <3> QED
      BY <3>1, RequestType DEF Requests, Request
  <2> HIDE DEF req
  <2> QED
    BY <2>1, <2>2, RefusedFacts, PerformedFacts DEF req
<1>3. CASE Update(a)
  <2>1. PICK f \in Filters, ch \in Changes, all \in BOOLEAN :
          LET req == [Request("update") EXCEPT !.filter = f, !.change = ch, !.all = all] IN
          Refused(a, req) \/ Performed(a, req)
    BY <1>3 DEF Update
  <2> DEFINE req == [Request("update") EXCEPT !.filter = f, !.change = ch, !.all = all]
  <2>2. req \in Requests /\ req.op # "insert"
    BY ScopedAssumption, RequestType DEF Requests, Request
  <2> HIDE DEF req
  <2> QED
    BY <2>1, <2>2, RefusedFacts, PerformedFacts DEF req
<1>4. CASE Replace(a)
  <2>1. PICK f \in Filters, rec \in Rec :
          LET req == [Request("replace") EXCEPT !.filter = f, !.rec = rec, !.all = FALSE] IN
          Refused(a, req) \/ Performed(a, req)
    BY <1>4 DEF Replace
  <2> DEFINE req == [Request("replace") EXCEPT !.filter = f, !.rec = rec, !.all = FALSE]
  <2>2. req \in Requests /\ req.op # "insert"
    BY ScopedAssumption, RequestType DEF Requests, Request
  <2> HIDE DEF req
  <2> QED
    BY <2>1, <2>2, RefusedFacts, PerformedFacts DEF req
<1>5. CASE Delete(a)
  <2>1. PICK f \in Filters, all \in BOOLEAN :
          LET req == [Request("delete") EXCEPT !.filter = f, !.all = all] IN
          Refused(a, req) \/ Performed(a, req)
    BY <1>5 DEF Delete
  <2> DEFINE req == [Request("delete") EXCEPT !.filter = f, !.all = all]
  <2>2. req \in Requests /\ req.op # "insert"
    BY ScopedAssumption, RequestType DEF Requests, Request
  <2> HIDE DEF req
  <2> QED
    BY <2>1, <2>2, RefusedFacts, PerformedFacts DEF req
<1> QED
  BY <1>1, <1>2, <1>3, <1>4, <1>5 DEF StepOf

-----------------------------------------------------------------------------
(* The theorems *)

LEMMA InitType == Init => TypeOK
BY DEF Init, TypeOK, NoReply

LEMMA NextSteps ==
  ASSUME TypeOK, [Next]_vars
  PROVE  UNCHANGED vars \/ \E a \in Actors : StepFacts(a)
BY EveryStep DEF Next, StepOf

(* The state stays in its type whatever actors request: the middlewares    *)
(* make well-formed requests of well-formed ones.                          *)
THEOREM TypeCorrect == Spec => []TypeOK
<1>1. TypeOK /\ [Next]_vars => TypeOK'
  <2> SUFFICES ASSUME TypeOK, [Next]_vars
               PROVE  TypeOK'
    OBVIOUS
  <2>1. CASE UNCHANGED vars
    BY <2>1 DEF TypeOK, vars
  <2>2. ASSUME NEW a \in Actors, StepFacts(a)
        PROVE  TypeOK'
    BY <2>2 DEF StepFacts, TypeOK
  <2> QED
    BY <2>1, <2>2, NextSteps
<1> QED
  BY <1>1, InitType, PTL DEF Spec

(* Tenants cannot reach each other's records: with raw updates forbidden,  *)
(* what a tenant's operation changes belongs to the tenant before and      *)
(* after, in either order of the middlewares.                              *)
THEOREM TenantsStayApart ==
  ASSUME RawPolicy = "forbidden"
  PROVE  Spec => TenantsApart
<1> DEFINE Apart == LET t == TenantOfReply(reply') IN
     t # None =>
       \A x \in Ids :
         \/ store'[x] = store[x]
         \/ /\ store[x] = None \/ store[x].tenant = t
            /\ store'[x] = None \/ store'[x].tenant = t
<1>1. TypeOK /\ [Next]_vars => [Apart]_vars
  <2> SUFFICES ASSUME TypeOK, [Next]_vars
               PROVE  [Apart]_vars
    OBVIOUS
  <2>1. ASSUME NEW a \in Actors, StepFacts(a)
        PROVE  Apart
    BY <2>1 DEF StepFacts, WritesOwn, TenantOfReply
  <2> QED
    BY <2>1, NextSteps
<1> QED
  BY <1>1, TypeCorrect, PTL DEF Spec, TenantsApart

(* With soft deletion no record is lost, and a deleted one is out of the   *)
(* reach of every operation of the actors concerned.                       *)
THEOREM DeletedAlwaysStay == Spec => DeletedStay
<1> DEFINE Stay == reply'.actor \in SoftDeletes =>
       \A x \in Present : store'[x] # None /\ (store[x].live \/ store'[x] = store[x])
<1>1. TypeOK /\ [Next]_vars => [Stay]_vars
  <2> SUFFICES ASSUME TypeOK, [Next]_vars
               PROVE  [Stay]_vars
    OBVIOUS
  <2>1. ASSUME NEW a \in Actors, StepFacts(a)
        PROVE  Stay
    BY <2>1 DEF StepFacts, WritesLive
  <2> QED
    BY <2>1, NextSteps
<1> QED
  BY <1>1, TypeCorrect, PTL DEF Spec, DeletedStay

(* Reads return only the tenant's records, and none that are deleted.      *)
THEOREM AnswersAlwaysInScope == Spec => []AnswersInScope
<1>1. Init => AnswersInScope
  BY DEF Init, NoReply, AnswersInScope
<1>2. TypeOK /\ AnswersInScope /\ [Next]_vars => AnswersInScope'
  <2> SUFFICES ASSUME TypeOK, AnswersInScope, [Next]_vars
               PROVE  AnswersInScope'
    OBVIOUS
  <2>1. CASE UNCHANGED vars
    BY <2>1 DEF AnswersInScope, TenantOfReply, vars
  <2>2. ASSUME NEW a \in Actors, StepFacts(a)
        PROVE  AnswersInScope'
    BY <2>2 DEF StepFacts, ReturnsInScope, AnswersInScope, TenantOfReply
  <2> QED
    BY <2>1, <2>2, NextSteps
<1> QED
  BY <1>1, <1>2, TypeCorrect, PTL DEF Spec

-----------------------------------------------------------------------------
(* The middlewares hide nothing else. *)

(* Filter g selects what f selects and actor a may see. *)
Covers(a, f, g) ==
  \A x \in Ids, rec \in Rec : Selects(f, x, rec) /\ Visible(a, rec) => Selects(g, x, rec)

LEMMA TenantCovers ==
  ASSUME NEW a \in Actors, NEW req \in Requests, TenantBefore(a, req).next = "go"
  PROVE  LET new == TenantBefore(a, req).req IN
         new.all = req.all /\ Covers(a, req.filter, new.filter)
<1> DEFINE t == TenantOf[a]
<1>1. CASE t = None
  BY <1>1 DEF TenantBefore, Go, Covers
<1>2. CASE t # None
  <2>1. TenantBefore(a, req) = Go(Scoped(t, req))
    BY <1>2 DEF TenantBefore, Refuse
  <2> DEFINE f == And(OfTenant(t), req.filter)
  <2>2. Go(Scoped(t, req)).req = Scoped(t, req)
    BY DEF Go
  <2>3. Scoped(t, req).all = req.all /\ Scoped(t, req).filter = f
    BY DEF Scoped, Requests
  <2>4. f.tenants = {t} \cap req.filter.tenants /\ f.live = BOOLEAN \cap req.filter.live
        /\ f.ids = Ids \cap req.filter.ids
    BY DEF And, OfTenant, AnyRecord
  <2> HIDE DEF f
  <2>5. ASSUME NEW x \in Ids, NEW rec \in Rec, Selects(req.filter, x, rec), Visible(a, rec)
        PROVE  Selects(f, x, rec)
    BY <1>2, <2>4, <2>5 DEF Selects, Visible, Rec
  <2> QED
    BY <2>1, <2>2, <2>3, <2>5 DEF Covers
<1> QED
  BY <1>1, <1>2

LEMMA SoftCovers ==
  ASSUME NEW a \in Actors, NEW req \in Requests, SoftBefore(a, req).next = "go"
  PROVE  LET new == SoftBefore(a, req).req IN
         new.all = req.all /\ Covers(a, req.filter, new.filter)
<1>1. CASE a \notin SoftDeletes \/ req.op = "insert"
  BY <1>1 DEF SoftBefore, Go, Covers
<1>2. CASE a \in SoftDeletes /\ req.op # "insert"
  <2> DEFINE new == [req EXCEPT !.filter = And(NotDeleted, @)]
             f == And(NotDeleted, req.filter)
  <2>1. SoftBefore(a, req) = Go(new)
    BY <1>2 DEF SoftBefore, Instead
  <2>2. Go(new).req = new /\ new.all = req.all /\ new.filter = f
    BY DEF Go, Requests
  <2>3. f.tenants = (Tenants \cup {None}) \cap req.filter.tenants
        /\ f.live = {TRUE} \cap req.filter.live /\ f.ids = Ids \cap req.filter.ids
    BY DEF And, NotDeleted, AnyRecord
  <2> HIDE DEF f, new
  <2>4. ASSUME NEW x \in Ids, NEW rec \in Rec, Selects(req.filter, x, rec), Visible(a, rec)
        PROVE  Selects(f, x, rec)
    <3>1. rec.tenant \in Tenants \cup {None} /\ rec.live \in BOOLEAN /\ rec.live
      BY <1>2, <2>4 DEF Visible, Rec
    <3>2. rec.live = TRUE
      BY <3>1
    <3> QED
      BY <2>3, <2>4, <3>1, <3>2 DEF Selects
  <2> QED
    BY <2>1, <2>2, <2>4 DEF Covers
<1> QED
  BY <1>1, <1>2

(* Only deletions become other operations, so what is left of an           *)
(* aggregation has passed each hook once.                                  *)
LEMMA AggregationCovers ==
  ASSUME chain \in Chains, NEW a \in Actors, NEW req \in Requests, req.op = "aggregate",
         Answer(a, req).next = "go"
  PROVE  LET run == Answer(a, req).req IN
         run.all = req.all /\ Covers(a, req.filter, run.filter)
<1>1. Through(a, req).next # "instead"
  BY ChainOfHooks
<1>2. Answer(a, req) = Through(a, req)
  BY <1>1 DEF Answer
<1>3. CASE chain = <<"tenant", "soft">>
  <2> DEFINE first == TenantBefore(a, req)
  <2>1. Through(a, req) = IF first.next = "go" THEN SoftBefore(a, first.req) ELSE first
    BY <1>3 DEF Through, Before
  <2>2. first \in Answers /\ first.req \in Requests /\ first.next = "go"
    BY <1>2, <2>1, TenantHook DEF Answers
  <2>3. first.req.all = req.all /\ Covers(a, req.filter, first.req.filter)
    BY <2>2, TenantCovers
  <2> HIDE DEF first
  <2> QED
    BY <1>2, <2>1, <2>2, <2>3, SoftCovers DEF Covers
<1>4. CASE chain = <<"soft", "tenant">>
  <2> DEFINE first == SoftBefore(a, req)
  <2>1. Through(a, req) = IF first.next = "go" THEN TenantBefore(a, first.req) ELSE first
    BY <1>4 DEF Through, Before
  <2>2. first \in Answers /\ first.req \in Requests /\ first.next = "go"
    BY <1>2, <2>1, SoftHook DEF Answers
  <2>3. first.req.all = req.all /\ Covers(a, req.filter, first.req.filter)
    BY <2>2, SoftCovers
  <2> HIDE DEF first
  <2> QED
    BY <1>2, <2>1, <2>2, <2>3, TenantCovers DEF Covers
<1> QED
  BY <1>3, <1>4, ScopedAssumption

(* An aggregation that is answered covers all visible records the caller's *)
(* filter selects: the hooks narrow filters by visibility only.            *)
THEOREM NothingElseIsHidden == Spec => NothingElseHidden
<1> DEFINE Shown == reply'.op = "aggregate" /\ reply'.outcome = "done" =>
              {store[x] : x \in {y \in Hits(reply'.filter) : Visible(reply'.actor, store[y])}}
                \subseteq reply'.got
<1>1. TypeOK /\ [Next]_vars => [Shown]_vars
  <2> SUFFICES ASSUME TypeOK, Next, reply'.op = "aggregate", reply'.outcome = "done"
               PROVE  {store[x] : x \in {y \in Hits(reply'.filter) : Visible(reply'.actor, store[y])}}
                        \subseteq reply'.got
    OBVIOUS
  <2>1. PICK a \in Actors : StepOf(a)
    BY DEF Next, StepOf
  <2>2. ASSUME NEW req, Refused(a, req) \/ Performed(a, req)
        PROVE  reply'.op = req.op
    BY <2>2 DEF Refused, Performed, Respond
  <2>3. ~Update(a)
    <3>1. SUFFICES ASSUME Update(a) PROVE FALSE
      OBVIOUS
    <3>2. PICK f \in Filters, ch \in Changes, all \in BOOLEAN :
            LET req == [Request("update") EXCEPT !.filter = f, !.change = ch, !.all = all] IN
            Refused(a, req) \/ Performed(a, req)
      BY <3>1 DEF Update
    <3> DEFINE req == [Request("update") EXCEPT !.filter = f, !.change = ch, !.all = all]
    <3>3. req.op = "update"
      BY DEF Request
    <3> HIDE DEF req
    <3> QED
      BY <2>2, <3>2, <3>3 DEF req
  <2>4. ~Replace(a)
    <3>1. SUFFICES ASSUME Replace(a) PROVE FALSE
      OBVIOUS
    <3>2. PICK f \in Filters, rec \in Rec :
            LET req == [Request("replace") EXCEPT !.filter = f, !.rec = rec, !.all = FALSE] IN
            Refused(a, req) \/ Performed(a, req)
      BY <3>1 DEF Replace
    <3> DEFINE req == [Request("replace") EXCEPT !.filter = f, !.rec = rec, !.all = FALSE]
    <3>3. req.op = "replace"
      BY DEF Request
    <3> HIDE DEF req
    <3> QED
      BY <2>2, <3>2, <3>3 DEF req
  <2>5. ~Delete(a)
    <3>1. SUFFICES ASSUME Delete(a) PROVE FALSE
      OBVIOUS
    <3>2. PICK f \in Filters, all \in BOOLEAN :
            LET req == [Request("delete") EXCEPT !.filter = f, !.all = all] IN
            Refused(a, req) \/ Performed(a, req)
      BY <3>1 DEF Delete
    <3> DEFINE req == [Request("delete") EXCEPT !.filter = f, !.all = all]
    <3>3. req.op = "delete"
      BY DEF Request
    <3> HIDE DEF req
    <3> QED
      BY <2>2, <3>2, <3>3 DEF req
  <2>6. ~Insert(a)
    <3>1. SUFFICES ASSUME Insert(a) PROVE FALSE
      OBVIOUS
    <3>2. PICK rec \in Rec : reply'.op = [Request("insert") EXCEPT !.rec = rec].op
      BY <3>1 DEF Insert, Refused, Respond
    <3> QED
      BY <3>2 DEF Request
  <2>7. PICK f \in Filters, op \in Reads, all \in BOOLEAN :
          LET req == [Request(op) EXCEPT !.filter = f, !.all = all \/ op = "aggregate"] IN
          Refused(a, req) \/ Performed(a, req)
    BY <2>1, <2>3, <2>4, <2>5, <2>6 DEF StepOf, Read
  <2> DEFINE req == [Request(op) EXCEPT !.filter = f, !.all = all \/ op = "aggregate"]
  <2>8. req \in Requests /\ req.op = op /\ req.filter = f /\ req.all = (all \/ op = "aggregate")
    <3>1. f \in Filter /\ (all \/ op = "aggregate") \in BOOLEAN
      BY ScopedAssumption
    <3> QED
      BY <3>1, RequestType DEF Requests, Request
  <2> HIDE DEF req
  <2>9. Performed(a, req)
    BY <2>7 DEF req, Refused, Respond
  <2>10. op = "aggregate" /\ req.op = "aggregate" /\ req.all
    BY <2>2, <2>8, <2>9
  <2> DEFINE run == Answer(a, req).req
  <2>11. PICK S \in Targets(run) :
           Respond(a, req, "done", IF req.op \in Reads THEN {store[x] : x \in S} ELSE {})
    BY <2>9 DEF Performed
  <2>12. run.all /\ Covers(a, f, run.filter)
    <3>1. chain \in Chains /\ Answer(a, req).next = "go"
      BY <2>9 DEF TypeOK, Performed
    <3> QED
      BY <2>8, <2>10, <3>1, AggregationCovers
  <2> HIDE DEF run
  <2>13. S = Hits(run.filter)
    BY <2>11, <2>12 DEF Targets
  <2>14. reply'.actor = a /\ reply'.filter = f /\ reply'.got = {store[x] : x \in Hits(run.filter)}
    BY <2>8, <2>10, <2>11, <2>13 DEF Respond
  <2>15. ASSUME NEW x \in Hits(f), Visible(a, store[x])
         PROVE  x \in Hits(run.filter)
    <3>1. x \in Ids /\ store[x] \in Rec /\ Selects(f, x, store[x]) /\ x \in Present
      BY DEF Hits, Present, TypeOK
    <3> QED
      BY <2>12, <2>15, <3>1 DEF Covers, Hits
  <2> QED
    BY <2>14, <2>15
<1> QED
  BY <1>1, TypeCorrect, PTL DEF Spec, NothingElseHidden

-----------------------------------------------------------------------------
(* Every tenant has a collection of its own. *)

LEMMA ViewType ==
  ASSUME TypeOK, NEW t \in Tenants
  PROVE  /\ ViewOf(t) \in [Ids -> Vals \cup {None}]
         /\ \A x \in Ids :
              ViewOf(t)[x] = None
                <=> store[x] = None \/ store[x].tenant # t \/ ~store[x].live
<1>1. \A x \in Ids : store[x] # None => store[x] \in Rec /\ store[x].val \in Vals
  BY DEF TypeOK, Rec
<1>2. None \notin Vals
  BY ScopedAssumption
<1> QED
  BY <1>1, <1>2 DEF ViewOf

LEMMA OwnViewStep ==
  ASSUME TypeOK, TypeOK', RawPolicy = "forbidden",
         NEW a \in SoftDeletes, a \in Actors, TenantOf[a] # None, StepFacts(a)
  PROVE  Views!OwnStep(TenantOf[a])
<1> DEFINE t == TenantOf[a]
<1>1. t \in Tenants /\ t # None
  BY ScopedAssumption
<1>2. TenantOfReply(reply') = t
  BY DEF StepFacts, TenantOfReply
<1>3. ASSUME NEW u \in Tenants, u # t
      PROVE  ViewOf(u)' = ViewOf(u)
  <2>1. ASSUME NEW x \in Ids
        PROVE  ViewOf(u)'[x] = ViewOf(u)[x]
    BY <1>1, <1>3 DEF StepFacts, WritesOwn, ViewOf
  <2> QED
    BY <2>1 DEF ViewOf
<1>4. ASSUME \A x \in Ids : store[x] = None => store'[x] = None
      PROVE  Views!Rewritten(ViewOf(t), ViewOf(t)')
  <2>1. ASSUME NEW x \in Ids, ViewOf(t)[x] = None
        PROVE  ViewOf(t)'[x] = None
    <3>1. store[x] = None \/ store[x].tenant # t \/ ~store[x].live
      BY <1>1, <2>1, ViewType
    <3>2. store[x] = None \/ store'[x] = store[x]
      BY <3>1, <1>1 DEF StepFacts, WritesOwn, WritesLive, Present
    <3> QED
      BY <1>4, <2>1, <3>2 DEF ViewOf
  <2> QED
    BY <2>1 DEF Views!Rewritten
<1>5. ASSUME \E x \in Ids : store[x] = None /\ \A y \in Ids \ {x} : store'[y] = store[y]
      PROVE  Views!Added(ViewOf(t), ViewOf(t)')
  <2>1. PICK x \in Ids : store[x] = None /\ \A y \in Ids \ {x} : store'[y] = store[y]
    BY <1>5
  <2>2. ViewOf(t)[x] = None /\ \A y \in Ids \ {x} : ViewOf(t)'[y] = ViewOf(t)[y]
    BY <2>1 DEF ViewOf
  <2> QED
    BY <2>2 DEF Views!Added
<1>6. Views!Added(ViewOf(t), ViewOf(t)') \/ Views!Rewritten(ViewOf(t), ViewOf(t)')
  BY <1>4, <1>5 DEF StepFacts, AddsOne
<1> DEFINE v == [u \in Tenants |-> ViewOf(u)]
<1>7. \A u \in Tenants : v[u] = ViewOf(u) /\ v'[u] = ViewOf(u)'
  OBVIOUS
<1>8. v[t] = ViewOf(t) /\ v'[t] = ViewOf(t)'
  BY <1>1, <1>7
<1>9. Views!Added(v[t], v'[t]) \/ Views!Rewritten(v[t], v'[t])
  BY <1>6, <1>8
<1>10. \A u \in Tenants \ {t} : v'[u] = v[u]
  BY <1>3, <1>7
<1> QED
  BY <1>2, <1>9, <1>10 DEF Views!OwnStep

(* The collection with both middlewares implements a collection per        *)
(* tenant: what a tenant sees only its own actors change, and a record     *)
(* that left its view only comes back by an insertion.                     *)
THEOREM TenantsHaveViews ==
  ASSUME RawPolicy = "forbidden",
         \A a \in Actors : TenantOf[a] # None => a \in SoftDeletes
  PROVE  Spec => ImplementsViews
<1>1. Init => Views!Init
  BY ScopedAssumption DEF Init, NoReply, Views!Init, ViewOf, TenantOfReply
<1>2. TypeOK /\ TypeOK' /\ [Next]_vars => [Views!Next]_<<[t \in Tenants |-> ViewOf(t)], TenantOfReply(reply)>>
  <2> SUFFICES ASSUME TypeOK, TypeOK', [Next]_vars
               PROVE  [Views!Next]_<<[t \in Tenants |-> ViewOf(t)], TenantOfReply(reply)>>
    OBVIOUS
  <2>1. CASE UNCHANGED vars
    BY <2>1 DEF vars, ViewOf, TenantOfReply
  <2>2. ASSUME NEW a \in Actors, StepFacts(a)
        PROVE  Views!Next
    <3>1. [t \in Tenants |-> ViewOf(t)'] \in [Tenants -> Views!View]
      <4>1. \A x \in Ids : store'[x] # None => store'[x] \in Rec /\ store'[x].val \in Vals
        BY DEF TypeOK, Rec
      <4>2. \A t \in Tenants : ViewOf(t)' \in [Ids -> Vals \cup {None}]
        BY <4>1 DEF ViewOf
      <4> QED
        BY <4>2 DEF Views!View
    <3>2. CASE TenantOf[a] = None
      BY <2>2, <3>1, <3>2 DEF Views!Next, Views!SystemStep, StepFacts, TenantOfReply
    <3>3. CASE TenantOf[a] # None
      <4>1. Views!OwnStep(TenantOf[a]) /\ TenantOf[a] \in Tenants
        BY <2>2, <3>3, OwnViewStep, ScopedAssumption
      <4> QED
        BY <3>1, <4>1 DEF Views!Next
    <3> QED
      BY <3>2, <3>3
  <2> QED
    BY <2>1, <2>2, NextSteps
<1> QED
  BY <1>1, <1>2, TypeCorrect, PTL DEF Spec, ImplementsViews, Views!Spec
=============================================================================
