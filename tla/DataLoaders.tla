---------------------------- MODULE DataLoaders -----------------------------
(***************************************************************************)
(* How AbstractDAO resolves relations: find operations of an entity        *)
(* manager, the data loaders they share, and the nested finds the loaders' *)
(* batches run.  A find is a frame: it awaits the driver, then the load of *)
(* one relation of one record after the other.  Frames interleave at these *)
(* awaits only; a step below is the code between two of them, or a part of *)
(* it that touches nothing but the frame.                                  *)
(*                                                                         *)
(* A record is its id and the keys in its reference field.  A relation is  *)
(* "inner" (my reference field names the others' ids), "foreign" (their    *)
(* reference field names my id), or "relation" (rows of a third DAO, whose *)
(* id names me and whose reference field names the others).  A plan stands *)
(* for a projection: the relations it selects, the plan of each, and the   *)
(* limit the `relations` parameter sets for it.                            *)
(***************************************************************************)
EXTENDS Integers, Sequences, FiniteSets, Functions

CONSTANTS
  Daos, Keys,
  Relations,     \* [Daos -> Seq of [kind, dao, join, required]]
  Plans,         \* the projections of each DAO: index of a relation -> [plan, limit]
  Ops,           \* the clients' finds
  NoOp,          \* the operation id of a load that was given none
  Null,
  PageSize,
  Workloads,     \* what clients, writers and the driver do, see Workload
  MaxWrites      \* bound

Rec == [id : Keys, refs : SUBSET Keys]
RowPlan == <<>>  \* no relation is selected
Relation == [kind : {"inner", "foreign", "relation"}, dao : Daos,
             join : Daos \cup {Null}, required : BOOLEAN]
Database == [Daos -> SUBSET Rec]
AllPlans == UNION {Plans[d] : d \in Daos}
(* query is what the finds ask for, writes the states others may install;  *)
(* a driver that pages returns at most PageSize records when it is given   *)
(* no limit; maxFailures bounds the reads it rejects.                      *)
Workload == [query : UNION {[S -> [dao : Daos, plan : AllPlans]] : S \in SUBSET Ops},
             db : Database, writes : SUBSET Database,
             driverPages : BOOLEAN, maxFailures : Nat]
Loader == [dao : Daos, op : Ops \cup {NoOp}, key : {"id", "ref"}, plan : AllPlans]

ASSUME LoaderAssumption ==
  /\ Relations \in [Daos -> Seq(Relation)]
  /\ \A d \in Daos : \A i \in DOMAIN Relations[d] :
       Relations[d][i].kind = "relation" => Relations[d][i].join \in Daos
  /\ \A d \in Daos :
       /\ RowPlan \in Plans[d]
       /\ \A p \in Plans[d] : \A i \in DOMAIN p :
            /\ i \in DOMAIN Relations[d]
            /\ p[i].plan \in Plans[Relations[d][i].dao] /\ p[i].limit \in Nat \cup {Null}
  /\ NoOp \notin Ops /\ Null \notin Ops \cup Daos \cup Loader \cup Nat
  /\ Workloads \subseteq Workload
  /\ \A w \in Workloads : \A o \in DOMAIN w.query : w.query[o].plan \in Plans[w.query[o].dao]
  /\ PageSize \in Nat \ {0} /\ MaxWrites \in Nat

(* The DAOs whose records others refer to by their id: they have one each. *)
Referred ==
  {e \in Daos : \E d \in Daos : \E i \in DOMAIN Relations[d] :
                  Relations[d][i].dao = e /\ Relations[d][i].kind # "foreign"}

UniqueIds(db) == \A d \in Referred : \A r, s \in db[d] : r.id = s.id => r = s

ASSUME IdsAssumption ==
  \A w \in Workloads : \A db \in w.writes \cup {w.db} : UniqueIds(db)

(* Projections are nested at most N deep: the relations a projection       *)
(* selects have projections of smaller depth.                              *)
IsDepth(depth, N) ==
  /\ depth \in [AllPlans -> 0..N]
  /\ \A p \in AllPlans : \A i \in DOMAIN p : depth[p[i].plan] < depth[p]

NestedUpTo(N) == \E depth \in [AllPlans -> 0..N] : IsDepth(depth, N)

VARIABLES
  workload,  \* the one of this behaviour
  history,   \* the states of the database so far, the last is the current one
  loaders,   \* dataLoaders of all DAOs: Loader -> [cache, queue]
  refs,      \* dataLoaderRefs: <<dao, op>> -> the loaders created for op
  frames,    \* the finds in progress
  outcome,   \* [Ops -> {"idle", "running", "done", "failed"}]
  began,     \* [Ops -> length of history when the operation began]
  failures   \* reads the driver has rejected

vars == <<workload, history, loaders, refs, frames, outcome, began, failures>>

Now == Len(history)
Db == history[Now]

(* Map.set and Map.delete *)
Put(f, x, y) == [z \in DOMAIN f \cup {x} |-> IF z = x THEN y ELSE f[z]]
Without(f, S) == Restrict(f, DOMAIN f \ S)

-----------------------------------------------------------------------------
(* Frames.  A root find is called by a client, a batch find by a loader    *)
(* and a direct find by the frame that awaits it.                          *)

RootId(o) == [op |-> o, loader |-> Null, keys |-> {}, parent |-> Null]
BatchId(l, keys) == [op |-> Null, loader |-> l, keys |-> keys, parent |-> Null]
DirectId(f) == [op |-> Null, loader |-> Null, keys |-> {}, parent |-> f]

NotAwaiting == [loader |-> Null, keys |-> {}, got |-> {}, failed |-> FALSE]

NewFrame(dao, op, plan, key, keys, limit) ==
  [dao |-> dao, op |-> op, plan |-> plan, key |-> key, keys |-> keys, limit |-> limit,
   pc |-> "read", recs |-> {}, todo |-> {}, joined |-> {}, rows |-> {},
   at |-> Null, await |-> NotAwaiting, links |-> {}]

(* getTraversing(record, key) *)
Attr(r, key) == IF key = "id" THEN {r.id} ELSE r.refs

Having(S, key, keys) == {r \in S : Attr(r, key) \cap keys # {}}

(* The relation a frame is at, and the keys of the others r is linked to. *)
Current(fr) ==
  CHOOSE i \in {p[1] : p \in fr.todo} : \A p \in fr.todo : i <= p[1]

RelationOf(fr, i) == Relations[fr.dao][i]

LinkKey(rel) == IF rel.kind = "foreign" THEN "ref" ELSE "id"

LinkKeys(rel, r, rows) ==
  CASE rel.kind = "inner"    -> r.refs
    [] rel.kind = "foreign"  -> {r.id}
    [] rel.kind = "relation" -> UNION {row.refs : row \in Having(rows, "id", {r.id})}

NeedsRows(fr) ==
  /\ RelationOf(fr, Current(fr)).kind = "relation"
  /\ Current(fr) \notin fr.joined

-----------------------------------------------------------------------------
(* loadAll and the DataLoader library, which keeps one promise per key and *)
(* collects the keys of the loads of a tick into batches.                  *)

EmptyLoader == [cache |-> [k \in {} |-> {}], queue |-> {}]

LoaderOf(l) == IF l \in DOMAIN loaders THEN loaders[l] ELSE EmptyLoader

RefsOf(dao, op) == IF <<dao, op>> \in DOMAIN refs THEN refs[<<dao, op>>] ELSE {}

(* Mutant: the projection is not part of the name: one that selects nested *)
(* relations serves all loads of a key.                                    *)
HashWithoutPlan(dao, op, key, plan) ==
  [dao |-> dao, op |-> op, key |-> key,
   plan |-> CHOOSE p \in Plans[dao] : \A q \in Plans[dao] : p # q => \E i \in DOMAIN p : p[i].plan # RowPlan]

(* The name loadAll gives the loader: everything its batch function uses. *)
Hash(dao, op, key, plan) == [dao |-> dao, op |-> op, key |-> key, plan |-> plan]

(* The keys whose promise is pending: in a batch, or waiting for one. *)
Loading(l) == UNION {f.keys : f \in {g \in DOMAIN frames : g.loader = l}}

(* Mutant: the keys of a batch under way are forgotten. *)
PendingQueued(l) == LoaderOf(l).queue

Pending(l) == LoaderOf(l).queue \cup Loading(l)

(* Frame f awaits loadMany(keys), for record r or, with Null, for the rows *)
(* of all its records: keys without a promise join the queue.              *)
LoadAll(f, r, l, keys) ==
  LET loader == LoaderOf(l)
      cached == keys \cap DOMAIN loader.cache
  IN
  /\ loaders' = Put(loaders, l,
       [loader EXCEPT !.queue = @ \cup (keys \ (cached \cup Pending(l)))])
  /\ refs' = Put(refs, <<l.dao, l.op>>, RefsOf(l.dao, l.op) \cup {l})
  /\ frames' = [frames EXCEPT
       ![f].pc = "wait",
       ![f].at = r,
       ![f].await = [loader |-> l, keys |-> keys \ cached, failed |-> FALSE,
                     got |-> UNION {loader.cache[k] : k \in cached}]]

(* Mutant: a batch may exceed the page by one. *)
BatchSizeOver == PageSize + 1

BatchSize == PageSize

(* A batch leaves the queue of a loader and the find of the loader begins. *)
Dispatch(l) ==
  \E keys \in SUBSET loaders[l].queue :
     /\ keys # {}
     /\ Cardinality(keys) <= BatchSize
     /\ keys = loaders[l].queue \/ Cardinality(keys) = BatchSize
     /\ loaders' = [loaders EXCEPT ![l].queue = @ \ keys]
     /\ frames' = Put(frames, BatchId(l, keys),
                      NewFrame(l.dao, l.op, l.plan, l.key, keys, Null))
     /\ UNCHANGED <<workload, history, refs, outcome, began, failures>>

(* A batch answers: the promises of its keys are settled, on failure they  *)
(* leave the cache.  Frames that await them learn it at once.              *)
Answered(l, keys, recs, failed, F) ==
  [g \in DOMAIN F |->
     IF F[g].await.loader # l THEN F[g] ELSE
     [F[g] EXCEPT !.await.keys = @ \ keys,
                  !.await.got = @ \cup Having(recs, l.key, keys \cap F[g].await.keys),
                  !.await.failed = @ \/ (failed /\ keys \cap F[g].await.keys # {})]]

(* Mutant: a failed batch leaves its keys in the cache. *)
CacheAnswersOfFailed(l, keys, recs, failed) ==
  loaders' = IF l \notin DOMAIN loaders THEN loaders ELSE
    [loaders EXCEPT ![l].cache =
       [k \in DOMAIN @ \cup keys |-> IF k \in keys THEN Having(recs, l.key, {k}) ELSE @[k]]]

CacheAnswers(l, keys, recs, failed) ==
  loaders' = IF failed \/ l \notin DOMAIN loaders THEN loaders ELSE
    [loaders EXCEPT ![l].cache =
       [k \in DOMAIN @ \cup keys |-> IF k \in keys THEN Having(recs, l.key, {k}) ELSE @[k]]]

-----------------------------------------------------------------------------
(* clearDataLoader(op), called on a DAO: it goes on to the DAOs of the     *)
(* relations only from a DAO that has loaders of its own for op.           *)

RelatedTo(d) ==
  UNION {{Relations[d][i].dao, Relations[d][i].join} \ {Null} : i \in DOMAIN Relations[d]}

Cleared(dao, op) ==
  LET reach[n \in Nat] ==
        IF n = 0 THEN {dao}
        ELSE reach[n - 1] \cup
             UNION {RelatedTo(d) : d \in {e \in reach[n - 1] : RefsOf(e, op) # {}}}
  IN reach[Cardinality(Daos)]

(* Mutant: the loaders of every operation are cleared. *)
ClearDataLoaderOfAll(dao, op) ==
  /\ loaders' = Without(loaders, {l \in DOMAIN loaders : l.dao \in Cleared(dao, op)})
  /\ refs' = Without(refs, Cleared(dao, op) \X {op})

ClearDataLoader(dao, op) ==
  /\ loaders' = Without(loaders, UNION {RefsOf(d, op) : d \in Cleared(dao, op)})
  /\ refs' = Without(refs, Cleared(dao, op) \X {op})

-----------------------------------------------------------------------------
(* The find operations. *)

Init ==
  /\ workload \in Workloads
  /\ history = <<workload.db>>
  /\ loaders = [l \in {} |-> EmptyLoader]
  /\ refs = [x \in {} |-> {}]
  /\ frames = [f \in {} |-> NewFrame(Null, Null, Null, "id", {}, Null)]
  /\ outcome = [o \in Ops |-> "idle"]
  /\ began = [o \in Ops |-> 0]
  /\ failures = 0

(* findAll or findPage called without an operation id: a root operation.   *)
Begin(o) ==
  /\ o \in DOMAIN workload.query /\ outcome[o] = "idle"
  /\ outcome' = [outcome EXCEPT ![o] = "running"]
  /\ began' = [began EXCEPT ![o] = Now]
  /\ frames' = Put(frames, RootId(o),
       NewFrame(workload.query[o].dao, o, workload.query[o].plan, "id", Keys, Null))
  /\ UNCHANGED <<workload, history, loaders, refs, failures>>

(* What the driver may answer: everything the filter selects, or as many   *)
(* of them as the limit, or the driver's own page, allows.                 *)
Page(fr) == IF fr.limit = Null /\ workload.driverPages THEN PageSize ELSE fr.limit

Answers(fr) ==
  LET found == Having(Db[fr.dao], fr.key, fr.keys) IN
  IF Page(fr) = Null \/ Cardinality(found) <= Page(fr) THEN {found}
  ELSE {S \in SUBSET found : Cardinality(S) = Page(fr)}

(* _findAll returns; the relations of the records are to be resolved.      *)
Read(f) ==
  /\ frames[f].pc = "read"
  /\ \E recs \in Answers(frames[f]) :
       frames' = [frames EXCEPT ![f].pc = "resolve", ![f].recs = recs,
                                ![f].todo = (DOMAIN frames[f].plan) \X recs]
  /\ UNCHANGED <<workload, history, loaders, refs, outcome, began, failures>>

(* The rows of a relation that has a DAO of its own are loaded for all     *)
(* records at once, and without the id of the operation.                   *)
LoadRows(f) ==
  LET fr == frames[f] IN
  /\ fr.pc = "resolve" /\ fr.todo # {} /\ NeedsRows(fr)
  /\ LoadAll(f, Null, Hash(RelationOf(fr, Current(fr)).join, NoOp, "id", RowPlan),
             {r.id : r \in fr.recs})
  /\ UNCHANGED <<workload, history, outcome, began, failures>>

(* skip, limit, filter and sorts apply to one record's relation, not to a  *)
(* batch; the plan's limit stands for the four.                            *)
UsesLoader(plan, i) == plan[i].limit = Null

(* setResult: a required reference without a result is broken.             *)
SetResult(f, r, got) ==
  LET fr == frames[f]
      i == Current(fr)
  IN
  frames' = [frames EXCEPT
    ![f].pc = IF RelationOf(fr, i).required /\ got = {} THEN "throw" ELSE "resolve",
    ![f].todo = @ \ {<<i, r>>},
    ![f].links = @ \cup {[rel |-> i, rec |-> r, got |-> got]},
    ![f].at = Null,
    ![f].await = NotAwaiting]

(* findAllWithBatching for the next record of the current relation: with a *)
(* limit the find is called at once, otherwise through a loader.           *)
FindDirectly(f, r, keys) ==
  LET fr == frames[f]
      i == Current(fr)
      rel == RelationOf(fr, i)
  IN
  /\ frames' = Put([frames EXCEPT ![f].pc = "wait", ![f].at = r, ![f].await.keys = keys],
                   DirectId(f),
                   NewFrame(rel.dao, fr.op, fr.plan[i].plan, LinkKey(rel), keys,
                            fr.plan[i].limit))
  /\ UNCHANGED <<loaders, refs>>

LoadLinks(f) ==
  LET fr == frames[f]
      i == Current(fr)
      rel == RelationOf(fr, i)
  IN
  /\ fr.pc = "resolve" /\ fr.todo # {} /\ ~NeedsRows(fr)
  /\ \E r \in {q \in fr.recs : <<i, q>> \in fr.todo} :
       LET keys == LinkKeys(rel, r, fr.rows) IN
       IF keys = {} THEN SetResult(f, r, {}) /\ UNCHANGED <<loaders, refs>>
       ELSE IF UsesLoader(fr.plan, i)
       THEN LoadAll(f, r, Hash(rel.dao, fr.op, LinkKey(rel), fr.plan[i].plan), keys)
       ELSE FindDirectly(f, r, keys)
  /\ UNCHANGED <<workload, history, outcome, began, failures>>

(* Everything frame f awaits has been settled. *)
Resume(f) ==
  LET fr == frames[f] IN
  /\ fr.pc = "wait" /\ fr.await.keys = {}
  /\ IF fr.await.failed
     THEN frames' = [frames EXCEPT ![f].pc = "throw"]
     ELSE IF NeedsRows(fr)
     THEN frames' = [frames EXCEPT ![f].pc = "resolve",
                                   ![f].joined = @ \cup {Current(fr)},
                                   ![f].rows = fr.await.got,
                                   ![f].await = NotAwaiting]
     ELSE SetResult(f, fr.at, fr.await.got)
  /\ UNCHANGED <<workload, history, loaders, refs, outcome, began, failures>>

(* The find of a frame ends, with its records or an error: for a root the  *)
(* operation is over, for a batch the promises of the loader are settled,  *)
(* for a direct find its caller goes on.  An error skips clearDataLoader.  *)
End(f, failed) ==
  LET fr == frames[f]
      rest == Without(frames, {f})
  IN
  \/ /\ f.op # Null
     /\ outcome' = [outcome EXCEPT ![f.op] = IF failed THEN "failed" ELSE "done"]
     /\ frames' = rest
     /\ IF failed THEN UNCHANGED <<loaders, refs>> ELSE ClearDataLoader(fr.dao, f.op)
  \/ /\ f.op = Null /\ f.loader # Null
     /\ frames' = Answered(f.loader, f.keys, fr.recs, failed, rest)
     /\ CacheAnswers(f.loader, f.keys, fr.recs, failed)
     /\ UNCHANGED <<refs, outcome>>
  \/ /\ f.op = Null /\ f.loader = Null
     /\ frames' = [rest EXCEPT ![f.parent].await =
                     [@ EXCEPT !.keys = {}, !.got = fr.recs, !.failed = failed]]
     /\ UNCHANGED <<loaders, refs, outcome>>

Return(f) ==
  /\ frames[f].pc = "resolve" /\ frames[f].todo = {}
  /\ End(f, FALSE)
  /\ UNCHANGED <<workload, history, began, failures>>

Throw(f) ==
  /\ frames[f].pc = "throw"
  /\ End(f, TRUE)
  /\ UNCHANGED <<workload, history, began, failures>>

(* The driver rejects a read. *)
Reject(f) ==
  /\ frames[f].pc = "read" /\ failures < workload.maxFailures
  /\ frames' = [frames EXCEPT ![f].pc = "throw"]
  /\ failures' = failures + 1
  /\ UNCHANGED <<workload, history, loaders, refs, outcome, began>>

(* Someone else changes the database. *)
Write ==
  /\ Now <= MaxWrites
  /\ \E d \in workload.writes \ {Db} : history' = Append(history, d)
  /\ UNCHANGED <<workload, loaders, refs, frames, outcome, began, failures>>

Advance(f) == Read(f) \/ LoadRows(f) \/ LoadLinks(f) \/ Resume(f) \/ Return(f) \/ Throw(f)

Next ==
  \/ \E o \in Ops : Begin(o)
  \/ \E f \in DOMAIN frames : Advance(f) \/ Reject(f)
  \/ \E l \in DOMAIN loaders : Dispatch(l)
  \/ Write

(* Promise jobs run until none is left, timers fire and drivers answer.    *)
Progress ==
  \/ \E f \in DOMAIN frames : Advance(f)
  \/ \E l \in DOMAIN loaders : Dispatch(l)

Spec == Init /\ [][Next]_vars
FairSpec == Spec /\ WF_vars(Progress)

-----------------------------------------------------------------------------
(* Correctness. *)

(* A batch is answered in full by a driver that does not page; by one that *)
(* does, if it asks for ids, as it never asks for more of them than a page *)
(* holds records; otherwise the page may leave records out.                *)
InFull(dao, key) == ~workload.driverPages \/ (key = "id" /\ dao \in Referred)

Partly(got, found, full) == got \subseteq found /\ (full => got = found)

(* The loads of keys answer what some state of the database since the      *)
(* operation began holds, key by key; a find with a limit answers for one  *)
(* such state, with as many records as the limit allows.                   *)
KeysCurrent(fr, link, keys) ==
  LET rel == RelationOf(fr, link.rel)
      lim == fr.plan[link.rel].limit
      key == LinkKey(rel)
      since == began[fr.op]..Now
      At(v, K) == Having(history[v][rel.dao], key, K)
  IN
  IF lim = Null
  THEN /\ link.got = Having(link.got, key, keys)
       /\ \A k \in keys : \E v \in since :
            Partly(Having(link.got, key, {k}), At(v, {k}), InFull(rel.dao, key))
  ELSE \E v \in since :
         /\ link.got \subseteq At(v, keys)
         /\ \/ Cardinality(link.got) = lim
            \/ link.got = At(v, keys) /\ Cardinality(link.got) < lim

LinkCurrent(fr, link) ==
  LET rel == RelationOf(fr, link.rel) IN
  IF rel.kind = "relation"
  THEN \E w \in began[fr.op]..Now :
         KeysCurrent(fr, link, LinkKeys(rel, link.rec, history[w][rel.join]))
  ELSE KeysCurrent(fr, link, LinkKeys(rel, link.rec, {}))

LinksCurrentOf(kinds) ==
  \A f \in DOMAIN frames : \A link \in frames[f].links :
     RelationOf(frames[f], link.rel).kind \in kinds => LinkCurrent(frames[f], link)

(* The records a find attaches to a relation are those linked at some time *)
(* since the client called it, whatever other operations have cached,      *)
(* cleared or seen fail: no read is older than the operation.  A driver    *)
(* that cuts reads at the page size leaves none out that is referred to by *)
(* its id, and adds none.                                                  *)
LinksCurrent == LinksCurrentOf({"inner", "foreign"})

(* The same of every kind of relation. *)
AllLinksCurrent == LinksCurrentOf({"inner", "foreign", "relation"})

(* A key that a frame awaits is being loaded: it is queued or in a batch,  *)
(* and its loader has not been cleared.                                    *)
AwaitedKeysPending ==
  \A f \in DOMAIN frames :
     LET await == frames[f].await IN
     await.loader # Null => /\ await.loader \in DOMAIN loaders
                            /\ await.keys \subseteq LoaderOf(await.loader).queue \cup Loading(await.loader)

(* No two finds for one loader read the same key at the same time, and no  *)
(* cached key is read again.                                               *)
KeysReadOnce ==
  \A l \in DOMAIN loaders :
     /\ (loaders[l].queue \cup Loading(l)) \cap DOMAIN loaders[l].cache = {}
     /\ \A f, g \in {h \in DOMAIN frames : h.loader = l} : f # g => f.keys \cap g.keys = {}

(* What a loader has cached was in the database once, and all there was    *)
(* for the key unless the driver cuts reads; a failed batch leaves nothing *)
(* behind that a later load would take for an answer.                      *)
CachedAnswersReal ==
  \A l \in DOMAIN loaders : \A k \in DOMAIN loaders[l].cache :
     \E v \in 1..Now :
       Partly(loaders[l].cache[k], Having(history[v][l.dao], l.key, {k}), InFull(l.dao, l.key))

(* The end of an operation clears none of another operation's loaders.     *)
ClearIsolated ==
  [][\A l \in DOMAIN loaders \ DOMAIN loaders' :
        l.op \in Ops /\ outcome[l.op] = "running" /\ outcome'[l.op] = "done"]_vars

(* Every find ends, also when it shares loads with other finds, when       *)
(* relations lead back to a DAO a load is waiting for and when reads fail. *)
OperationsEnd == \A o \in Ops : outcome[o] = "running" ~> outcome[o] \in {"done", "failed"}
=============================================================================
