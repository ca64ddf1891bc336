---------------------------- MODULE LoaderProofs ----------------------------
(***************************************************************************)
(* Proofs about DataLoaders, for any DAOs, relations and projections, any  *)
(* number of operations and writers, and any page size.                    *)
(***************************************************************************)
EXTENDS DataLoaders, FiniteSetTheorems, TLAPS, WellFoundedInduction

(* A nonempty set of natural numbers has a least element. *)
LEMMA Least ==
  ASSUME NEW S, S \subseteq Nat, S # {}
  PROVE  \E x \in S : \A y \in S : x <= y
<1> DEFINE Less == {p \in Nat \X Nat : p[1] < p[2]}
<1>1. IsWellFoundedOn(Less, Nat)
  BY NatLessThanWellFounded DEF OpToRel
<1>2. PICK x \in S : \A y \in S : <<y, x>> \notin Less
  <2> HIDE DEF Less
  <2> QED
    BY <1>1, WFMin
<1>3. \A y \in S : ~(y < x)
  BY <1>2
<1> QED
  BY <1>3

USE DEF Now

-----------------------------------------------------------------------------
(* Types *)

Awaits == [loader : Loader \cup {Null}, keys : SUBSET Keys, got : SUBSET Rec, failed : BOOLEAN]

IsFrame(fr) ==
  /\ fr \in [dao : Daos, op : Ops \cup {NoOp}, plan : AllPlans, key : {"id", "ref"},
             keys : SUBSET Keys, limit : Nat \cup {Null},
             pc : {"read", "resolve", "wait", "throw"}, recs : SUBSET Rec,
             todo : {fr.todo}, joined : {fr.joined}, rows : SUBSET Rec,
             at : Rec \cup {Null}, await : Awaits, links : {fr.links}]
  /\ fr.plan \in Plans[fr.dao]
  /\ fr.todo \subseteq (DOMAIN fr.plan) \X fr.recs

(* What a waiting frame waits for. *)
Waits(fr) ==
  LET i == Current(fr)
      rel == RelationOf(fr, i)
  IN
  /\ fr.todo # {}
  /\ IF NeedsRows(fr)
     THEN fr.await.loader = Hash(rel.join, NoOp, "id", RowPlan)
     ELSE /\ fr.at \in fr.recs
          /\ fr.await.keys \subseteq LinkKeys(rel, fr.at, fr.rows)
          /\ fr.await.loader = IF UsesLoader(fr.plan, i)
                               THEN Hash(rel.dao, fr.op, LinkKey(rel), fr.plan[i].plan)
                               ELSE Null

AwaitInv(fr) ==
  /\ fr.pc = "wait" => Waits(fr)
  /\ fr.pc # "wait" => fr.await.keys = {}
  /\ fr.pc \in {"read", "resolve"} => fr.await = NotAwaiting
  /\ fr.await.loader # Null => fr.await.loader.op \in {NoOp, fr.op}

(* The frame of the child that frame fr waits for when it uses no loader. *)
IsChild(fr, child) ==
  LET i == Current(fr)
      rel == RelationOf(fr, i)
  IN
  /\ fr.pc = "wait" /\ ~NeedsRows(fr) /\ ~UsesLoader(fr.plan, i)
  /\ fr.await.keys # {}
  /\ child.dao = rel.dao /\ child.op = fr.op /\ child.plan = fr.plan[i].plan
  /\ child.key = LinkKey(rel) /\ child.keys = LinkKeys(rel, fr.at, fr.rows)
  /\ child.limit = fr.plan[i].limit

IsRoot(f, fr, out) == \E o \in Ops : f = RootId(o) /\ fr.op = o /\ out[o] = "running"

IsBatch(f, fr) ==
  \E l \in Loader, keys \in SUBSET Keys :
    /\ f = BatchId(l, keys) /\ keys # {}
    /\ fr.dao = l.dao /\ fr.op = l.op /\ fr.plan = l.plan /\ fr.key = l.key
    /\ fr.keys = keys /\ fr.limit = Null

IsDirect(f, fr, F) == \E p \in DOMAIN F : f = DirectId(p) /\ IsChild(F[p], fr)

Placed(f, fr, F, out) ==
  /\ IsRoot(f, fr, out) \/ IsBatch(f, fr) \/ IsDirect(f, fr, F)
  /\ fr.op \in Ops => out[fr.op] # "idle"

FramesOk(F, out) ==
  \A f \in DOMAIN F : IsFrame(F[f]) /\ AwaitInv(F[f]) /\ Placed(f, F[f], F, out)

IsLoader(loader) ==
  /\ loader \in [cache : {loader.cache}, queue : SUBSET Keys]
  /\ \A k \in DOMAIN loader.cache : loader.cache[k] \subseteq Rec

LoaderIn(L, l) == IF l \in DOMAIN L THEN L[l] ELSE EmptyLoader
Reads(F, l, k) == {f \in DOMAIN F : f.loader = l /\ k \in f.keys}

LoadersOk(L, out) ==
  \A l \in DOMAIN L :
     l \in Loader /\ l.plan \in Plans[l.dao] /\ IsLoader(L[l]) /\ (l.op \in Ops => out[l.op] # "idle")

RefsOk(R) == \A x \in DOMAIN R : \A l \in R[x] : l.op = x[2]

(* A key is cached, queued or read by one batch. *)
KeysOk(L, F) ==
  \A l \in Loader, k \in Keys :
    /\ k \in LoaderIn(L, l).queue => k \notin DOMAIN LoaderIn(L, l).cache /\ Reads(F, l, k) = {}
    /\ \A f \in Reads(F, l, k) :
         k \notin DOMAIN LoaderIn(L, l).cache /\ \A g \in Reads(F, l, k) : g = f

(* A key that a frame awaits is pending, and conversely. *)
AwaitsOk(L, F) ==
  /\ \A g \in DOMAIN F : F[g].await.loader # Null =>
       /\ F[g].await.loader \in DOMAIN L
       /\ \A k \in F[g].await.keys :
            k \in L[F[g].await.loader].queue \/ Reads(F, F[g].await.loader, k) # {}
  /\ \A l \in Loader, k \in Keys :
       k \in LoaderIn(L, l).queue \/ Reads(F, l, k) # {} =>
         \E g \in DOMAIN F : F[g].await.loader = l /\ k \in F[g].await.keys

StateOk(H, out, beg) ==
  /\ H \in Seq(Database) /\ Len(H) # 0
  /\ out \in [Ops -> {"idle", "running", "done", "failed"}]
  /\ beg \in [Ops -> Nat]

Good(L, R, F, out) ==
  /\ out \in [Ops -> {"idle", "running", "done", "failed"}]
  /\ FramesOk(F, out) /\ LoadersOk(L, out) /\ RefsOk(R) /\ KeysOk(L, F) /\ AwaitsOk(L, F)

IInv ==
  /\ workload \in Workloads
  /\ history \in Seq(Database) /\ Now # 0
  /\ began \in [Ops -> Nat]
  /\ Good(loaders, refs, frames, outcome)

-----------------------------------------------------------------------------
(* Operators *)

LEMMA Specials ==
  /\ NoOp \notin Ops /\ Null \notin Ops /\ Null \notin Loader /\ Null \notin Nat
  /\ \A d \in Daos : RowPlan \in Plans[d] /\ Plans[d] \subseteq AllPlans
BY LoaderAssumption DEF AllPlans

LEMMA PlanFacts ==
  ASSUME NEW d \in Daos, NEW p \in Plans[d], NEW i \in DOMAIN p
  PROVE  LET rel == Relations[d][i] IN
         /\ i \in Nat /\ rel \in Relation /\ (rel.kind = "relation" => rel.join \in Daos)
         /\ p[i].plan \in Plans[rel.dao] /\ p[i].limit \in Nat \cup {Null}
<1>1. i \in DOMAIN Relations[d] /\ Relations[d] \in Seq(Relation)
  BY LoaderAssumption
<1>2. i \in Nat /\ Relations[d][i] \in Relation
  BY <1>1
<1> QED
  BY <1>1, <1>2, LoaderAssumption

(* The relation a frame is at is one its plan selects. *)
LEMMA CurrentFacts ==
  ASSUME NEW fr, IsFrame(fr), fr.todo # {}
  PROVE  LET i == Current(fr)
             rel == RelationOf(fr, i)
         IN
         /\ i \in DOMAIN fr.plan /\ \E r \in fr.recs : <<i, r>> \in fr.todo
         /\ rel \in Relation /\ (rel.kind = "relation" => rel.join \in Daos)
         /\ fr.plan[i].plan \in Plans[rel.dao] /\ fr.plan[i].limit \in Nat \cup {Null}
<1> DEFINE I == {p[1] : p \in fr.todo}
<1>1. \A i \in I : i \in DOMAIN fr.plan /\ \E r \in fr.recs : <<i, r>> \in fr.todo
  BY DEF IsFrame
<1>2. fr.dao \in Daos /\ fr.plan \in Plans[fr.dao]
  BY DEF IsFrame
<1>3. I \subseteq Nat
  BY <1>1, <1>2, PlanFacts
<1>4. I # {}
  OBVIOUS
<1>5. Current(fr) \in I
  <2>1. \E i \in I : \A j \in I : i <= j
    <3> HIDE DEF I
    <3> QED
      BY <1>3, <1>4, Least
  <2>2. \E i \in I : \A p \in fr.todo : i <= p[1]
    BY <2>1
  <2> QED
    BY <2>2 DEF Current
<1>6. Current(fr) \in DOMAIN fr.plan /\ \E r \in fr.recs : <<Current(fr), r>> \in fr.todo
  BY <1>1, <1>5
<1> QED
  BY <1>2, <1>6, PlanFacts DEF RelationOf

LEMMA LinkKeysType ==
  ASSUME NEW rel \in Relation, NEW r \in Rec, NEW rows \in SUBSET Rec
  PROVE  LinkKeys(rel, r, rows) \in SUBSET Keys /\ LinkKey(rel) \in {"id", "ref"}
<1>1. r.id \in Keys /\ r.refs \subseteq Keys /\ \A row \in rows : row.refs \subseteq Keys
  BY DEF Rec
<1>2. Having(rows, "id", {r.id}) \subseteq rows
  BY DEF Having
<1>3. rel.kind \in {"inner", "foreign", "relation"}
  BY DEF Relation
<1> QED
  BY <1>1, <1>2, <1>3 DEF LinkKeys, LinkKey

LEMMA HashType ==
  ASSUME NEW d \in Daos, NEW o \in Ops \cup {NoOp}, NEW key \in {"id", "ref"}, NEW p \in Plans[d]
  PROVE  LET l == Hash(d, o, key, p) IN
         /\ l \in Loader /\ l # Null
         /\ l.dao = d /\ l.op = o /\ l.key = key /\ l.plan = p
BY Specials DEF Hash, Loader, AllPlans

LEMMA NewFrameFacts ==
  ASSUME NEW d \in Daos, NEW o \in Ops \cup {NoOp}, NEW p \in Plans[d], NEW key \in {"id", "ref"},
         NEW keys \in SUBSET Keys, NEW limit \in Nat \cup {Null}
  PROVE  LET fr == NewFrame(d, o, p, key, keys, limit) IN
         /\ IsFrame(fr) /\ AwaitInv(fr)
         /\ fr.dao = d /\ fr.op = o /\ fr.plan = p /\ fr.key = key /\ fr.keys = keys /\ fr.limit = limit
         /\ fr.pc = "read" /\ fr.await = NotAwaiting /\ fr.links = {} /\ fr.todo = {}
<1>1. NotAwaiting \in Awaits /\ NotAwaiting.loader = Null /\ NotAwaiting.keys = {}
  BY DEF NotAwaiting, Awaits
<1>2. p \in AllPlans
  BY Specials
<1> QED
  BY <1>1, <1>2 DEF NewFrame, IsFrame, AwaitInv

LEMMA Ids ==
  /\ \A o \in Ops, o2 \in Ops : RootId(o) = RootId(o2) => o = o2
  /\ \A l, K, l2, K2 : BatchId(l, K) = BatchId(l2, K2) => l = l2 /\ K = K2
  /\ \A p, p2 : DirectId(p) = DirectId(p2) => p = p2
  /\ \A o \in Ops : RootId(o).op = o /\ RootId(o).op # Null /\ RootId(o).loader = Null /\ RootId(o).keys = {}
  /\ \A l \in Loader : \A K : BatchId(l, K).op = Null /\ BatchId(l, K).loader = l
                          /\ BatchId(l, K).loader # Null /\ BatchId(l, K).keys = K
  /\ \A p : DirectId(p).op = Null /\ DirectId(p).loader = Null /\ DirectId(p).keys = {} /\ DirectId(p).parent = p
BY Specials DEF RootId, BatchId, DirectId

LEMMA DbFacts ==
  ASSUME workload \in Workloads, history \in Seq(Database), Now # 0
  PROVE  /\ Now \in Nat /\ Now >= 1
         /\ \A v \in 1..Now : history[v] \in Database /\ \A d \in Daos : history[v][d] \subseteq Rec
         /\ \A w \in workload.writes : w \in Database
<1>1. Now \in Nat /\ Now # 0 /\ DOMAIN history = 1..Now
  OBVIOUS
<1>2. \A v \in 1..Now : history[v] \in Database
  BY <1>1
<1>3. workload \in Workload
  BY LoaderAssumption
<1>4. \A w \in workload.writes : w \in Database
  BY <1>3 DEF Workload
<1> QED
  BY <1>1, <1>2, <1>4 DEF Database

(* What stays of a frame as long as it lives. *)
Same(fr, new) ==
  /\ new.dao = fr.dao /\ new.op = fr.op /\ new.plan = fr.plan
  /\ new.key = fr.key /\ new.keys = fr.keys /\ new.limit = fr.limit

LEMMA FrameFacts ==
  ASSUME NEW F, NEW out, FramesOk(F, out), NEW f \in DOMAIN F
  PROVE  /\ IsFrame(F[f]) /\ AwaitInv(F[f]) /\ Placed(f, F[f], F, out)
         /\ F[f].dao \in Daos /\ F[f].op \in Ops \cup {NoOp} /\ F[f].plan \in Plans[F[f].dao]
         /\ F[f].keys \in SUBSET Keys /\ F[f].recs \in SUBSET Rec /\ F[f].rows \in SUBSET Rec
         /\ F[f].await \in Awaits
BY DEF FramesOk, IsFrame

(* Frames that come, go and move on: those that stay keep what Same says,  *)
(* new ones have their place, and parents wait for the children that stay. *)
LEMMA FramesChange ==
  ASSUME NEW F, NEW G, NEW out, NEW out2, FramesOk(F, out),
         \A g \in DOMAIN G : IsFrame(G[g]) /\ AwaitInv(G[g]),
         \A g \in DOMAIN G : (g \in DOMAIN F /\ Same(F[g], G[g])) \/ Placed(g, G[g], G, out2),
         \A p \in DOMAIN F : \A child :
            DirectId(p) \in DOMAIN F \cap DOMAIN G /\ IsChild(F[p], child) =>
              p \in DOMAIN G /\ IsChild(G[p], child),
         \A o \in Ops :
            /\ out[o] # "idle" => out2[o] # "idle"
            /\ out[o] = "running" /\ RootId(o) \in DOMAIN G => out2[o] = "running"
  PROVE  FramesOk(G, out2)
<1>1. ASSUME NEW g \in DOMAIN G, g \in DOMAIN F, Same(F[g], G[g]) PROVE Placed(g, G[g], G, out2)
  <2> DEFINE fr == F[g]
             new == G[g]
  <2>1. Placed(g, fr, F, out)
    BY <1>1 DEF FramesOk
  <2>2. /\ new.dao = fr.dao /\ new.op = fr.op /\ new.plan = fr.plan
        /\ new.key = fr.key /\ new.keys = fr.keys /\ new.limit = fr.limit
    BY <1>1 DEF Same
  <2>3. IsRoot(g, fr, out) => IsRoot(g, new, out2)
    BY <2>2 DEF IsRoot
  <2>4. IsBatch(g, fr) => IsBatch(g, new)
    <3> HIDE DEF fr, new
    <3> QED
      BY <2>2 DEF IsBatch
  <2>5. IsDirect(g, fr, F) => IsDirect(g, new, G)
    <3>1. SUFFICES ASSUME NEW p \in DOMAIN F, g = DirectId(p), IsChild(F[p], fr)
                   PROVE  p \in DOMAIN G /\ IsChild(G[p], new)
      BY DEF IsDirect
    <3>2. p \in DOMAIN G /\ IsChild(G[p], fr)
      BY <1>1, <3>1
    <3> HIDE DEF fr, new
    <3> QED
      BY <2>2, <3>2 DEF IsChild
  <2> QED
    BY <2>1, <2>2, <2>3, <2>4, <2>5 DEF Placed
<1> QED
  BY <1>1 DEF FramesOk

(* A frame that awaits no keys has no child. *)
LEMMA NoChild ==
  ASSUME NEW F, NEW out, FramesOk(F, out), NEW f \in DOMAIN F, F[f].await.keys = {}
  PROVE  DirectId(f) \notin DOMAIN F
<1>1. SUFFICES ASSUME DirectId(f) \in DOMAIN F PROVE FALSE
  OBVIOUS
<1> DEFINE g == DirectId(f)
<1>2. Placed(g, F[g], F, out)
  BY <1>1 DEF FramesOk
<1>3. ~IsRoot(g, F[g], out)
  BY Ids DEF IsRoot
<1>4. ~IsBatch(g, F[g])
  BY Ids DEF IsBatch
<1>5. PICK p \in DOMAIN F : g = DirectId(p) /\ IsChild(F[p], F[g])
  BY <1>2, <1>3, <1>4 DEF Placed, IsDirect
<1> QED
  BY <1>5, Ids DEF IsChild

-----------------------------------------------------------------------------
(* Steps of one frame *)

(* A frame that awaits no keys goes on, and loads nothing. *)
LEMMA Moves ==
  ASSUME NEW L, NEW R, NEW F, NEW out, Good(L, R, F, out), NEW f \in DOMAIN F, NEW new,
         IsFrame(new), Same(F[f], new), F[f].await.keys = {}, new.await.keys = {},
         new.pc # "wait", new.await.loader \in {F[f].await.loader, Null},
         new.pc = "throw" \/ new.await = NotAwaiting
  PROVE  Good(L, R, [F EXCEPT ![f] = new], out)
<1> DEFINE G == [F EXCEPT ![f] = new]
<1>1. DOMAIN G = DOMAIN F /\ G[f] = new /\ \A g \in DOMAIN F : g # f => G[g] = F[g]
  OBVIOUS
<1>2. \A l, k : Reads(G, l, k) = Reads(F, l, k)
  BY <1>1 DEF Reads
<1>3. FramesOk(F, out) /\ KeysOk(L, F) /\ AwaitsOk(L, F)
  BY DEF Good
<1>4. AwaitInv(new)
  BY <1>3 DEF AwaitInv, Same, FramesOk, IsFrame
<1>5. DirectId(f) \notin DOMAIN F
  BY <1>3, NoChild
<1> HIDE DEF G
<1>6. FramesOk(G, out)
  <2>1. \A g \in DOMAIN G : IsFrame(G[g]) /\ AwaitInv(G[g])
    BY <1>1, <1>3, <1>4 DEF FramesOk
  <2>2. \A g \in DOMAIN G : g \in DOMAIN F /\ Same(F[g], G[g])
    BY <1>1 DEF Same
  <2>3. \A p \in DOMAIN F : \A child :
          DirectId(p) \in DOMAIN F \cap DOMAIN G /\ IsChild(F[p], child) =>
            p \in DOMAIN G /\ IsChild(G[p], child)
    BY <1>1, <1>5
  <2> QED
    BY <1>3, <2>1, <2>2, <2>3, FramesChange
<1>7. KeysOk(L, G)
  BY <1>2, <1>3 DEF KeysOk
<1>8. AwaitsOk(L, G)
  BY <1>1, <1>2, <1>3 DEF AwaitsOk
<1> QED
  BY <1>6, <1>7, <1>8 DEF Good, G

(* A frame loads the keys that are not cached: those that are not pending *)
(* either join the queue.                                                  *)
LEMMA Loads ==
  ASSUME NEW L, NEW R, NEW F, NEW out, Good(L, R, F, out), NEW f \in DOMAIN F, NEW new, NEW lo,
         IsFrame(new), AwaitInv(new), Same(F[f], new), F[f].await.keys = {},
         new.await.loader \in Loader, new.await.loader.plan \in Plans[new.await.loader.dao],
         F[f].op \in Ops => out[F[f].op] # "idle",
         IsLoader(lo), lo.cache = LoaderIn(L, new.await.loader).cache,
         \A k \in lo.queue :
            \/ k \in LoaderIn(L, new.await.loader).queue
            \/ k \in new.await.keys /\ Reads(F, new.await.loader, k) = {},
         \A k \in LoaderIn(L, new.await.loader).queue : k \in lo.queue,
         \A k \in new.await.keys :
            k \notin DOMAIN lo.cache /\ (k \in lo.queue \/ Reads(F, new.await.loader, k) # {}),
         NEW x, NEW S, x[2] = new.await.loader.op, \A l \in S : l.op = x[2]
  PROVE  Good(Put(L, new.await.loader, lo), Put(R, x, S), [F EXCEPT ![f] = new], out)
<1> DEFINE G == [F EXCEPT ![f] = new]
           ll == new.await.loader
           M == Put(L, ll, lo)
<1>1. DOMAIN G = DOMAIN F /\ G[f] = new /\ \A g \in DOMAIN F : g # f => G[g] = F[g]
  OBVIOUS
<1>2. \A l, k : Reads(G, l, k) = Reads(F, l, k)
  BY <1>1 DEF Reads
<1>3. /\ DOMAIN M = DOMAIN L \cup {ll}
      /\ LoaderIn(M, ll) = lo /\ M[ll] = lo
      /\ \A l : l # ll => LoaderIn(M, l) = LoaderIn(L, l)
      /\ \A l \in DOMAIN L : l # ll => M[l] = L[l]
  BY DEF Put, LoaderIn
<1>4. FramesOk(F, out) /\ LoadersOk(L, out) /\ RefsOk(R) /\ KeysOk(L, F) /\ AwaitsOk(L, F)
  BY DEF Good
<1>5. DirectId(f) \notin DOMAIN F
  BY <1>4, NoChild
<1>6. new.await.keys \in SUBSET Keys /\ ll \in Loader /\ ll.plan \in Plans[ll.dao]
  BY DEF IsFrame, Awaits
<1> HIDE DEF G, M, ll
<1>7. FramesOk(G, out)
  <2>1. \A g \in DOMAIN G : IsFrame(G[g]) /\ AwaitInv(G[g])
    BY <1>1, <1>4 DEF FramesOk
  <2>2. \A g \in DOMAIN G : g \in DOMAIN F /\ Same(F[g], G[g])
    BY <1>1 DEF Same
  <2>3. \A p \in DOMAIN F : \A child :
          DirectId(p) \in DOMAIN F \cap DOMAIN G /\ IsChild(F[p], child) =>
            p \in DOMAIN G /\ IsChild(G[p], child)
    BY <1>1, <1>5
  <2> QED
    BY <1>4, <2>1, <2>2, <2>3, FramesChange
<1>8. LoadersOk(M, out)
  <2>1. ll.op \in {NoOp, F[f].op}
    BY <1>6, Specials DEF AwaitInv, Same, ll
  <2>2. ll.op \in Ops => out[ll.op] # "idle"
    BY <2>1, Specials
  <2> QED
    BY <1>3, <1>4, <1>6, <2>2 DEF LoadersOk
<1>9. RefsOk(Put(R, x, S))
  BY <1>4 DEF RefsOk, Put
<1>10. KeysOk(M, G)
  <2> SUFFICES ASSUME NEW l \in Loader, NEW k \in Keys
               PROVE
                 /\ k \in LoaderIn(M, l).queue => k \notin DOMAIN LoaderIn(M, l).cache /\ Reads(F, l, k) = {}
                 /\ \A g \in Reads(F, l, k) :
                      k \notin DOMAIN LoaderIn(M, l).cache /\ \A h \in Reads(F, l, k) : h = g
    BY <1>2 DEF KeysOk
  <2>1. CASE l = ll
    BY <2>1, <1>3, <1>4, <1>6 DEF KeysOk, ll
  <2>2. CASE l # ll
    BY <2>2, <1>3, <1>4 DEF KeysOk
  <2> QED
    BY <2>1, <2>2
<1>11. AwaitsOk(M, G)
  <2>1. ASSUME NEW g \in DOMAIN G, G[g].await.loader # Null
        PROVE  /\ G[g].await.loader \in DOMAIN M
               /\ \A k \in G[g].await.keys :
                    k \in M[G[g].await.loader].queue \/ Reads(G, G[g].await.loader, k) # {}
    <3>1. CASE g = f
      BY <3>1, <1>1, <1>2, <1>3 DEF ll
    <3>2. CASE g # f
      <4> DEFINE m == F[g].await.loader
      <4>1. G[g] = F[g] /\ g \in DOMAIN F
        BY <3>2, <1>1
      <4>2. m \in DOMAIN L /\ \A k \in F[g].await.keys : k \in L[m].queue \/ Reads(F, m, k) # {}
        BY <2>1, <4>1, <1>4 DEF AwaitsOk
      <4>3. \A k \in L[m].queue : k \in M[m].queue
        BY <4>2, <1>3 DEF LoaderIn, ll
      <4> QED
        BY <4>1, <4>2, <4>3, <1>2, <1>3
    <3> QED
      BY <3>1, <3>2
  <2>2. ASSUME NEW l \in Loader, NEW k \in Keys, k \in LoaderIn(M, l).queue \/ Reads(G, l, k) # {}
        PROVE  \E g \in DOMAIN G : G[g].await.loader = l /\ k \in G[g].await.keys
    <3>1. CASE k \in LoaderIn(L, l).queue \/ Reads(F, l, k) # {}
      <4>1. PICK g \in DOMAIN F : F[g].await.loader = l /\ k \in F[g].await.keys
        BY <3>1, <1>4 DEF AwaitsOk
      <4> QED
        BY <4>1, <1>1
    <3>2. CASE ~(k \in LoaderIn(L, l).queue \/ Reads(F, l, k) # {})
      <4>1. l = ll /\ k \in new.await.keys
        BY <3>2, <2>2, <1>2, <1>3 DEF ll
      <4> QED
        BY <4>1, <1>1 DEF ll
    <3> QED
      BY <3>1, <3>2
  <2> QED
    BY <2>1, <2>2 DEF AwaitsOk
<1> QED
  BY <1>4, <1>7, <1>8, <1>9, <1>10, <1>11 DEF Good, G, M, ll

(* A frame calls a find for one of its records. *)
LEMMA Descends ==
  ASSUME NEW L, NEW R, NEW F, NEW out, Good(L, R, F, out), NEW f \in DOMAIN F, NEW new, NEW child,
         IsFrame(new), AwaitInv(new), Same(F[f], new), F[f].await.keys = {}, new.await.loader = Null,
         IsFrame(child), AwaitInv(child), child.await = NotAwaiting, IsChild(new, child),
         F[f].op \in Ops => out[F[f].op] # "idle"
  PROVE  Good(L, R, Put([F EXCEPT ![f] = new], DirectId(f), child), out)
<1> DEFINE c == DirectId(f)
           G == Put([F EXCEPT ![f] = new], c, child)
<1>1. FramesOk(F, out) /\ KeysOk(L, F) /\ AwaitsOk(L, F)
  BY DEF Good
<1>2. c \notin DOMAIN F /\ c.loader = Null
  BY <1>1, NoChild, Ids
<1>3. /\ DOMAIN G = DOMAIN F \cup {c} /\ G[f] = new /\ G[c] = child
      /\ \A g \in DOMAIN F : g # f => G[g] = F[g]
  BY <1>2 DEF Put
<1>4. \A l \in Loader : \A k : Reads(G, l, k) = Reads(F, l, k)
  BY <1>2, <1>3, Specials DEF Reads
<1> HIDE DEF G, c
<1>5. FramesOk(G, out)
  <2>1. \A g \in DOMAIN G : IsFrame(G[g]) /\ AwaitInv(G[g])
    BY <1>1, <1>3 DEF FramesOk
  <2>2. Placed(c, child, G, out)
    BY <1>3 DEF Placed, IsDirect, IsChild, Same, c
  <2>3. \A g \in DOMAIN G : (g \in DOMAIN F /\ Same(F[g], G[g])) \/ Placed(g, G[g], G, out)
    BY <1>3, <2>2 DEF Same
  <2>4. \A p \in DOMAIN F : \A ch :
          DirectId(p) \in DOMAIN F \cap DOMAIN G /\ IsChild(F[p], ch) =>
            p \in DOMAIN G /\ IsChild(G[p], ch)
    BY <1>2, <1>3 DEF c
  <2> QED
    BY <1>1, <2>1, <2>3, <2>4, FramesChange
<1>6. KeysOk(L, G)
  BY <1>1, <1>4 DEF KeysOk
<1>7. AwaitsOk(L, G)
  <2>1. child.await.loader = Null
    BY DEF NotAwaiting
  <2>2. ASSUME NEW g \in DOMAIN G, G[g].await.loader # Null
        PROVE  /\ G[g].await.loader \in DOMAIN L
               /\ \A k \in G[g].await.keys :
                    k \in L[G[g].await.loader].queue \/ Reads(G, G[g].await.loader, k) # {}
    <3>1. g \in DOMAIN F /\ G[g] = F[g]
      BY <2>1, <2>2, <1>3
    <3>2. G[g].await.loader \in Loader
      BY <2>2, <3>1, <1>1 DEF FramesOk, IsFrame, Awaits
    <3> QED
      BY <2>2, <3>1, <3>2, <1>1, <1>4 DEF AwaitsOk
  <2>3. ASSUME NEW l \in Loader, NEW k \in Keys, k \in LoaderIn(L, l).queue \/ Reads(G, l, k) # {}
        PROVE  \E g \in DOMAIN G : G[g].await.loader = l /\ k \in G[g].await.keys
    <3>1. PICK g \in DOMAIN F : F[g].await.loader = l /\ k \in F[g].await.keys
      BY <2>3, <1>1, <1>4 DEF AwaitsOk
    <3> QED
      BY <3>1, <1>3
  <2> QED
    BY <2>2, <2>3 DEF AwaitsOk
<1> QED
  BY <1>5, <1>6, <1>7 DEF Good, G, c

-----------------------------------------------------------------------------
(* Frames that begin *)

LEMMA Begins ==
  ASSUME NEW L, NEW R, NEW F, NEW out, Good(L, R, F, out), NEW o \in Ops, out[o] = "idle", NEW new,
         IsFrame(new), AwaitInv(new), new.await = NotAwaiting, new.op = o
  PROVE  Good(L, R, Put(F, RootId(o), new), [out EXCEPT ![o] = "running"])
<1> DEFINE f == RootId(o)
           G == Put(F, f, new)
           out2 == [out EXCEPT ![o] = "running"]
<1>1. FramesOk(F, out) /\ LoadersOk(L, out) /\ KeysOk(L, F) /\ AwaitsOk(L, F)
      /\ out \in [Ops -> {"idle", "running", "done", "failed"}]
  BY DEF Good
<1>2. f \notin DOMAIN F
  <2>1. SUFFICES ASSUME f \in DOMAIN F PROVE FALSE
    OBVIOUS
  <2>2. IsRoot(f, F[f], out) \/ IsBatch(f, F[f]) \/ IsDirect(f, F[f], F)
    BY <2>1, <1>1 DEF FramesOk, Placed
  <2>3. ~IsRoot(f, F[f], out)
    BY Ids DEF IsRoot
  <2>4. ~IsBatch(f, F[f]) /\ ~IsDirect(f, F[f], F)
    BY Ids DEF IsBatch, IsDirect
  <2> QED
    BY <2>2, <2>3, <2>4
<1>3. DOMAIN G = DOMAIN F \cup {f} /\ G[f] = new /\ \A g \in DOMAIN F : G[g] = F[g]
  BY <1>2 DEF Put
<1>4. \A l \in Loader : \A k : Reads(G, l, k) = Reads(F, l, k)
  BY <1>3, Ids, Specials DEF Reads
<1>5. out2[o] = "running" /\ \A p \in Ops : p # o => out2[p] = out[p]
  BY <1>1
<1>6. \A p : DirectId(p) # f
  BY Ids
<1> HIDE DEF G, out2, f
<1>7. FramesOk(G, out2)
  <2>1. \A g \in DOMAIN G : IsFrame(G[g]) /\ AwaitInv(G[g])
    BY <1>1, <1>3 DEF FramesOk
  <2>2. Placed(f, new, G, out2)
    BY <1>5 DEF Placed, IsRoot, f
  <2>3. \A g \in DOMAIN G : (g \in DOMAIN F /\ Same(F[g], G[g])) \/ Placed(g, G[g], G, out2)
    BY <1>3, <2>2 DEF Same
  <2>4. \A p \in DOMAIN F : \A child :
          DirectId(p) \in DOMAIN F \cap DOMAIN G /\ IsChild(F[p], child) =>
            p \in DOMAIN G /\ IsChild(G[p], child)
    BY <1>3
  <2>5. \A p \in Ops :
          /\ out[p] # "idle" => out2[p] # "idle"
          /\ out[p] = "running" /\ RootId(p) \in DOMAIN G => out2[p] = "running"
    BY <1>5
  <2> QED
    BY <1>1, <2>1, <2>3, <2>4, <2>5, FramesChange
<1>8. LoadersOk(L, out2)
  BY <1>1, <1>5 DEF LoadersOk
<1>9. KeysOk(L, G)
  BY <1>1, <1>4 DEF KeysOk
<1>10. AwaitsOk(L, G)
  <2>1. new.await.loader = Null
    BY DEF NotAwaiting
  <2>2. ASSUME NEW g \in DOMAIN G, G[g].await.loader # Null
        PROVE  /\ G[g].await.loader \in DOMAIN L
               /\ \A k \in G[g].await.keys :
                    k \in L[G[g].await.loader].queue \/ Reads(G, G[g].await.loader, k) # {}
    <3>1. g \in DOMAIN F /\ G[g] = F[g]
      BY <2>1, <2>2, <1>3
    <3>2. G[g].await.loader \in Loader
      BY <2>2, <3>1, <1>1 DEF FramesOk, IsFrame, Awaits
    <3> QED
      BY <2>2, <3>1, <3>2, <1>1, <1>4 DEF AwaitsOk
  <2>3. ASSUME NEW l \in Loader, NEW k \in Keys, k \in LoaderIn(L, l).queue \/ Reads(G, l, k) # {}
        PROVE  \E g \in DOMAIN G : G[g].await.loader = l /\ k \in G[g].await.keys
    <3>1. PICK g \in DOMAIN F : F[g].await.loader = l /\ k \in F[g].await.keys
      BY <2>3, <1>1, <1>4 DEF AwaitsOk
    <3> QED
      BY <3>1, <1>3
  <2> QED
    BY <2>2, <2>3 DEF AwaitsOk
<1>11. out2 \in [Ops -> {"idle", "running", "done", "failed"}]
  BY <1>1 DEF out2
<1> QED
  BY <1>7, <1>8, <1>9, <1>10, <1>11 DEF Good, G, out2, f

(* A batch takes its keys from the queue. *)
LEMMA Batches ==
  ASSUME NEW L, NEW R, NEW F, NEW out, Good(L, R, F, out), NEW l \in DOMAIN L,
         NEW keys \in SUBSET L[l].queue, keys # {}, NEW new,
         IsFrame(new), AwaitInv(new), new.await = NotAwaiting,
         new.dao = l.dao, new.op = l.op, new.plan = l.plan, new.key = l.key,
         new.keys = keys, new.limit = Null
  PROVE  Good([L EXCEPT ![l].queue = @ \ keys], R, Put(F, BatchId(l, keys), new), out)
<1> DEFINE f == BatchId(l, keys)
           G == Put(F, f, new)
           M == [L EXCEPT ![l].queue = @ \ keys]
<1>1. FramesOk(F, out) /\ LoadersOk(L, out) /\ KeysOk(L, F) /\ AwaitsOk(L, F)
  BY DEF Good
<1>2. l \in Loader /\ IsLoader(L[l]) /\ keys \in SUBSET Keys
  BY <1>1 DEF LoadersOk, IsLoader
<1>3. f.loader = l /\ f.keys = keys
  BY DEF BatchId
<1>4. \A k \in keys : Reads(F, l, k) = {} /\ k \notin DOMAIN L[l].cache
  BY <1>1, <1>2 DEF KeysOk, LoaderIn
<1>5. f \notin DOMAIN F
  BY <1>3, <1>4 DEF Reads
<1>6. DOMAIN G = DOMAIN F \cup {f} /\ G[f] = new /\ \A g \in DOMAIN F : G[g] = F[g]
  BY <1>5 DEF Put
<1>7. /\ \A k \in keys : Reads(G, l, k) = Reads(F, l, k) \cup {f}
      /\ \A m, k : (m = l /\ k \in keys) \/ Reads(G, m, k) = Reads(F, m, k)
  BY <1>3, <1>6 DEF Reads
<1>8. /\ DOMAIN M = DOMAIN L
      /\ M[l].queue = L[l].queue \ keys /\ M[l].cache = L[l].cache
      /\ M[l] = [cache |-> L[l].cache, queue |-> L[l].queue \ keys]
      /\ \A m \in DOMAIN L : m # l => M[m] = L[m]
  BY <1>2 DEF IsLoader
<1>9. /\ LoaderIn(M, l).queue = LoaderIn(L, l).queue \ keys
      /\ LoaderIn(M, l).cache = LoaderIn(L, l).cache
      /\ \A m : m # l => LoaderIn(M, m) = LoaderIn(L, m)
  BY <1>8 DEF LoaderIn
<1>10. \A p : DirectId(p) # f
  BY <1>2, Ids
<1> HIDE DEF G, M, f
<1>11. FramesOk(G, out)
  <2>1. \A g \in DOMAIN G : IsFrame(G[g]) /\ AwaitInv(G[g])
    BY <1>1, <1>6 DEF FramesOk
  <2>2. Placed(f, new, G, out)
    BY <1>1, <1>2 DEF Placed, IsBatch, f, LoadersOk
  <2>3. \A g \in DOMAIN G : (g \in DOMAIN F /\ Same(F[g], G[g])) \/ Placed(g, G[g], G, out)
    BY <1>6, <2>2 DEF Same
  <2>4. \A p \in DOMAIN F : \A child :
          DirectId(p) \in DOMAIN F \cap DOMAIN G /\ IsChild(F[p], child) =>
            p \in DOMAIN G /\ IsChild(G[p], child)
    BY <1>6
  <2> QED
    BY <1>1, <2>1, <2>3, <2>4, FramesChange
<1>12. LoadersOk(M, out)
  <2>1. IsLoader(M[l])
    BY <1>2, <1>8 DEF IsLoader
  <2> QED
    BY <1>1, <1>8, <2>1 DEF LoadersOk
<1>13. KeysOk(M, G)
  <2> SUFFICES ASSUME NEW m \in Loader, NEW k \in Keys
               PROVE
                 /\ k \in LoaderIn(M, m).queue => k \notin DOMAIN LoaderIn(M, m).cache /\ Reads(G, m, k) = {}
                 /\ \A g \in Reads(G, m, k) :
                      k \notin DOMAIN LoaderIn(M, m).cache /\ \A h \in Reads(G, m, k) : h = g
    BY DEF KeysOk
  <2>1. CASE m = l /\ k \in keys
    <3>1. Reads(G, m, k) = {f}
      BY <2>1, <1>4, <1>7
    <3> QED
      BY <2>1, <3>1, <1>4, <1>9 DEF LoaderIn
  <2>2. CASE ~(m = l /\ k \in keys)
    <3>1. Reads(G, m, k) = Reads(F, m, k)
      BY <2>2, <1>7
    <3>2. k \in LoaderIn(M, m).queue => k \in LoaderIn(L, m).queue
      BY <1>9
    <3>3. LoaderIn(M, m).cache = LoaderIn(L, m).cache
      BY <1>9
    <3> QED
      BY <3>1, <3>2, <3>3, <1>1 DEF KeysOk
  <2> QED
    BY <2>1, <2>2
<1>14. AwaitsOk(M, G)
  <2>1. new.await.loader = Null
    BY DEF NotAwaiting
  <2>2. ASSUME NEW g \in DOMAIN G, G[g].await.loader # Null
        PROVE  /\ G[g].await.loader \in DOMAIN M
               /\ \A k \in G[g].await.keys :
                    k \in M[G[g].await.loader].queue \/ Reads(G, G[g].await.loader, k) # {}
    <3> DEFINE m == F[g].await.loader
    <3>1. g \in DOMAIN F /\ G[g] = F[g]
      BY <2>1, <2>2, <1>6
    <3>2. m \in DOMAIN L /\ \A k \in F[g].await.keys : k \in L[m].queue \/ Reads(F, m, k) # {}
      BY <2>2, <3>1, <1>1 DEF AwaitsOk
    <3>3. ASSUME NEW k \in F[g].await.keys PROVE k \in M[m].queue \/ Reads(G, m, k) # {}
      <4>1. CASE m = l /\ k \in keys
        BY <4>1, <1>7
      <4>2. CASE ~(m = l /\ k \in keys)
        BY <4>2, <3>2, <1>7, <1>8
      <4> QED
        BY <4>1, <4>2
    <3> QED
      BY <3>1, <3>2, <3>3, <1>8
  <2>3. ASSUME NEW m \in Loader, NEW k \in Keys, k \in LoaderIn(M, m).queue \/ Reads(G, m, k) # {}
        PROVE  \E g \in DOMAIN G : G[g].await.loader = m /\ k \in G[g].await.keys
    <3>1. k \in LoaderIn(L, m).queue \/ Reads(F, m, k) # {}
      BY <2>3, <1>7, <1>9 DEF LoaderIn
    <3>2. PICK g \in DOMAIN F : F[g].await.loader = m /\ k \in F[g].await.keys
      BY <3>1, <1>1 DEF AwaitsOk
    <3> QED
      BY <3>2, <1>6
  <2> QED
    BY <2>2, <2>3 DEF AwaitsOk
<1> QED
  BY <1>11, <1>12, <1>13, <1>14 DEF Good, G, M, f

-----------------------------------------------------------------------------
(* Frames that end *)

(* Which kind of find a frame is shows in its identity. *)
LEMMA Kinds ==
  ASSUME NEW F, NEW out, FramesOk(F, out), NEW f \in DOMAIN F
  PROVE  /\ f.op # Null => IsRoot(f, F[f], out)
         /\ f.op = Null /\ f.loader # Null => IsBatch(f, F[f])
         /\ f.op = Null /\ f.loader = Null => IsDirect(f, F[f], F)
<1>1. IsRoot(f, F[f], out) \/ IsBatch(f, F[f]) \/ IsDirect(f, F[f], F)
  BY DEF FramesOk, Placed
<1>2. IsRoot(f, F[f], out) => f.op # Null
  BY Ids DEF IsRoot
<1>3. IsBatch(f, F[f]) => f.op = Null /\ f.loader # Null
  BY Ids DEF IsBatch
<1>4. IsDirect(f, F[f], F) => f.op = Null /\ f.loader = Null
  BY Ids DEF IsDirect
<1> QED
  BY <1>1, <1>2, <1>3, <1>4

(* A frame that waits for its child waits for no loader. *)
LEMMA ParentWaits ==
  ASSUME NEW fr, NEW child, AwaitInv(fr), IsChild(fr, child)
  PROVE  fr.await.loader = Null /\ fr.pc = "wait" /\ fr.await.keys # {} /\ Waits(fr)
BY DEF AwaitInv, IsChild, Waits

(* A batch settles the promises of its keys. *)
LEMMA BatchEnds ==
  ASSUME NEW L, NEW R, NEW F, NEW out, Good(L, R, F, out), NEW f \in DOMAIN F,
         IsBatch(f, F[f]), F[f].await.keys = {}, NEW failed \in BOOLEAN, NEW M,
         DOMAIN M = DOMAIN L, \A l \in DOMAIN L : l # f.loader => M[l] = L[l],
         f.loader \in DOMAIN L =>
           /\ IsLoader(M[f.loader]) /\ M[f.loader].queue = L[f.loader].queue
           /\ DOMAIN M[f.loader].cache \subseteq DOMAIN L[f.loader].cache \cup f.keys
  PROVE  Good(M, R, Answered(f.loader, f.keys, F[f].recs, failed, Without(F, {f})), out)
<1> DEFINE ll == f.loader
           keys == f.keys
           G == Answered(ll, keys, F[f].recs, failed, Without(F, {f}))
           Settled(fr) == [fr.await EXCEPT !.keys = @ \ keys,
                             !.got = @ \cup Having(F[f].recs, ll.key, keys \cap fr.await.keys),
                             !.failed = @ \/ (failed /\ keys \cap fr.await.keys # {})]
<1>1. FramesOk(F, out) /\ LoadersOk(L, out) /\ KeysOk(L, F) /\ AwaitsOk(L, F)
  BY DEF Good
<1>2. ll \in Loader /\ ll # Null /\ keys \in SUBSET Keys
  BY Ids, Specials DEF IsBatch
<1>3. DirectId(f) \notin DOMAIN F
  BY <1>1, NoChild
<1>4. DOMAIN Without(F, {f}) = DOMAIN F \ {f} /\ \A g \in DOMAIN F \ {f} : Without(F, {f})[g] = F[g]
  BY DEF Without, Restrict
<1>5. DOMAIN G = DOMAIN F \ {f}
  BY <1>4 DEF Answered
<1>6. ASSUME NEW g \in DOMAIN G
      PROVE  G[g] = IF F[g].await.loader # ll THEN F[g] ELSE [F[g] EXCEPT !.await = Settled(F[g])]
  <2>1. IsFrame(F[g]) /\ F[g].await \in Awaits
    BY <1>1, <1>5 DEF FramesOk, IsFrame
  <2> QED
    BY <2>1, <1>4, <1>5, <1>6 DEF Answered, IsFrame, Awaits
<1>7. ASSUME NEW g \in DOMAIN G
      PROVE  /\ IsFrame(G[g]) /\ Same(F[g], G[g])
             /\ G[g].pc = F[g].pc /\ G[g].todo = F[g].todo /\ G[g].at = F[g].at
             /\ G[g].rows = F[g].rows /\ G[g].joined = F[g].joined
             /\ G[g].await.loader = F[g].await.loader
             /\ F[g].await.loader # ll => G[g] = F[g]
             /\ F[g].await.loader = ll => G[g].await.keys = F[g].await.keys \ keys
  <2> DEFINE fr == F[g]
  <2>1. IsFrame(fr) /\ fr.await \in Awaits
    BY <1>1, <1>5 DEF FramesOk, IsFrame
  <2>2. F[f].recs \in SUBSET Rec
    BY <1>1, FrameFacts
  <2>3. Having(F[f].recs, ll.key, keys \cap fr.await.keys) \subseteq Rec
    BY <2>2 DEF Having
  <2> HIDE DEF fr
  <2>4. /\ Settled(fr) \in Awaits /\ Settled(fr).loader = fr.await.loader
        /\ Settled(fr).keys = fr.await.keys \ keys
    BY <2>1, <2>3 DEF Awaits
  <2>5. CASE fr.await.loader # ll
    <3>1. G[g] = fr
      BY <2>5, <1>6 DEF fr
    <3> HIDE DEF G, Settled
    <3> QED
      BY <2>1, <2>5, <3>1 DEF Same, fr
  <2>6. CASE fr.await.loader = ll
    <3>1. G[g] = [fr EXCEPT !.await = Settled(fr)]
      BY <2>6, <1>6 DEF fr
    <3> HIDE DEF G, Settled
    <3>2. IsFrame(G[g])
      BY <2>1, <2>4, <3>1 DEF IsFrame
    <3>3. /\ Same(fr, G[g]) /\ G[g].pc = fr.pc /\ G[g].todo = fr.todo /\ G[g].at = fr.at
          /\ G[g].rows = fr.rows /\ G[g].joined = fr.joined
          /\ G[g].await = Settled(fr)
      BY <2>1, <3>1 DEF IsFrame, Same
    <3> QED
      BY <2>4, <2>6, <3>2, <3>3 DEF fr
  <2> QED
    BY <2>5, <2>6
<1>8. \A m, k : m # ll \/ k \notin keys => Reads(G, m, k) = Reads(F, m, k)
  BY <1>5 DEF Reads
<1>9. \A k \in keys : LoaderIn(L, ll).queue \cap keys = {} /\ Reads(F, ll, k) = {f} /\ Reads(G, ll, k) = {}
  <2>1. \A k \in keys : f \in Reads(F, ll, k)
    BY DEF Reads
  <2>2. \A k \in keys : Reads(F, ll, k) = {f} /\ k \notin LoaderIn(L, ll).queue
    BY <1>1, <1>2, <2>1 DEF KeysOk
  <2> HIDE DEF G
  <2>3. \A k \in keys : Reads(G, ll, k) \subseteq Reads(F, ll, k) \ {f}
    BY <1>5 DEF Reads
  <2> QED
    BY <2>2, <2>3
<1>10. \A l : LoaderIn(M, l).queue = LoaderIn(L, l).queue
             /\ (l # ll => LoaderIn(M, l) = LoaderIn(L, l))
             /\ DOMAIN LoaderIn(M, ll).cache \subseteq DOMAIN LoaderIn(L, ll).cache \cup keys
  BY DEF LoaderIn
<1> HIDE DEF G, Settled, ll, keys
<1>11. FramesOk(G, out)
  <2>1. ASSUME NEW g \in DOMAIN G PROVE AwaitInv(G[g])
    <3> DEFINE fr == F[g]
               new == G[g]
    <3>1. AwaitInv(fr)
      BY <1>1, <1>5 DEF FramesOk
    <3>2. CASE fr.await.loader # ll
      BY <3>1, <3>2, <1>7
    <3>3. CASE fr.await.loader = ll
      <4>1. fr.await # NotAwaiting
        BY <3>3, <1>2 DEF NotAwaiting
      <4>2. /\ new.pc = fr.pc /\ new.todo = fr.todo /\ new.at = fr.at /\ new.recs = fr.recs
            /\ new.rows = fr.rows /\ new.joined = fr.joined /\ new.dao = fr.dao /\ new.op = fr.op
            /\ new.plan = fr.plan /\ new.await.loader = fr.await.loader
            /\ new.await.keys = fr.await.keys \ keys
        <5>1. new.recs = fr.recs
          <6>1. IsFrame(fr)
            BY <1>1, <1>5 DEF FramesOk
          <6>2. new = [fr EXCEPT !.await = Settled(fr)]
            BY <3>3, <1>6
          <6> HIDE DEF fr, new
          <6> QED
            BY <6>1, <6>2 DEF IsFrame
        <5> QED
          BY <3>3, <5>1, <1>7 DEF Same
      <4> HIDE DEF fr, new
      <4>3. Current(new) = Current(fr) /\ NeedsRows(new) = NeedsRows(fr)
        BY <4>2 DEF Current, NeedsRows, RelationOf
      <4>4. Waits(fr) => Waits(new)
        BY <4>2, <4>3 DEF Waits, RelationOf
      <4>5. fr.await.keys = {} => new.await.keys = {}
        BY <4>2
      <4>6. fr.pc \notin {"read", "resolve"}
        BY <3>1, <4>1 DEF AwaitInv
      <4>7. fr.await.loader # Null => fr.await.loader.op \in {NoOp, fr.op}
        BY <3>1 DEF AwaitInv
      <4>8. (fr.pc = "wait" => Waits(fr)) /\ (fr.pc # "wait" => fr.await.keys = {})
        BY <3>1 DEF AwaitInv
      <4> QED
        BY <4>2, <4>4, <4>5, <4>6, <4>7, <4>8 DEF AwaitInv, new
    <3> QED
      BY <3>2, <3>3
  <2>2. \A g \in DOMAIN G : IsFrame(G[g]) /\ AwaitInv(G[g])
    BY <2>1, <1>7
  <2>3. \A g \in DOMAIN G : g \in DOMAIN F /\ Same(F[g], G[g])
    BY <1>5, <1>7
  <2>4. ASSUME NEW p \in DOMAIN F, NEW child, DirectId(p) \in DOMAIN F \cap DOMAIN G, IsChild(F[p], child)
        PROVE  p \in DOMAIN G /\ IsChild(G[p], child)
    <3>1. p # f
      BY <2>4, <1>3
    <3>2. F[p].await.loader = Null
      BY <2>4, <1>1, ParentWaits DEF FramesOk
    <3> QED
      BY <2>4, <3>1, <3>2, <1>2, <1>5, <1>7
  <2> QED
    BY <1>1, <2>2, <2>3, <2>4, FramesChange
<1>12. LoadersOk(M, out)
  BY <1>1 DEF LoadersOk, ll
<1>13. KeysOk(M, G)
  <2> SUFFICES ASSUME NEW m \in Loader, NEW k \in Keys
               PROVE
                 /\ k \in LoaderIn(M, m).queue => k \notin DOMAIN LoaderIn(M, m).cache /\ Reads(G, m, k) = {}
                 /\ \A g \in Reads(G, m, k) :
                      k \notin DOMAIN LoaderIn(M, m).cache /\ \A h \in Reads(G, m, k) : h = g
    BY DEF KeysOk
  <2>1. CASE m = ll /\ k \in keys
    BY <2>1, <1>9, <1>10
  <2>2. CASE ~(m = ll /\ k \in keys)
    <3>1. Reads(G, m, k) = Reads(F, m, k)
      BY <2>2, <1>8
    <3>2. LoaderIn(M, m).queue = LoaderIn(L, m).queue
      BY <1>10
    <3>3. k \in DOMAIN LoaderIn(M, m).cache => k \in DOMAIN LoaderIn(L, m).cache
      BY <2>2, <1>10
    <3> QED
      BY <3>1, <3>2, <3>3, <1>1 DEF KeysOk
  <2> QED
    BY <2>1, <2>2
<1>14. AwaitsOk(M, G)
  <2>1. ASSUME NEW g \in DOMAIN G, G[g].await.loader # Null
        PROVE  /\ G[g].await.loader \in DOMAIN M
               /\ \A k \in G[g].await.keys :
                    k \in M[G[g].await.loader].queue \/ Reads(G, G[g].await.loader, k) # {}
    <3> DEFINE m == F[g].await.loader
    <3>1. g \in DOMAIN F /\ G[g].await.loader = m
      BY <1>5, <1>7
    <3>2. m \in DOMAIN L /\ \A k \in F[g].await.keys : k \in L[m].queue \/ Reads(F, m, k) # {}
      BY <2>1, <3>1, <1>1 DEF AwaitsOk
    <3>3. m \in DOMAIN M /\ M[m].queue = L[m].queue
      BY <3>2 DEF ll
    <3>4. \A k \in G[g].await.keys : k \in F[g].await.keys /\ (m # ll \/ k \notin keys)
      BY <1>7
    <3> QED
      BY <3>1, <3>2, <3>3, <3>4, <1>8
  <2>2. ASSUME NEW m \in Loader, NEW k \in Keys, k \in LoaderIn(M, m).queue \/ Reads(G, m, k) # {}
        PROVE  \E g \in DOMAIN G : G[g].await.loader = m /\ k \in G[g].await.keys
    <3>1. m # ll \/ k \notin keys
      BY <2>2, <1>9, <1>10
    <3>2. k \in LoaderIn(L, m).queue \/ Reads(F, m, k) # {}
      BY <2>2, <3>1, <1>8, <1>10
    <3>3. PICK g \in DOMAIN F : F[g].await.loader = m /\ k \in F[g].await.keys
      BY <3>2, <1>1 DEF AwaitsOk
    <3>4. g \in DOMAIN G
      BY <3>3, <1>5
    <3> QED
      BY <3>1, <3>3, <3>4, <1>7
  <2> QED
    BY <2>1, <2>2 DEF AwaitsOk
<1> QED
  BY <1>11, <1>12, <1>13, <1>14 DEF Good, G, ll, keys

(* A find that was called directly answers the frame that waits for it. *)
LEMMA CallEnds ==
  ASSUME NEW L, NEW R, NEW F, NEW out, Good(L, R, F, out), NEW f \in DOMAIN F,
         IsDirect(f, F[f], F), F[f].await.keys = {}, NEW failed \in BOOLEAN
  PROVE  LET p == f.parent
             new == [F[p] EXCEPT !.await = [@ EXCEPT !.keys = {}, !.got = F[f].recs, !.failed = failed]]
         IN
         /\ p \in DOMAIN F \ {f}
         /\ IsChild(F[p], F[f])
         /\ Good(L, R, [Without(F, {f}) EXCEPT ![p] = new], out)
<1> DEFINE p == f.parent
           aw == [F[p].await EXCEPT !.keys = {}, !.got = F[f].recs, !.failed = failed]
           new == [F[p] EXCEPT !.await = aw]
           G == [Without(F, {f}) EXCEPT ![p] = new]
<1>1. FramesOk(F, out) /\ KeysOk(L, F) /\ AwaitsOk(L, F)
  BY DEF Good
<1>2. p \in DOMAIN F /\ f = DirectId(p) /\ IsChild(F[p], F[f])
  BY Ids DEF IsDirect
<1>3. IsFrame(F[p]) /\ AwaitInv(F[p]) /\ F[p].await \in Awaits /\ F[f].recs \in SUBSET Rec
  BY <1>1, <1>2, FrameFacts
<1>4. F[p].await.loader = Null /\ F[p].pc = "wait" /\ F[p].await.keys # {} /\ Waits(F[p])
  BY <1>2, <1>3, ParentWaits
<1>5. p # f
  BY <1>4
<1>6. DirectId(f) \notin DOMAIN F
  BY <1>1, NoChild
<1>7. aw \in Awaits /\ aw.loader = Null /\ aw.keys = {}
  BY <1>3, <1>4 DEF Awaits
<1>8. /\ DOMAIN G = DOMAIN F \ {f} /\ G[p] = new
      /\ \A g \in DOMAIN F \ {f} : g # p => G[g] = F[g]
  BY <1>2, <1>5 DEF Without, Restrict
<1>9. \A l \in Loader : \A k : Reads(G, l, k) = Reads(F, l, k)
  <2>1. f.loader = Null
    BY <1>2, Ids
  <2> QED
    BY <2>1, <1>8, Specials DEF Reads
<1>10. IsFrame(new) /\ AwaitInv(new) /\ Same(F[p], new) /\ new.await = aw
  <2> DEFINE fr == F[p]
  <2> HIDE DEF fr, aw
  <2>1. IsFrame([fr EXCEPT !.await = aw]) /\ Same(fr, [fr EXCEPT !.await = aw])
    BY <1>3, <1>7 DEF IsFrame, Same, fr
  <2>2. /\ new.pc = fr.pc /\ new.todo = fr.todo /\ new.at = fr.at /\ new.recs = fr.recs
        /\ new.rows = fr.rows /\ new.joined = fr.joined /\ new.dao = fr.dao /\ new.op = fr.op
        /\ new.plan = fr.plan /\ new.await = aw
    BY <1>3 DEF IsFrame, fr
  <2> HIDE DEF new
  <2>3. Current(new) = Current(fr) /\ NeedsRows(new) = NeedsRows(fr)
    BY <2>2 DEF Current, NeedsRows, RelationOf
  <2>4. ~NeedsRows(fr) /\ ~UsesLoader(fr.plan, Current(fr))
    BY <1>2 DEF IsChild, fr
  <2>5. Waits(new)
    BY <1>4, <1>7, <2>2, <2>3, <2>4 DEF Waits, RelationOf, fr
  <2>6. AwaitInv(new)
    BY <1>4, <1>7, <2>2, <2>5 DEF AwaitInv, fr
  <2> QED
    BY <2>1, <2>2, <2>6 DEF new, fr
<1> HIDE DEF G, new, aw, p
<1>11. FramesOk(G, out)
  <2>1. \A g \in DOMAIN G : IsFrame(G[g]) /\ AwaitInv(G[g])
    BY <1>1, <1>8, <1>10 DEF FramesOk
  <2>2. \A g \in DOMAIN G : g \in DOMAIN F /\ Same(F[g], G[g])
    BY <1>8, <1>10 DEF Same
  <2>3. \A q \in DOMAIN F : \A child :
          DirectId(q) \in DOMAIN F \cap DOMAIN G /\ IsChild(F[q], child) =>
            q \in DOMAIN G /\ IsChild(G[q], child)
    BY <1>2, <1>6, <1>8
  <2> QED
    BY <1>1, <2>1, <2>2, <2>3, FramesChange
<1>12. KeysOk(L, G)
  BY <1>1, <1>9 DEF KeysOk
<1>13. AwaitsOk(L, G)
  <2>1. ASSUME NEW g \in DOMAIN G, G[g].await.loader # Null
        PROVE  /\ G[g].await.loader \in DOMAIN L
               /\ \A k \in G[g].await.keys :
                    k \in L[G[g].await.loader].queue \/ Reads(G, G[g].await.loader, k) # {}
    <3>1. g \in DOMAIN F /\ G[g] = F[g]
      BY <2>1, <1>7, <1>8, <1>10
    <3>2. G[g].await.loader \in Loader
      BY <2>1, <3>1, <1>1 DEF FramesOk, IsFrame, Awaits
    <3> QED
      BY <2>1, <3>1, <3>2, <1>1, <1>9 DEF AwaitsOk
  <2>2. ASSUME NEW l \in Loader, NEW k \in Keys, k \in LoaderIn(L, l).queue \/ Reads(G, l, k) # {}
        PROVE  \E g \in DOMAIN G : G[g].await.loader = l /\ k \in G[g].await.keys
    <3>1. PICK g \in DOMAIN F : F[g].await.loader = l /\ k \in F[g].await.keys
      BY <2>2, <1>1, <1>9 DEF AwaitsOk
    <3>2. g # f /\ g # p
      BY <3>1, <1>4, Specials
    <3> QED
      BY <3>1, <3>2, <1>8
  <2> QED
    BY <2>1, <2>2 DEF AwaitsOk
<1>14. Good(L, R, G, out)
  BY <1>11, <1>12, <1>13 DEF Good
<1> QED
  BY <1>2, <1>5, <1>14 DEF G, new, aw, p

(* An operation ends.  Nobody else must use the loaders it clears. *)
LEMMA RootEnds ==
  ASSUME NEW L, NEW R, NEW F, NEW out, Good(L, R, F, out), NEW o \in Ops, RootId(o) \in DOMAIN F,
         F[RootId(o)].await.keys = {}, NEW M, NEW Q, NEW out2,
         out2 \in [Ops -> {"idle", "running", "done", "failed"}], out2[o] \in {"done", "failed"},
         \A p \in Ops : p # o => out2[p] = out[p],
         DOMAIN Q \subseteq DOMAIN R, \A y \in DOMAIN Q : Q[y] = R[y],
         DOMAIN M \subseteq DOMAIN L, \A l \in DOMAIN M : M[l] = L[l],
         \A l \in DOMAIN L \ DOMAIN M :
           l.op = o /\ \A g \in DOMAIN F \ {RootId(o)} : F[g].op # o
  PROVE  Good(M, Q, Without(F, {RootId(o)}), out2)
<1> DEFINE f == RootId(o)
           G == Without(F, {f})
<1>1. /\ FramesOk(F, out) /\ LoadersOk(L, out) /\ RefsOk(R) /\ KeysOk(L, F) /\ AwaitsOk(L, F)
      /\ out \in [Ops -> {"idle", "running", "done", "failed"}]
  BY DEF Good
<1>2. DOMAIN G = DOMAIN F \ {f} /\ \A g \in DOMAIN G : G[g] = F[g]
  BY DEF Without, Restrict
<1> DEFINE C == DOMAIN L \ DOMAIN M
<1>3. DOMAIN M = DOMAIN L \ C /\ \A l \in DOMAIN M : M[l] = L[l]
  OBVIOUS
<1>4. \A l \in Loader : \A k : Reads(G, l, k) = Reads(F, l, k)
  <2>1. f.loader = Null
    BY Ids
  <2> QED
    BY <2>1, <1>2, Specials DEF Reads
<1>5. DirectId(f) \notin DOMAIN F
  BY <1>1, NoChild
<1>6. /\ out2[o] \in {"done", "failed"} /\ \A p \in Ops : p # o => out2[p] = out[p]
      /\ out2 \in [Ops -> {"idle", "running", "done", "failed"}]
  BY <1>1
<1>7. \A l : LoaderIn(M, l) = IF l \in C THEN EmptyLoader ELSE LoaderIn(L, l)
  BY DEF LoaderIn
<1>8. \A g \in DOMAIN G : F[g].await.loader # Null => F[g].await.loader \notin C
  <2> SUFFICES ASSUME NEW g \in DOMAIN G, F[g].await.loader # Null, F[g].await.loader \in C PROVE FALSE
    OBVIOUS
  <2>1. F[g].await.loader.op \in {NoOp, F[g].op}
    BY <1>1, <1>2 DEF FramesOk, AwaitInv
  <2>2. F[g].op = o
    BY <2>1, Specials
  <2> QED
    BY <2>2, <1>2
<1> HIDE DEF G, C
<1>9. FramesOk(G, out2)
  <2>1. \A g \in DOMAIN G : IsFrame(G[g]) /\ AwaitInv(G[g])
    BY <1>1, <1>2 DEF FramesOk
  <2>2. \A g \in DOMAIN G : g \in DOMAIN F /\ Same(F[g], G[g])
    BY <1>2 DEF Same
  <2>3. \A p \in DOMAIN F : \A child :
          DirectId(p) \in DOMAIN F \cap DOMAIN G /\ IsChild(F[p], child) =>
            p \in DOMAIN G /\ IsChild(G[p], child)
    BY <1>2, <1>5
  <2>4. \A p \in Ops :
          /\ out[p] # "idle" => out2[p] # "idle"
          /\ out[p] = "running" /\ RootId(p) \in DOMAIN G => out2[p] = "running"
    BY <1>2, <1>6
  <2> QED
    BY <1>1, <2>1, <2>2, <2>3, <2>4, FramesChange
<1>10. LoadersOk(M, out2)
  BY <1>1, <1>3, <1>6 DEF LoadersOk
<1>11. RefsOk(Q)
  BY <1>1 DEF RefsOk
<1>12. KeysOk(M, G)
  <2> SUFFICES ASSUME NEW m \in Loader, NEW k \in Keys
               PROVE
                 /\ k \in LoaderIn(M, m).queue => k \notin DOMAIN LoaderIn(M, m).cache /\ Reads(F, m, k) = {}
                 /\ \A g \in Reads(F, m, k) :
                      k \notin DOMAIN LoaderIn(M, m).cache /\ \A h \in Reads(F, m, k) : h = g
    BY <1>4 DEF KeysOk
  <2>1. EmptyLoader.queue = {} /\ DOMAIN EmptyLoader.cache = {}
    BY DEF EmptyLoader
  <2> QED
    BY <2>1, <1>1, <1>7 DEF KeysOk
<1>13. AwaitsOk(M, G)
  <2>1. ASSUME NEW g \in DOMAIN G, G[g].await.loader # Null
        PROVE  /\ G[g].await.loader \in DOMAIN M
               /\ \A k \in G[g].await.keys :
                    k \in M[G[g].await.loader].queue \/ Reads(G, G[g].await.loader, k) # {}
    <3>1. g \in DOMAIN F /\ G[g] = F[g]
      BY <1>2
    <3>2. G[g].await.loader \in Loader /\ G[g].await.loader \notin C
      BY <2>1, <3>1, <1>1, <1>8 DEF FramesOk, IsFrame, Awaits
    <3> QED
      BY <2>1, <3>1, <3>2, <1>1, <1>3, <1>4 DEF AwaitsOk
  <2>2. ASSUME NEW l \in Loader, NEW k \in Keys, k \in LoaderIn(M, l).queue \/ Reads(G, l, k) # {}
        PROVE  \E g \in DOMAIN G : G[g].await.loader = l /\ k \in G[g].await.keys
    <3>1. k \in LoaderIn(L, l).queue \/ Reads(F, l, k) # {}
      BY <2>2, <1>4, <1>7 DEF EmptyLoader
    <3>2. PICK g \in DOMAIN F : F[g].await.loader = l /\ k \in F[g].await.keys
      BY <3>1, <1>1 DEF AwaitsOk
    <3>3. g # f
      BY <3>2
    <3> QED
      BY <3>2, <3>3, <1>2
  <2> QED
    BY <2>1, <2>2 DEF AwaitsOk
<1> QED
  BY <1>6, <1>9, <1>10, <1>11, <1>12, <1>13 DEF Good, G

-----------------------------------------------------------------------------
(* Nesting *)

(* The frame that waits for another one has a deeper projection. *)
LEMMA Deeper ==
  ASSUME NEW N \in Nat, NEW depth, IsDepth(depth, N), NEW fr, IsFrame(fr), Waits(fr)
  PROVE  depth[fr.plan[Current(fr)].plan] < depth[fr.plan]
<1>1. fr.todo # {}
  BY DEF Waits
<1>2. Current(fr) \in DOMAIN fr.plan
  BY <1>1, CurrentFacts
<1>3. fr.plan \in AllPlans
  BY DEF IsFrame
<1> QED
  BY <1>2, <1>3 DEF IsDepth

(* The find of a loader of an operation is awaited by the same operation,  *)
(* for the relation the loader serves.                                     *)
LEMMA LoaderOfOp ==
  ASSUME NEW fr, IsFrame(fr), AwaitInv(fr), NEW o \in Ops, fr.await.loader # Null,
         fr.await.loader.op = o, fr.await.keys # {}
  PROVE  /\ Waits(fr) /\ fr.op = o
         /\ fr.await.loader.plan = fr.plan[Current(fr)].plan
<1>1. Waits(fr) /\ fr.await.loader.op \in {NoOp, fr.op}
  BY DEF AwaitInv
<1>2. fr.op = o
  BY <1>1, Specials
<1> DEFINE rel == RelationOf(fr, Current(fr))
           plan == fr.plan[Current(fr)].plan
<1>3. fr.todo # {}
  BY <1>1 DEF Waits
<1>4. /\ rel \in Relation /\ (rel.kind = "relation" => rel.join \in Daos)
      /\ plan \in Plans[rel.dao]
  BY <1>3, CurrentFacts
<1>5. ~NeedsRows(fr)
  <2>1. SUFFICES ASSUME NeedsRows(fr) PROVE FALSE
    OBVIOUS
  <2>2. rel.join \in Daos
    BY <2>1, <1>4 DEF NeedsRows
  <2>3. fr.await.loader = Hash(rel.join, NoOp, "id", RowPlan)
    BY <2>1, <1>1 DEF Waits
  <2> QED
    BY <2>2, <2>3, Specials DEF Hash
<1>6. fr.await.loader = Hash(rel.dao, fr.op, LinkKey(rel), plan)
  BY <1>1, <1>5 DEF Waits
<1>7. fr.await.loader.plan = plan
  BY <1>6 DEF Hash
<1> QED
  BY <1>1, <1>2, <1>7

(* While the first find of an operation awaits nothing, there is no other *)
(* one.                                                                    *)
LEMMA Alone ==
  ASSUME NEW L, NEW R, NEW F, NEW out, Good(L, R, F, out), NEW N \in Nat, NestedUpTo(N),
         NEW o \in Ops, RootId(o) \in DOMAIN F, F[RootId(o)].await.keys = {}
  PROVE  \A g \in DOMAIN F \ {RootId(o)} : F[g].op # o
<1> DEFINE O == {g \in DOMAIN F \ {RootId(o)} : F[g].op = o}
<1>1. SUFFICES ASSUME O # {} PROVE FALSE
  OBVIOUS
<1>2. FramesOk(F, out) /\ AwaitsOk(L, F)
  BY DEF Good
<1>3. PICK depth : IsDepth(depth, N)
  BY DEF NestedUpTo
<1> DEFINE T == {N - depth[F[g].plan] : g \in O}
<1>4. \A g \in DOMAIN F : F[g].plan \in AllPlans
  BY <1>2 DEF FramesOk, IsFrame
<1>5. \A g \in O : depth[F[g].plan] \in 0..N
  BY <1>3, <1>4 DEF IsDepth
<1>6. \E t \in T : \A u \in T : t <= u
  <2>1. T \subseteq Nat /\ T # {}
    BY <1>1, <1>5
  <2> HIDE DEF T
  <2> QED
    BY <2>1, Least
<1>7. PICK g \in O : \A h \in O : depth[F[h].plan] <= depth[F[g].plan]
  <2>1. PICK g \in O : \A u \in T : N - depth[F[g].plan] <= u
    BY <1>6
  <2>2. ASSUME NEW h \in O PROVE depth[F[h].plan] <= depth[F[g].plan]
    <3>1. N - depth[F[g].plan] <= N - depth[F[h].plan]
      BY <2>1
    <3>2. depth[F[g].plan] \in 0..N /\ depth[F[h].plan] \in 0..N
      BY <1>5
    <3> HIDE DEF O
    <3> QED
      BY <3>1, <3>2
  <2> QED
    BY <2>2
<1>8. ASSUME NEW h \in O, Waits(F[h]), F[h].plan[Current(F[h])].plan = F[g].plan PROVE FALSE
  <2>1. IsFrame(F[h])
    BY <1>2 DEF FramesOk
  <2>2. depth[F[g].plan] < depth[F[h].plan]
    BY <2>1, <1>3, <1>8, Deeper
  <2>3. depth[F[g].plan] \in Int /\ depth[F[h].plan] \in Int
    BY <1>3, <1>4 DEF IsDepth
  <2> QED
    BY <2>2, <2>3, <1>7
<1>9. Placed(g, F[g], F, out)
  BY <1>2 DEF FramesOk
<1>10. ~IsRoot(g, F[g], out)
  BY DEF IsRoot
<1>11. CASE IsBatch(g, F[g])
  <2>1. PICK l \in Loader, keys \in SUBSET Keys :
          g = BatchId(l, keys) /\ keys # {} /\ F[g].op = l.op /\ F[g].plan = l.plan
    BY <1>11 DEF IsBatch
  <2>2. PICK k \in keys : TRUE
    BY <2>1
  <2>3. g \in Reads(F, l, k)
    BY <2>1, Ids DEF Reads
  <2>4. PICK h \in DOMAIN F : F[h].await.loader = l /\ k \in F[h].await.keys
    BY <2>2, <2>3, <1>2 DEF AwaitsOk
  <2>5. Waits(F[h]) /\ F[h].op = o /\ l.plan = F[h].plan[Current(F[h])].plan
    <3>1. IsFrame(F[h]) /\ AwaitInv(F[h])
      BY <1>2 DEF FramesOk
    <3>2. F[h].await.loader # Null /\ F[h].await.loader.op = o /\ F[h].await.keys # {}
      BY <2>1, <2>4, Specials
    <3> QED
      BY <3>1, <3>2, <2>4, LoaderOfOp
  <2>6. h \in O
    BY <2>4, <2>5
  <2> QED
    BY <2>1, <2>5, <2>6, <1>8
<1>12. CASE IsDirect(g, F[g], F)
  <2>1. PICK p \in DOMAIN F : IsChild(F[p], F[g])
    BY <1>12 DEF IsDirect
  <2>2. /\ F[p].await.keys # {} /\ F[p].op = o
        /\ F[p].plan[Current(F[p])].plan = F[g].plan
    BY <2>1 DEF IsChild
  <2>3. Waits(F[p])
    BY <2>1, <1>2, ParentWaits DEF FramesOk
  <2> QED
    BY <2>2, <2>3, <1>8
<1> QED
  BY <1>9, <1>10, <1>11, <1>12 DEF Placed

-----------------------------------------------------------------------------
(* The actions *)

LEMMA StartsGood == Init => IInv
<1> SUFFICES ASSUME Init PROVE IInv
  OBVIOUS
<1>1. /\ DOMAIN frames = {} /\ DOMAIN loaders = {} /\ DOMAIN refs = {}
      /\ outcome \in [Ops -> {"idle", "running", "done", "failed"}] /\ began \in [Ops -> Nat]
      /\ workload \in Workloads /\ history = <<workload.db>>
  BY DEF Init
<1>2. workload.db \in Database
  BY <1>1, LoaderAssumption DEF Workload
<1>3. history \in Seq(Database) /\ Now # 0
  BY <1>1, <1>2
<1>4. \A l : LoaderIn(loaders, l).queue = {}
  BY <1>1 DEF LoaderIn, EmptyLoader
<1>5. \A l, k : Reads(frames, l, k) = {}
  BY <1>1 DEF Reads
<1>6. FramesOk(frames, outcome) /\ LoadersOk(loaders, outcome) /\ RefsOk(refs)
  BY <1>1 DEF FramesOk, LoadersOk, RefsOk
<1>7. KeysOk(loaders, frames) /\ AwaitsOk(loaders, frames)
  BY <1>1, <1>4, <1>5 DEF KeysOk, AwaitsOk
<1> QED
  BY <1>1, <1>3, <1>6, <1>7 DEF IInv, Good

LEMMA BeginGood ==
  ASSUME IInv, NEW o \in Ops, Begin(o)
  PROVE  Good(loaders', refs', frames', outcome')
<1> DEFINE q == workload.query[o]
           new == NewFrame(q.dao, o, q.plan, "id", Keys, Null)
<1>1. workload \in Workload /\ o \in DOMAIN workload.query /\ outcome[o] = "idle"
  BY LoaderAssumption DEF IInv, Begin
<1>2. q.dao \in Daos
  <2>1. PICK S \in SUBSET Ops : workload.query \in [S -> [dao : Daos, plan : AllPlans]]
    BY <1>1 DEF Workload
  <2> QED
    BY <1>1, <2>1
<1>3. q.plan \in Plans[q.dao]
  BY <1>1, LoaderAssumption DEF IInv
<1>4. IsFrame(new) /\ AwaitInv(new) /\ new.await = NotAwaiting /\ new.op = o
  <2> HIDE DEF q
  <2>1. IsFrame(new) /\ AwaitInv(new)
    BY <1>2, <1>3, NewFrameFacts
  <2>2. new.await = NotAwaiting /\ new.op = o
    BY DEF NewFrame
  <2> QED
    BY <2>1, <2>2
<1> HIDE DEF new
<1>5. Good(loaders, refs, Put(frames, RootId(o), new), [outcome EXCEPT ![o] = "running"])
  BY <1>1, <1>4, Begins DEF IInv
<1> QED
  BY <1>5 DEF Begin, new

(* The loads and finds of a frame concern the relation it is at. *)
LEMMA FrameOf ==
  ASSUME IInv, NEW f \in DOMAIN frames
  PROVE  /\ FramesOk(frames, outcome) /\ IsFrame(frames[f]) /\ AwaitInv(frames[f])
         /\ frames[f].op \in Ops => outcome[frames[f].op] # "idle"
BY DEF IInv, Good, FramesOk, Placed

LEMMA ReadGood ==
  ASSUME IInv, NEW f \in DOMAIN frames, Read(f)
  PROVE  Good(loaders', refs', frames', outcome')
<1> DEFINE fr == frames[f]
<1>1. IsFrame(fr) /\ AwaitInv(fr)
  BY FrameOf
<1>2. fr.pc = "read" /\ fr.await = NotAwaiting /\ fr.await.keys = {}
  BY <1>1 DEF Read, AwaitInv
<1>3. PICK recs \in Answers(fr) :
        frames' = [frames EXCEPT ![f].pc = "resolve", ![f].recs = recs,
                                 ![f].todo = (DOMAIN fr.plan) \X recs]
  BY DEF Read
<1> DEFINE new == [fr EXCEPT !.pc = "resolve", !.recs = recs, !.todo = (DOMAIN fr.plan) \X recs]
<1>4. recs \in SUBSET Rec
  <2>1. \A d \in Daos : Db[d] \subseteq Rec
    BY DbFacts DEF Db, IInv
  <2>2. Having(Db[fr.dao], fr.key, fr.keys) \subseteq Rec
    BY <1>1, <2>1 DEF Having, IsFrame
  <2> QED
    BY <2>2 DEF Answers
<1>5. frames' = [frames EXCEPT ![f] = new]
  BY <1>3
<1>6. IsFrame(new) /\ Same(fr, new) /\ new.await = fr.await /\ new.pc = "resolve"
  <2> HIDE DEF fr
  <2> QED
    BY <1>1, <1>4 DEF IsFrame, Same
<1> HIDE DEF new
<1>7. Good(loaders, refs, [frames EXCEPT ![f] = new], outcome)
  BY <1>2, <1>6, Moves DEF IInv
<1> QED
  BY <1>5, <1>7 DEF Read

LEMMA RejectGood ==
  ASSUME IInv, NEW f \in DOMAIN frames, Reject(f)
  PROVE  Good(loaders', refs', frames', outcome')
<1> DEFINE fr == frames[f]
           new == [fr EXCEPT !.pc = "throw"]
<1>1. IsFrame(fr) /\ AwaitInv(fr)
  BY FrameOf
<1>2. fr.pc = "read" /\ fr.await = NotAwaiting /\ fr.await.keys = {}
  BY <1>1 DEF Reject, AwaitInv
<1>3. frames' = [frames EXCEPT ![f] = new]
  BY DEF Reject
<1>4. IsFrame(new) /\ Same(fr, new) /\ new.await = fr.await /\ new.pc = "throw"
  <2> HIDE DEF fr
  <2> QED
    BY <1>1 DEF IsFrame, Same
<1> HIDE DEF new
<1>5. Good(loaders, refs, [frames EXCEPT ![f] = new], outcome)
  BY <1>2, <1>4, Moves DEF IInv
<1> QED
  BY <1>3, <1>5 DEF Reject

(* The result of a relation is set. *)
LEMMA SetResultGood ==
  ASSUME IInv, NEW f \in DOMAIN frames, NEW r, NEW got, SetResult(f, r, got),
         frames[f].await.keys = {}
  PROVE  Good(loaders, refs, frames', outcome)
<1> DEFINE fr == frames[f]
           i == Current(fr)
           next == IF RelationOf(fr, i).required /\ got = {} THEN "throw" ELSE "resolve"
           link == [rel |-> i, rec |-> r, got |-> got]
           new == [fr EXCEPT
             !.pc = next, !.todo = @ \ {<<i, r>>}, !.links = @ \cup {link},
             !.at = Null,
             !.await = NotAwaiting]
<1>1. IsFrame(fr)
  BY FrameOf
<1>2. frames' = [frames EXCEPT ![f] = new]
  BY DEF SetResult
<1>3. NotAwaiting \in Awaits /\ NotAwaiting.keys = {} /\ NotAwaiting.loader = Null
  BY DEF NotAwaiting, Awaits
<1>4. IsFrame(new) /\ Same(fr, new) /\ new.await = NotAwaiting /\ new.pc # "wait"
  <2>1. next \in {"throw", "resolve"}
    OBVIOUS
  <2> HIDE DEF fr, i, next, link
  <2> QED
    BY <1>1, <1>3, <2>1 DEF IsFrame, Same
<1> HIDE DEF new
<1>5. Good(loaders, refs, [frames EXCEPT ![f] = new], outcome)
  BY <1>3, <1>4, Moves DEF IInv
<1> QED
  BY <1>2, <1>5

LEMMA ResumeGood ==
  ASSUME IInv, NEW f \in DOMAIN frames, Resume(f)
  PROVE  Good(loaders', refs', frames', outcome')
<1> DEFINE fr == frames[f]
<1>1. IsFrame(fr) /\ AwaitInv(fr) /\ fr.await.keys = {}
  BY FrameOf DEF Resume
<1>2. fr.await.got \in SUBSET Rec
  BY <1>1 DEF IsFrame, Awaits
<1>3. NotAwaiting \in Awaits /\ NotAwaiting.keys = {} /\ NotAwaiting.loader = Null
  BY DEF NotAwaiting, Awaits
<1>4. CASE fr.await.failed
  <2> DEFINE new == [fr EXCEPT !.pc = "throw"]
  <2>1. frames' = [frames EXCEPT ![f] = new]
    BY <1>4 DEF Resume
  <2>2. IsFrame(new) /\ Same(fr, new) /\ new.await = fr.await /\ new.pc = "throw"
    <3> HIDE DEF fr
    <3> QED
      BY <1>1 DEF IsFrame, Same
  <2> HIDE DEF new
  <2>3. Good(loaders, refs, [frames EXCEPT ![f] = new], outcome)
    BY <1>1, <2>2, Moves DEF IInv
  <2> QED
    BY <2>1, <2>3 DEF Resume
<1>5. CASE ~fr.await.failed /\ NeedsRows(fr)
  <2> DEFINE j == fr.joined \cup {Current(fr)}
             new == [fr EXCEPT !.pc = "resolve", !.joined = j,
                               !.rows = fr.await.got, !.await = NotAwaiting]
  <2>1. frames' = [frames EXCEPT ![f] = new]
    BY <1>5 DEF Resume
  <2>2. IsFrame(new) /\ Same(fr, new) /\ new.await = NotAwaiting /\ new.pc = "resolve"
    <3> HIDE DEF fr, j
    <3> QED
      BY <1>1, <1>2, <1>3 DEF IsFrame, Same
  <2> HIDE DEF new
  <2>3. Good(loaders, refs, [frames EXCEPT ![f] = new], outcome)
    BY <1>1, <1>3, <2>2, Moves DEF IInv
  <2> QED
    BY <2>1, <2>3 DEF Resume
<1>6. CASE ~fr.await.failed /\ ~NeedsRows(fr)
  <2>1. SetResult(f, fr.at, fr.await.got)
    BY <1>6 DEF Resume
  <2> QED
    BY <1>1, <2>1, SetResultGood DEF Resume
<1> QED
  BY <1>4, <1>5, <1>6

LEMMA LoadAllGood ==
  ASSUME IInv, NEW f \in DOMAIN frames, NEW r \in Rec \cup {Null}, NEW l \in Loader,
         l.plan \in Plans[l.dao], NEW keys \in SUBSET Keys, LoadAll(f, r, l, keys),
         frames[f].pc = "resolve", frames[f].todo # {}, l.op \in {NoOp, frames[f].op},
         LET fr == frames[f]
             i == Current(fr)
             rel == RelationOf(fr, i)
         IN
         IF NeedsRows(fr) THEN l = Hash(rel.join, NoOp, "id", RowPlan)
         ELSE /\ r \in fr.recs /\ keys \subseteq LinkKeys(rel, r, fr.rows)
              /\ UsesLoader(fr.plan, i)
              /\ l = Hash(rel.dao, fr.op, LinkKey(rel), fr.plan[i].plan)
  PROVE  Good(loaders', refs', frames', outcome)
<1> DEFINE fr == frames[f]
           loader == LoaderOf(l)
           cached == keys \cap DOMAIN loader.cache
           got == UNION {loader.cache[k] : k \in cached}
           aw == [loader |-> l, keys |-> keys \ cached, failed |-> FALSE, got |-> got]
           lo == [loader EXCEPT !.queue = @ \cup (keys \ (cached \cup Pending(l)))]
           new == [fr EXCEPT !.pc = "wait", !.at = r, !.await = aw]
           x == <<l.dao, l.op>>
           S == RefsOf(l.dao, l.op) \cup {l}
<1>1. /\ frames' = [frames EXCEPT ![f] = new]
      /\ loaders' = Put(loaders, l, lo)
      /\ refs' = Put(refs, x, S)
  BY DEF LoadAll
<1>2. IsFrame(fr) /\ AwaitInv(fr) /\ (fr.op \in Ops => outcome[fr.op] # "idle")
  BY FrameOf
<1>3. fr.await.keys = {}
  BY <1>2 DEF AwaitInv
<1>4. loader = LoaderIn(loaders, l)
  BY DEF LoaderOf, LoaderIn
<1>5. IsLoader(loader)
  <2>1. IsLoader(EmptyLoader)
    BY DEF IsLoader, EmptyLoader
  <2> QED
    BY <2>1 DEF LoaderOf, IInv, Good, LoadersOk
<1>6. got \subseteq Rec
  BY <1>5 DEF IsLoader
<1>7. \A k : k \in Pending(l) <=> k \in loader.queue \/ Reads(frames, l, k) # {}
  BY DEF Pending, Loading, Reads
<1>8. /\ lo.cache = loader.cache
      /\ lo.queue = loader.queue \cup (keys \ (cached \cup Pending(l)))
      /\ IsLoader(lo)
  <2> HIDE DEF loader, cached
  <2>1. loader.queue \cup (keys \ (cached \cup Pending(l))) \in SUBSET Keys
    BY <1>5 DEF IsLoader
  <2> QED
    BY <1>5, <2>1 DEF IsLoader
<1>9. aw \in Awaits /\ aw.loader = l /\ aw.keys = keys \ cached
  BY <1>6 DEF Awaits
<1>10. IsFrame(new) /\ Same(fr, new) /\ new.await = aw
  <2> HIDE DEF fr, aw
  <2> QED
    BY <1>2, <1>9 DEF IsFrame, Same
<1>11. AwaitInv(new)
  <2> HIDE DEF fr, aw
  <2>1. /\ new.pc = "wait" /\ new.at = r /\ new.await = aw /\ new.todo = fr.todo /\ new.plan = fr.plan
        /\ new.recs = fr.recs /\ new.rows = fr.rows /\ new.joined = fr.joined
        /\ new.dao = fr.dao /\ new.op = fr.op
    BY <1>2 DEF IsFrame
  <2> HIDE DEF new
  <2>2. Current(new) = Current(fr) /\ NeedsRows(new) = NeedsRows(fr)
    BY <2>1 DEF Current, NeedsRows, RelationOf
  <2>3. Waits(new)
    BY <1>9, <2>1, <2>2 DEF Waits, RelationOf, fr
  <2> QED
    BY <1>9, <2>1, <2>3 DEF AwaitInv, fr
<1>12. x[2] = l.op /\ \A m \in S : m.op = l.op
  BY DEF IInv, Good, RefsOk, RefsOf
<1>13. \A k \in lo.queue :
          \/ k \in LoaderIn(loaders, l).queue
          \/ k \in new.await.keys /\ Reads(frames, l, k) = {}
  BY <1>4, <1>7, <1>8, <1>9, <1>10
<1>14. \A k \in LoaderIn(loaders, l).queue : k \in lo.queue
  BY <1>4, <1>8
<1>15. \A k \in new.await.keys : k \notin DOMAIN lo.cache /\ (k \in lo.queue \/ Reads(frames, l, k) # {})
  BY <1>7, <1>8, <1>9, <1>10
<1>16. lo.cache = LoaderIn(loaders, l).cache /\ new.await.loader = l /\ l.plan \in Plans[l.dao]
  BY <1>4, <1>8, <1>9, <1>10
<1> HIDE DEF new, lo, x, S
<1>17. Good(Put(loaders, new.await.loader, lo), Put(refs, x, S), [frames EXCEPT ![f] = new], outcome)
  <2>1. Good(loaders, refs, frames, outcome)
    BY DEF IInv
  <2> QED
    BY <2>1, <1>2, <1>3, <1>8, <1>10, <1>11, <1>12, <1>13, <1>14, <1>15, <1>16, Loads
<1> QED
  BY <1>1, <1>16, <1>17

LEMMA LoadRowsGood ==
  ASSUME IInv, NEW f \in DOMAIN frames, LoadRows(f)
  PROVE  Good(loaders', refs', frames', outcome')
<1> DEFINE fr == frames[f]
           rel == RelationOf(fr, Current(fr))
           l == Hash(rel.join, NoOp, "id", RowPlan)
           keys == {r.id : r \in fr.recs}
<1>1. IsFrame(fr) /\ fr.pc = "resolve" /\ fr.todo # {} /\ NeedsRows(fr)
  BY FrameOf DEF LoadRows
<1>2. rel.join \in Daos
  BY <1>1, CurrentFacts DEF NeedsRows
<1>3. l \in Loader /\ l.op = NoOp /\ l.plan \in Plans[l.dao]
  BY <1>2, HashType, Specials
<1>4. keys \in SUBSET Keys
  BY <1>1 DEF IsFrame, Rec
<1>5. LoadAll(f, Null, l, keys)
  BY DEF LoadRows
<1> HIDE DEF keys
<1>6. Good(loaders', refs', frames', outcome)
  BY <1>1, <1>3, <1>4, <1>5, LoadAllGood
<1> QED
  BY <1>6 DEF LoadRows

LEMMA LoadLinksGood ==
  ASSUME IInv, NEW f \in DOMAIN frames, LoadLinks(f)
  PROVE  Good(loaders', refs', frames', outcome')
<1> DEFINE fr == frames[f]
           i == Current(fr)
           rel == RelationOf(fr, i)
           plan == fr.plan[i].plan
<1>1. /\ IsFrame(fr) /\ AwaitInv(fr) /\ fr.pc = "resolve" /\ fr.todo # {} /\ ~NeedsRows(fr)
      /\ fr.op \in Ops => outcome[fr.op] # "idle"
  BY FrameOf DEF LoadLinks
<1>2. fr.await = NotAwaiting /\ fr.await.keys = {} /\ fr.await.loader = Null
  BY <1>1 DEF AwaitInv, NotAwaiting
<1>3. /\ rel \in Relation /\ plan \in Plans[rel.dao] /\ rel.dao \in Daos
      /\ fr.plan[i].limit \in Nat \cup {Null}
  BY <1>1, CurrentFacts DEF Relation
<1>4. /\ fr.rows \in SUBSET Rec /\ fr.recs \in SUBSET Rec /\ fr.op \in Ops \cup {NoOp}
  BY <1>1 DEF IsFrame
<1>5. PICK r \in {q \in fr.recs : <<i, q>> \in fr.todo} :
        LET keys == LinkKeys(rel, r, fr.rows) IN
        IF keys = {} THEN SetResult(f, r, {}) /\ UNCHANGED <<loaders, refs>>
        ELSE IF UsesLoader(fr.plan, i)
        THEN LoadAll(f, r, Hash(rel.dao, fr.op, LinkKey(rel), plan), keys)
        ELSE FindDirectly(f, r, keys)
  BY DEF LoadLinks
<1> DEFINE keys == LinkKeys(rel, r, fr.rows)
           l == Hash(rel.dao, fr.op, LinkKey(rel), plan)
<1>6. keys \in SUBSET Keys /\ LinkKey(rel) \in {"id", "ref"}
  BY <1>3, <1>4, LinkKeysType
<1>7. CASE keys = {}
  BY <1>2, <1>5, <1>7, SetResultGood DEF LoadLinks
<1>8. CASE keys # {} /\ UsesLoader(fr.plan, i)
  <2>1. l \in Loader /\ l.op = fr.op /\ l.plan \in Plans[l.dao]
    BY <1>3, <1>4, <1>6, HashType
  <2>2. LoadAll(f, r, l, keys)
    BY <1>5, <1>8
  <2>3. r \in Rec \cup {Null} /\ r \in fr.recs
    BY <1>4
  <2> HIDE DEF keys
  <2>4. Good(loaders', refs', frames', outcome)
    <3>1. keys \subseteq LinkKeys(rel, r, fr.rows)
      BY DEF keys
    <3> QED
      BY <1>1, <1>6, <1>8, <2>1, <2>2, <2>3, <3>1, LoadAllGood
  <2> QED
    BY <2>4 DEF LoadLinks
<1>9. CASE keys # {} /\ ~UsesLoader(fr.plan, i)
  <2> DEFINE aw == [fr.await EXCEPT !.keys = keys]
             new == [fr EXCEPT !.pc = "wait", !.at = r, !.await = aw]
             child == NewFrame(rel.dao, fr.op, plan, LinkKey(rel), keys, fr.plan[i].limit)
  <2>1. FindDirectly(f, r, keys)
    BY <1>5, <1>9
  <2>2. /\ frames' = Put([frames EXCEPT ![f].pc = "wait", ![f].at = r, ![f].await.keys = keys],
                         DirectId(f), child)
        /\ UNCHANGED <<loaders, refs>>
    BY <2>1 DEF FindDirectly
  <2>3. frames' = Put([frames EXCEPT ![f] = new], DirectId(f), child)
    BY <2>2
  <2>4. aw \in Awaits /\ aw.keys = keys /\ aw.loader = Null
    BY <1>1, <1>2, <1>6 DEF IsFrame, Awaits
  <2> HIDE DEF aw, keys
  <2>5. /\ IsFrame(new) /\ Same(fr, new)
        /\ new.pc = "wait" /\ new.at = r /\ new.await = aw /\ new.todo = fr.todo /\ new.plan = fr.plan
        /\ new.recs = fr.recs /\ new.rows = fr.rows /\ new.joined = fr.joined
        /\ new.dao = fr.dao /\ new.op = fr.op
    <3> HIDE DEF fr, i
    <3>1. r \in Rec
      BY <1>4
    <3> QED
      BY <1>1, <2>4, <3>1 DEF IsFrame, Same
  <2> HIDE DEF new
  <2>6. Current(new) = i /\ NeedsRows(new) = NeedsRows(fr) /\ RelationOf(new, i) = rel
    BY <2>5 DEF Current, NeedsRows, RelationOf
  <2>7. Waits(new)
    BY <1>1, <1>9, <2>4, <2>5, <2>6 DEF Waits, keys
  <2>8. AwaitInv(new)
    BY <2>4, <2>5, <2>7 DEF AwaitInv
  <2>9. /\ IsFrame(child) /\ AwaitInv(child)
    <3> DEFINE d == rel.dao
               op == fr.op
               key == LinkKey(rel)
               limit == fr.plan[i].limit
    <3>1. /\ d \in Daos /\ op \in Ops \cup {NoOp} /\ plan \in Plans[d] /\ key \in {"id", "ref"}
          /\ keys \in SUBSET Keys /\ limit \in Nat \cup {Null}
      BY <1>3, <1>4, <1>6
    <3> HIDE DEF d, op, plan, key, limit
    <3>2. IsFrame(NewFrame(d, op, plan, key, keys, limit)) /\ AwaitInv(NewFrame(d, op, plan, key, keys, limit))
      BY <3>1, NewFrameFacts
    <3> QED
      BY <3>2 DEF d, op, plan, key, limit
  <2>10. /\ child.dao = rel.dao /\ child.op = fr.op /\ child.plan = plan
         /\ child.key = LinkKey(rel) /\ child.keys = keys /\ child.limit = fr.plan[i].limit
         /\ child.await = NotAwaiting
    BY DEF NewFrame
  <2> HIDE DEF child
  <2>11. IsChild(new, child)
    BY <1>1, <1>9, <2>4, <2>5, <2>6, <2>10 DEF IsChild, keys
  <2>12. Good(loaders, refs, Put([frames EXCEPT ![f] = new], DirectId(f), child), outcome)
    <3>1. Good(loaders, refs, frames, outcome)
      BY DEF IInv
    <3> QED
      BY <3>1, <1>1, <1>2, <2>4, <2>5, <2>8, <2>9, <2>10, <2>11, Descends
  <2> QED
    BY <2>2, <2>3, <2>12 DEF LoadLinks
<1> QED
  BY <1>7, <1>8, <1>9

LEMMA DispatchGood ==
  ASSUME IInv, NEW l \in DOMAIN loaders, Dispatch(l)
  PROVE  Good(loaders', refs', frames', outcome')
<1>1. l \in Loader /\ l.plan \in Plans[l.dao]
  BY DEF IInv, Good, LoadersOk
<1>2. PICK keys \in SUBSET loaders[l].queue :
        /\ keys # {}
        /\ loaders' = [loaders EXCEPT ![l].queue = @ \ keys]
        /\ frames' = Put(frames, BatchId(l, keys), NewFrame(l.dao, l.op, l.plan, l.key, keys, Null))
  BY DEF Dispatch
<1> DEFINE d == l.dao
           op == l.op
           plan == l.plan
           key == l.key
           new == NewFrame(d, op, plan, key, keys, Null)
<1>3. d \in Daos /\ op \in Ops \cup {NoOp} /\ key \in {"id", "ref"} /\ plan \in Plans[d]
  BY <1>1 DEF Loader
<1>4. keys \in SUBSET Keys
  BY <1>2 DEF IInv, Good, LoadersOk, IsLoader
<1>5. IsFrame(new) /\ AwaitInv(new)
  <2> HIDE DEF d, op, plan, key
  <2> QED
    BY <1>3, <1>4, NewFrameFacts
<1>6. /\ new.await = NotAwaiting /\ new.dao = l.dao /\ new.op = l.op /\ new.plan = l.plan
      /\ new.key = l.key /\ new.keys = keys /\ new.limit = Null
  BY DEF NewFrame
<1>7. frames' = Put(frames, BatchId(l, keys), new)
  BY <1>2
<1> HIDE DEF new
<1>8. Good([loaders EXCEPT ![l].queue = @ \ keys], refs, Put(frames, BatchId(l, keys), new), outcome)
  <2>1. Good(loaders, refs, frames, outcome)
    BY DEF IInv
  <2> QED
    BY <2>1, <1>2, <1>5, <1>6, Batches
<1> QED
  BY <1>2, <1>7, <1>8 DEF Dispatch

(* What clearDataLoader takes away has been created for the operation. *)
LEMMA ClearedOf ==
  ASSUME IInv, NEW C, NEW o, NEW S, \A l \in C : \E e : l \in RefsOf(e, o),
         loaders' = Without(loaders, C), refs' = Without(refs, S)
  PROVE  /\ \A l \in C : l.op = o
         /\ DOMAIN loaders' = DOMAIN loaders \ C
         /\ \A l \in DOMAIN loaders' : loaders'[l] = loaders[l]
         /\ DOMAIN refs' \subseteq DOMAIN refs
         /\ \A y \in DOMAIN refs' : refs'[y] = refs[y]
<1>1. \A e : \A l \in RefsOf(e, o) : l.op = o
  BY DEF IInv, Good, RefsOk, RefsOf
<1>2. \A l \in C : l.op = o
  BY <1>1
<1>3. /\ DOMAIN loaders' = DOMAIN loaders \ C
      /\ \A l \in DOMAIN loaders' : loaders'[l] = loaders[l]
      /\ DOMAIN refs' \subseteq DOMAIN refs
      /\ \A y \in DOMAIN refs' : refs'[y] = refs[y]
  BY DEF Without, Restrict
<1> QED
  BY <1>2, <1>3

LEMMA EndGood ==
  ASSUME IInv, NEW N \in Nat, NestedUpTo(N), NEW f \in DOMAIN frames, NEW failed \in BOOLEAN,
         frames[f].pc # "wait", End(f, failed)
  PROVE  Good(loaders', refs', frames', outcome')
<1> DEFINE fr == frames[f]
           rest == Without(frames, {f})
<1>1. FramesOk(frames, outcome) /\ IsFrame(fr) /\ fr.await.keys = {}
  BY FrameOf DEF AwaitInv
<1>2. Good(loaders, refs, frames, outcome)
  BY DEF IInv
<1>3. CASE f.op # Null
  <2>1. PICK o \in Ops : f = RootId(o)
    BY <1>1, <1>3, Kinds DEF IsRoot
  <2>2. f.op = o
    BY <2>1, Ids
  <2> DEFINE D == Cleared(fr.dao, f.op)
             C == IF failed THEN {} ELSE UNION {RefsOf(e, f.op) : e \in D}
             x == IF failed THEN "failed" ELSE "done"
  <2>3. /\ outcome' = [outcome EXCEPT ![f.op] = x]
        /\ frames' = rest
        /\ failed => UNCHANGED <<loaders, refs>>
        /\ ~failed => /\ loaders' = Without(loaders, UNION {RefsOf(e, f.op) : e \in D})
                      /\ refs' = Without(refs, D \X {f.op})
    BY <1>3 DEF End, ClearDataLoader
  <2>4. /\ \A l \in C : l.op = o
        /\ DOMAIN loaders' = DOMAIN loaders \ C
        /\ \A l \in DOMAIN loaders' : loaders'[l] = loaders[l]
        /\ DOMAIN refs' \subseteq DOMAIN refs
        /\ \A y \in DOMAIN refs' : refs'[y] = refs[y]
    <3>1. CASE failed
      BY <3>1, <2>3
    <3>2. CASE ~failed
      <4> DEFINE S == D \X {f.op}
      <4>1. loaders' = Without(loaders, C) /\ refs' = Without(refs, S)
        BY <3>2, <2>3
      <4>2. \A l \in C : \E e : l \in RefsOf(e, o)
        BY <3>2, <2>2
      <4> HIDE DEF C, S
      <4> QED
        BY <4>1, <4>2, ClearedOf
    <3> QED
      BY <3>1, <3>2
  <2>5. C # {} => \A g \in DOMAIN frames \ {RootId(o)} : frames[g].op # o
    BY <1>1, <1>2, <2>1, Alone
  <2>6. /\ outcome' \in [Ops -> {"idle", "running", "done", "failed"}]
        /\ outcome'[o] \in {"done", "failed"} /\ \A p \in Ops : p # o => outcome'[p] = outcome[p]
    <3>1. x \in {"done", "failed"}
      OBVIOUS
    <3> HIDE DEF x
    <3> QED
      BY <1>2, <2>2, <2>3, <3>1 DEF Good
  <2>7. RootId(o) \in DOMAIN frames /\ frames[RootId(o)].await.keys = {}
    BY <1>1, <2>1
  <2>8. Good(loaders', refs', Without(frames, {RootId(o)}), outcome')
    <3> HIDE DEF C
    <3>1. DOMAIN loaders' \subseteq DOMAIN loaders
      BY <2>4
    <3>2. \A l \in DOMAIN loaders \ DOMAIN loaders' :
            l.op = o /\ \A g \in DOMAIN frames \ {RootId(o)} : frames[g].op # o
      <4>1. \A l \in DOMAIN loaders \ DOMAIN loaders' : l \in C
        BY <2>4
      <4> QED
        BY <4>1, <2>4, <2>5
    <3> QED
      BY <1>2, <2>4, <2>6, <2>7, <3>1, <3>2, RootEnds
  <2> QED
    BY <2>1, <2>3, <2>8
<1>4. CASE f.op = Null /\ f.loader # Null
  <2> DEFINE l == f.loader
  <2>1. IsBatch(f, fr)
    BY <1>1, <1>4, Kinds
  <2>2. /\ frames' = Answered(l, f.keys, fr.recs, failed, rest)
        /\ CacheAnswers(l, f.keys, fr.recs, failed)
        /\ UNCHANGED <<refs, outcome>>
    BY <1>4 DEF End
  <2>3. DOMAIN loaders' = DOMAIN loaders /\ \A m \in DOMAIN loaders : m # l => loaders'[m] = loaders[m]
    BY <2>2 DEF CacheAnswers
  <2>4. l \in DOMAIN loaders =>
          /\ IsLoader(loaders'[l]) /\ loaders'[l].queue = loaders[l].queue
          /\ DOMAIN loaders'[l].cache \subseteq DOMAIN loaders[l].cache \cup f.keys
    <3>1. SUFFICES ASSUME l \in DOMAIN loaders
                   PROVE  /\ IsLoader(loaders'[l]) /\ loaders'[l].queue = loaders[l].queue
                          /\ DOMAIN loaders'[l].cache \subseteq DOMAIN loaders[l].cache \cup f.keys
      OBVIOUS
    <3>2. IsLoader(loaders[l])
      BY <3>1, <1>2 DEF Good, LoadersOk
    <3>3. CASE failed
      BY <2>2, <3>2, <3>3 DEF CacheAnswers
    <3>4. CASE ~failed
      <4> DEFINE lo == loaders[l]
                 c == [k \in DOMAIN lo.cache \cup f.keys |->
                         IF k \in f.keys THEN Having(fr.recs, l.key, {k}) ELSE lo.cache[k]]
      <4>1. loaders' = [loaders EXCEPT ![l] = [lo EXCEPT !.cache = c]]
        BY <2>2, <3>1, <3>4 DEF CacheAnswers
      <4>2. DOMAIN c = DOMAIN lo.cache \cup f.keys /\ \A k \in DOMAIN c : c[k] \subseteq Rec
        BY <1>1, <3>2 DEF IsFrame, IsLoader, Having
      <4> HIDE DEF c, lo
      <4>3. loaders'[l] = [lo EXCEPT !.cache = c]
        BY <3>1, <4>1
      <4>4. lo = [cache |-> lo.cache, queue |-> lo.queue] /\ lo.queue \in SUBSET Keys
        BY <3>2 DEF IsLoader, lo
      <4>5. loaders'[l] = [cache |-> c, queue |-> lo.queue]
        BY <4>3, <4>4
      <4> QED
        BY <4>2, <4>4, <4>5 DEF IsLoader, lo
    <3> QED
      BY <3>3, <3>4
  <2>5. Good(loaders', refs, Answered(f.loader, f.keys, frames[f].recs, failed, Without(frames, {f})), outcome)
    BY <1>1, <1>2, <2>1, <2>3, <2>4, BatchEnds
  <2> QED
    BY <2>2, <2>5
<1>5. CASE f.op = Null /\ f.loader = Null
  <2> DEFINE p == f.parent
             new == [frames[p] EXCEPT !.await = [@ EXCEPT !.keys = {}, !.got = fr.recs, !.failed = failed]]
  <2>1. IsDirect(f, fr, frames)
    BY <1>1, <1>5, Kinds
  <2>2. /\ frames' = [rest EXCEPT ![p].await = [@ EXCEPT !.keys = {}, !.got = fr.recs, !.failed = failed]]
        /\ UNCHANGED <<loaders, refs, outcome>>
    BY <1>5 DEF End
  <2>3. p \in DOMAIN frames \ {f} /\ Good(loaders, refs, [rest EXCEPT ![p] = new], outcome)
    BY <1>1, <1>2, <2>1, CallEnds
  <2>4. p \in DOMAIN rest /\ rest[p] = frames[p]
    BY <2>3 DEF Without, Restrict
  <2>5. frames' = [rest EXCEPT ![p] = new]
    <3> HIDE DEF rest
    <3> QED
      BY <2>2, <2>4
  <2> QED
    BY <2>2, <2>3, <2>5
<1> QED
  BY <1>3, <1>4, <1>5

LEMMA WriteGood ==
  ASSUME IInv, Write
  PROVE  history' \in Seq(Database) /\ Len(history') # 0
<1>1. PICK d \in workload.writes \ {Db} : history' = Append(history, d)
  BY DEF Write
<1>2. d \in Database
  BY <1>1, DbFacts DEF IInv
<1> QED
  BY <1>1, <1>2 DEF IInv

LEMMA Primed == Good(loaders', refs', frames', outcome') => Good(loaders, refs, frames, outcome)'
BY DEF Good, FramesOk, LoadersOk, RefsOk, KeysOk, AwaitsOk, IsFrame, AwaitInv, Placed, IsRoot,
       IsBatch, IsDirect, IsChild, IsLoader, Waits, LoaderIn, Reads, NeedsRows, Current, RelationOf,
       UsesLoader, LinkKey, LinkKeys, Having, Attr, Hash

LEMMA NextGood ==
  ASSUME IInv, NEW N \in Nat, NestedUpTo(N), Next
  PROVE  IInv'
<1>1. ASSUME Good(loaders', refs', frames', outcome'), UNCHANGED <<workload, history>>,
             began' \in [Ops -> Nat]
      PROVE  IInv'
  BY <1>1, Primed DEF IInv
<1>2. ASSUME NEW o \in Ops, Begin(o) PROVE IInv'
  <2>1. began' = [began EXCEPT ![o] = Now] /\ Now \in Nat
    BY <1>2, DbFacts DEF Begin, IInv
  <2>2. began' \in [Ops -> Nat]
    BY <2>1 DEF IInv
  <2> QED
    BY <1>1, <1>2, <2>2, BeginGood DEF Begin
<1>3. began \in [Ops -> Nat]
  BY DEF IInv
<1>4. ASSUME NEW f \in DOMAIN frames, Advance(f) \/ Reject(f) PROVE IInv'
  <2>1. CASE Read(f)
    BY <1>1, <1>3, <2>1, ReadGood DEF Read
  <2>2. CASE LoadRows(f)
    BY <1>1, <1>3, <2>2, LoadRowsGood DEF LoadRows
  <2>3. CASE LoadLinks(f)
    BY <1>1, <1>3, <2>3, LoadLinksGood DEF LoadLinks
  <2>4. CASE Resume(f)
    BY <1>1, <1>3, <2>4, ResumeGood DEF Resume
  <2>5. CASE Return(f)
    BY <1>1, <1>3, <2>5, EndGood DEF Return
  <2>6. CASE Throw(f)
    BY <1>1, <1>3, <2>6, EndGood DEF Throw
  <2>7. CASE Reject(f)
    BY <1>1, <1>3, <2>7, RejectGood DEF Reject
  <2> QED
    BY <1>4, <2>1, <2>2, <2>3, <2>4, <2>5, <2>6, <2>7 DEF Advance
<1>5. ASSUME NEW l \in DOMAIN loaders, Dispatch(l) PROVE IInv'
  BY <1>1, <1>3, <1>5, DispatchGood DEF Dispatch
<1>6. CASE Write
  <2>1. Good(loaders', refs', frames', outcome')
    BY <1>6 DEF Write, IInv
  <2> QED
    BY <1>6, <2>1, WriteGood, Primed DEF Write, IInv
<1> QED
  BY <1>2, <1>4, <1>5, <1>6 DEF Next

(* The inductive invariant, for projections nested up to N deep.           *)
THEOREM LoaderInvariant ==
  ASSUME NEW N \in Nat, NestedUpTo(N)
  PROVE  Spec => []IInv
<1>1. IInv /\ [Next]_vars => IInv'
  <2> SUFFICES ASSUME IInv, [Next]_vars PROVE IInv'
    OBVIOUS
  <2>1. CASE Next
    BY <2>1, NextGood
  <2>2. CASE UNCHANGED vars
    <3>1. Good(loaders', refs', frames', outcome')
      BY <2>2 DEF vars, IInv
    <3> QED
      BY <2>2, <3>1, Primed DEF vars, IInv
  <2> QED
    BY <2>1, <2>2
<1> QED
  BY <1>1, StartsGood, PTL DEF Spec

-----------------------------------------------------------------------------
(* What follows of it *)

(* No two finds of a loader read the same key at the same time, and none   *)
(* reads a key that is cached: KeysReadOnce.                               *)
THEOREM KeysAlwaysReadOnce ==
  ASSUME NEW N \in Nat, NestedUpTo(N)
  PROVE  Spec => []KeysReadOnce
<1>1. IInv => KeysReadOnce
  <2> SUFFICES ASSUME IInv, NEW l \in DOMAIN loaders
               PROVE
                 /\ (loaders[l].queue \cup Loading(l)) \cap DOMAIN loaders[l].cache = {}
                 /\ \A f, g \in {h \in DOMAIN frames : h.loader = l} : f # g => f.keys \cap g.keys = {}
    BY DEF KeysReadOnce
  <2>1. l \in Loader /\ loaders[l].queue \in SUBSET Keys /\ LoaderIn(loaders, l) = loaders[l]
    BY DEF IInv, Good, LoadersOk, IsLoader, LoaderIn
  <2>2. KeysOk(loaders, frames) /\ FramesOk(frames, outcome)
    BY DEF IInv, Good
  <2>3. \A f \in DOMAIN frames : f.loader = l => f.keys \in SUBSET Keys
    <3> SUFFICES ASSUME NEW f \in DOMAIN frames, f.loader = l PROVE f.keys \in SUBSET Keys
      OBVIOUS
    <3>1. f.loader # Null
      BY <2>1, Specials
    <3>2. ~IsRoot(f, frames[f], outcome)
      BY <3>1, Ids DEF IsRoot
    <3>3. ~IsDirect(f, frames[f], frames)
      BY <3>1, Ids DEF IsDirect
    <3>4. IsBatch(f, frames[f])
      BY <2>2, <3>2, <3>3 DEF FramesOk, Placed
    <3> QED
      BY <3>4, Ids DEF IsBatch
  <2>4. \A k \in loaders[l].queue : k \notin DOMAIN loaders[l].cache
    BY <2>1, <2>2 DEF KeysOk
  <2>5. \A f \in DOMAIN frames : f.loader = l =>
          \A k \in f.keys : k \notin DOMAIN loaders[l].cache /\ \A g \in Reads(frames, l, k) : g = f
    BY <2>1, <2>2, <2>3 DEF KeysOk, Reads
  <2>6. \A f, g \in DOMAIN frames : f.loader = l /\ g.loader = l /\ f # g => f.keys \cap g.keys = {}
    BY <2>5 DEF Reads
  <2>7. \A k \in Loading(l) : k \notin DOMAIN loaders[l].cache
    BY <2>5 DEF Loading
  <2> QED
    BY <2>4, <2>6, <2>7
<1> QED
  BY <1>1, LoaderInvariant, PTL

(* A key that a frame awaits is queued or being read, and its loader has   *)
(* not been cleared: AwaitedKeysPending.                                   *)
THEOREM AwaitedAlwaysPending ==
  ASSUME NEW N \in Nat, NestedUpTo(N)
  PROVE  Spec => []AwaitedKeysPending
<1>1. IInv => AwaitedKeysPending
  <2> SUFFICES ASSUME IInv, NEW f \in DOMAIN frames, frames[f].await.loader # Null
               PROVE
                 LET await == frames[f].await IN
                 /\ await.loader \in DOMAIN loaders
                 /\ await.keys \subseteq LoaderOf(await.loader).queue \cup Loading(await.loader)
    BY DEF AwaitedKeysPending
  <2> DEFINE m == frames[f].await.loader
  <2>1. m \in DOMAIN loaders /\ \A k \in frames[f].await.keys : k \in loaders[m].queue \/ Reads(frames, m, k) # {}
    BY DEF IInv, Good, AwaitsOk
  <2>2. \A k : Reads(frames, m, k) # {} => k \in Loading(m)
    BY DEF Reads, Loading
  <2> QED
    BY <2>1, <2>2 DEF LoaderOf
<1> QED
  BY <1>1, LoaderInvariant, PTL

(* Only the end of its own operation clears a loader: ClearIsolated.       *)
THEOREM ClearingIsolated ==
  ASSUME NEW N \in Nat, NestedUpTo(N)
  PROVE  Spec => ClearIsolated
<1> DEFINE Own == \A l \in DOMAIN loaders \ DOMAIN loaders' :
                    l.op \in Ops /\ outcome[l.op] = "running" /\ outcome'[l.op] = "done"
<1>1. IInv /\ [Next]_vars => [Own]_vars
  <2> SUFFICES ASSUME IInv, Next PROVE Own
    OBVIOUS
  <2>1. ASSUME DOMAIN loaders \subseteq DOMAIN loaders' PROVE Own
    BY <2>1
  <2>2. ASSUME NEW f, NEW r, NEW l, NEW keys, LoadAll(f, r, l, keys) PROVE Own
    BY <2>1, <2>2 DEF LoadAll, Put
  <2>3. ASSUME NEW f \in DOMAIN frames, NEW failed \in BOOLEAN, End(f, failed), frames[f].pc # "wait" PROVE Own
    <3>1. CASE f.op # Null /\ ~failed
      <4> DEFINE C == UNION {RefsOf(e, f.op) : e \in Cleared(frames[f].dao, f.op)}
                 S == Cleared(frames[f].dao, f.op) \X {f.op}
      <4>1. PICK o \in Ops : f = RootId(o) /\ outcome[o] = "running"
        BY <3>1, FrameOf, Kinds DEF IsRoot
      <4>2. f.op = o
        BY <4>1, Ids
      <4>3. outcome' = [outcome EXCEPT ![f.op] = "done"] /\ loaders' = Without(loaders, C) /\ refs' = Without(refs, S)
        BY <2>3, <3>1 DEF End, ClearDataLoader
      <4>4. \A l \in C : \E e : l \in RefsOf(e, o)
        BY <4>2
      <4> HIDE DEF C, S
      <4>5. \A l \in C : l.op = o
        BY <4>3, <4>4, ClearedOf
      <4>6. DOMAIN loaders' = DOMAIN loaders \ C
        BY <4>3, <4>4, ClearedOf
      <4>7. outcome'[o] = "done"
        BY <4>2, <4>3 DEF IInv, Good
      <4> QED
        BY <4>1, <4>5, <4>6, <4>7
    <3>2. CASE f.op # Null /\ failed
      BY <2>1, <2>3, <3>2 DEF End
    <3>3. CASE f.op = Null /\ f.loader # Null
      BY <2>1, <2>3, <3>3 DEF End, CacheAnswers
    <3>4. CASE f.op = Null /\ f.loader = Null
      BY <2>1, <2>3, <3>4 DEF End
    <3> QED
      BY <3>1, <3>2, <3>3, <3>4
  <2>4. ASSUME NEW o \in Ops, Begin(o) PROVE Own
    BY <2>1, <2>4 DEF Begin
  <2>5. ASSUME NEW f \in DOMAIN frames, Advance(f) \/ Reject(f) PROVE Own
    <3>1. CASE Read(f) \/ Reject(f)
      BY <2>1, <3>1 DEF Read, Reject
    <3>2. CASE LoadRows(f)
      BY <2>2, <3>2 DEF LoadRows
    <3>3. CASE LoadLinks(f)
      BY <2>1, <2>2, <3>3 DEF LoadLinks, FindDirectly
    <3>4. CASE Resume(f)
      BY <2>1, <3>4 DEF Resume
    <3>5. CASE Return(f)
      BY <2>3, <3>5 DEF Return
    <3>6. CASE Throw(f)
      BY <2>3, <3>6 DEF Throw
    <3> QED
      BY <2>5, <3>1, <3>2, <3>3, <3>4, <3>5, <3>6 DEF Advance
  <2>6. ASSUME NEW l \in DOMAIN loaders, Dispatch(l) PROVE Own
    BY <2>1, <2>6 DEF Dispatch
  <2>7. CASE Write
    BY <2>1, <2>7 DEF Write
  <2> QED
    BY <2>4, <2>5, <2>6, <2>7 DEF Next
<1> QED
  BY <1>1, LoaderInvariant, PTL DEF Spec, ClearIsolated

-----------------------------------------------------------------------------
(* What the records of finds, the answers of loaders and the links of      *)
(* frames have to do with the database.                                    *)

(* got answers a find that selects the records found and has a limit. *)
Limited(got, found, limit) ==
  /\ got \subseteq found
  /\ Cardinality(got) = limit \/ (got = found /\ Cardinality(got) < limit)

Complete(got, found, limit, full) ==
  IF limit = Null THEN Partly(got, found, full) ELSE Limited(got, found, limit)

(* What a driver that pages does not cut: as few ids as a page holds.      *)
Whole(fr) == ~workload.driverPages \/ (fr.key = "id" /\ fr.dao \in Referred /\ Cardinality(fr.keys) <= PageSize)

(* The keys by which a relation of record r is found, if it has no rows. *)
Plain(d, i) == Relations[d][i].kind \in {"inner", "foreign"}
KeysOf(d, i, r) == LinkKeys(Relations[d][i], r, {})
Found(db, d, i, K) == Having(db[Relations[d][i].dao], LinkKey(Relations[d][i]), K)
Linked(got, d, i, K) == Having(got, LinkKey(Relations[d][i]), K)

(* got answers for key k of a relation. *)
Finds(got, db, d, i, k) ==
  Partly(got, Found(db, d, i, {k}), InFull(Relations[d][i].dao, LinkKey(Relations[d][i])))

LinkFresh(S, d, plan, i, r, got) ==
  IF plan[i].limit = Null
  THEN /\ got = Linked(got, d, i, KeysOf(d, i, r))
       /\ \A k \in KeysOf(d, i, r) : \E db \in S : Finds(Linked(got, d, i, {k}), db, d, i, k)
  ELSE \E db \in S : Limited(got, Found(db, d, i, KeysOf(d, i, r)), plan[i].limit)

RecsFresh(S, fr) ==
  fr.pc \in {"resolve", "wait"} =>
    \E db \in S : Complete(fr.recs, Having(db[fr.dao], fr.key, fr.keys), fr.limit, Whole(fr))

(* Of the keys a frame has asked a loader for, those that it awaits have   *)
(* no answer, the others one that was current at some time.                *)
GotByKey(S, got, waiting, d, i, K) ==
  /\ got = Linked(got, d, i, K)
  /\ \A k \in K : IF k \in waiting THEN Linked(got, d, i, {k}) = {}
                  ELSE \E db \in S : Finds(Linked(got, d, i, {k}), db, d, i, k)

GotFresh(S, fr) ==
  LET i == Current(fr)
      K == KeysOf(fr.dao, i, fr.at)
  IN
  fr.pc = "wait" /\ Plain(fr.dao, i) /\ ~fr.await.failed =>
    IF UsesLoader(fr.plan, i) THEN GotByKey(S, fr.await.got, fr.await.keys, fr.dao, i, K)
    ELSE fr.await.keys = {} =>
           \E db \in S : Limited(fr.await.got, Found(db, fr.dao, i, K), fr.plan[i].limit)

LinksFresh(S, fr) ==
  \A link \in fr.links : Plain(fr.dao, link.rel) => LinkFresh(S, fr.dao, fr.plan, link.rel, link.rec, link.got)

FrameFresh(S, fr) ==
  /\ fr.op = NoOp => fr.plan = RowPlan /\ fr.links = {}
  /\ RecsFresh(S, fr) /\ GotFresh(S, fr) /\ LinksFresh(S, fr)

LoaderFresh(S, l, loader) ==
  /\ l.op = NoOp => l.plan = RowPlan
  /\ \A k \in DOMAIN loader.cache :
       \E db \in S : Partly(loader.cache[k], Having(db[l.dao], l.key, {k}), InFull(l.dao, l.key))

(* The states of the database since operation op began. *)
States(H, beg, op) == {H[v] : v \in {w \in 1..Len(H) : op # NoOp => beg[op] <= w}}

AllFresh(H, beg, L, F) ==
  /\ \A f \in DOMAIN F : FrameFresh(States(H, beg, F[f].op), F[f])
  /\ \A l \in DOMAIN L : LoaderFresh(States(H, beg, l.op), l, L[l])

(* Ids are unique at all times, and no batch asks for more than a page of  *)
(* them.                                                                   *)
IdsOk(H) == \A v \in 1..Len(H) : UniqueIds(H[v])
BatchesOk(F) == \A f \in DOMAIN F : f.loader # Null => Cardinality(f.keys) <= PageSize

Fresh ==
  /\ \A o \in Ops : began[o] <= Now
  /\ IdsOk(history) /\ BatchesOk(frames)
  /\ AllFresh(history, began, loaders, frames)

(* As time goes on, what was current at some time remains so. *)
LEMMA Later ==
  ASSUME NEW S, NEW T, S \subseteq T
  PROVE  /\ \A fr : FrameFresh(S, fr) => FrameFresh(T, fr)
         /\ \A l, lo : LoaderFresh(S, l, lo) => LoaderFresh(T, l, lo)
<1>1. \A fr : RecsFresh(S, fr) => RecsFresh(T, fr)
  BY DEF RecsFresh
<1>2. \A got, waiting, d, i, K : GotByKey(S, got, waiting, d, i, K) => GotByKey(T, got, waiting, d, i, K)
  BY DEF GotByKey
<1>3. \A fr : GotFresh(S, fr) => GotFresh(T, fr)
  BY <1>2 DEF GotFresh
<1>4. \A d, plan, i, r, got : LinkFresh(S, d, plan, i, r, got) => LinkFresh(T, d, plan, i, r, got)
  BY DEF LinkFresh
<1>5. \A fr : LinksFresh(S, fr) => LinksFresh(T, fr)
  BY <1>4 DEF LinksFresh
<1> QED
  BY <1>1, <1>3, <1>5 DEF FrameFresh, LoaderFresh

(* Answers for different keys do not mix: a record has one id, and a       *)
(* record's own id is the only key when others refer to it.                *)
LEMMA OneKey ==
  ASSUME NEW d, NEW i, Relations[d][i] \in Relation, Plain(d, i), NEW r, NEW rec,
         NEW k \in KeysOf(d, i, r), NEW m \in KeysOf(d, i, r),
         k \in Attr(rec, LinkKey(Relations[d][i])), m \in Attr(rec, LinkKey(Relations[d][i]))
  PROVE  k = m
<1>1. CASE Relations[d][i].kind = "inner"
  BY <1>1 DEF LinkKey, Attr
<1>2. CASE Relations[d][i].kind = "foreign"
  BY <1>2 DEF KeysOf, LinkKeys
<1> QED
  BY <1>1, <1>2 DEF Plain

LEMMA HavingMember ==
  ASSUME NEW S, NEW key, NEW K, NEW r
  PROVE  r \in Having(S, key, K) <=> r \in S /\ \E k \in K : k \in Attr(r, key)
BY DEF Having

(* A batch answers some of the keys that a frame awaits. *)
LEMMA Gathers ==
  ASSUME NEW S, NEW got, NEW waiting, NEW d, NEW i, NEW r,
         Relations[d][i] \in Relation, Plain(d, i),
         GotByKey(S, got, waiting, d, i, KeysOf(d, i, r)),
         NEW A, A \subseteq KeysOf(d, i, r), A \subseteq waiting, NEW recs,
         \A k \in A : \E db \in S : Finds(Linked(recs, d, i, {k}), db, d, i, k)
  PROVE  GotByKey(S, got \cup Linked(recs, d, i, A), waiting \ A, d, i, KeysOf(d, i, r))
<1> DEFINE K == KeysOf(d, i, r)
           key == LinkKey(Relations[d][i])
           new == got \cup Linked(recs, d, i, A)
           Has(rec, k) == k \in Attr(rec, key)
<1>1. \A B, T, x : x \in Linked(T, d, i, B) <=> x \in T /\ \E k \in B : Has(x, k)
  BY HavingMember DEF Linked
<1>2. \A rec : \A k, m \in K : Has(rec, k) /\ Has(rec, m) => k = m
  BY OneKey
<1>3. got = Linked(got, d, i, K)
      /\ \A k \in K : IF k \in waiting THEN Linked(got, d, i, {k}) = {}
                      ELSE \E db \in S : Finds(Linked(got, d, i, {k}), db, d, i, k)
  BY DEF GotByKey
<1> HIDE DEF K, key, Has
<1>4. A \subseteq K
  BY DEF K
<1>5. new = Linked(new, d, i, K)
  <2>1. \A x \in new : \E k \in K : Has(x, k)
    BY <1>1, <1>3, <1>4
  <2> HIDE DEF new
  <2>2. \A x : x \in new <=> x \in Linked(new, d, i, K)
    BY <2>1, <1>1
  <2> QED
    BY <2>2
<1>6. ASSUME NEW k \in K, k \notin A PROVE Linked(new, d, i, {k}) = Linked(got, d, i, {k})
  <2>1. \A x \in Linked(recs, d, i, A) : ~Has(x, k)
    BY <1>1, <1>2, <1>4, <1>6
  <2>2. \A x : x \in Linked(new, d, i, {k}) <=> x \in Linked(got, d, i, {k})
    BY <1>1, <2>1
  <2> HIDE DEF new
  <2> QED
    BY <2>2, <1>1
<1>7. ASSUME NEW k \in A PROVE Linked(new, d, i, {k}) = Linked(recs, d, i, {k})
  <2>1. \A x \in got : ~Has(x, k)
    BY <1>1, <1>3, <1>4
  <2>2. \A x : x \in Linked(new, d, i, {k}) <=> x \in Linked(recs, d, i, {k})
    BY <1>1, <2>1
  <2> HIDE DEF new
  <2> QED
    BY <2>2, <1>1
<1> HIDE DEF new
<1>8. \A k \in K : IF k \in waiting \ A THEN Linked(new, d, i, {k}) = {}
                   ELSE \E db \in S : Finds(Linked(new, d, i, {k}), db, d, i, k)
  BY <1>3, <1>6, <1>7
<1> QED
  BY <1>5, <1>8 DEF GotByKey, K, new

(* Cached answers are put together.                                        *)
LEMMA CachedGathers ==
  ASSUME NEW S, NEW d, NEW i, NEW r, Relations[d][i] \in Relation, Plain(d, i),
         NEW cached, cached \subseteq KeysOf(d, i, r), NEW cache,
         \A k \in cached : \E db \in S : Finds(cache[k], db, d, i, k),
         NEW got, \A x : x \in got <=> \E k \in cached : x \in cache[k],
         NEW waiting, \A k \in KeysOf(d, i, r) : k \in waiting <=> k \notin cached
  PROVE  GotByKey(S, got, waiting, d, i, KeysOf(d, i, r))
<1> DEFINE K == KeysOf(d, i, r)
           key == LinkKey(Relations[d][i])
           Has(rec, k) == k \in Attr(rec, key)
<1>1. \A B, T, x : x \in Linked(T, d, i, B) <=> x \in T /\ \E k \in B : Has(x, k)
  BY HavingMember DEF Linked
<1>2. \A rec : \A k, m \in K : Has(rec, k) /\ Has(rec, m) => k = m
  BY OneKey
<1>3. ASSUME NEW k \in cached, NEW x \in cache[k] PROVE Has(x, k)
  <2>1. PICK db \in S : cache[k] \subseteq Having(db[Relations[d][i].dao], key, {k})
    BY DEF Finds, Partly, Found
  <2> QED
    BY <2>1, HavingMember
<1>4. \A x : x \in got <=> \E k \in cached : x \in cache[k]
  OBVIOUS
<1>5. cached \subseteq K
  OBVIOUS
<1> HIDE DEF K, key, Has
<1>6. \A x : x \in got <=> x \in Linked(got, d, i, K)
  BY <1>1, <1>3, <1>4, <1>5
<1>7. ASSUME NEW k \in cached PROVE \E db \in S : Finds(Linked(got, d, i, {k}), db, d, i, k)
  <2>1. \A x : x \in Linked(got, d, i, {k}) => x \in cache[k]
    BY <1>1, <1>2, <1>3, <1>4, <1>5
  <2>2. \A x : x \in cache[k] => x \in Linked(got, d, i, {k})
    BY <1>1, <1>3, <1>4
  <2>3. PICK db \in S : Finds(cache[k], db, d, i, k)
    OBVIOUS
  <2>4. Finds(Linked(got, d, i, {k}), db, d, i, k)
    BY <2>1, <2>2, <2>3 DEF Finds, Partly
  <2> QED
    BY <2>4
<1>8. ASSUME NEW k \in K, k \notin cached PROVE Linked(got, d, i, {k}) = {}
  <2>1. \A x : x \notin Linked(got, d, i, {k})
    BY <1>1, <1>2, <1>3, <1>4, <1>5, <1>8
  <2> QED
    BY <2>1
<1>9. \A k \in K : IF k \in waiting THEN Linked(got, d, i, {k}) = {}
                   ELSE \E db \in S : Finds(Linked(got, d, i, {k}), db, d, i, k)
  BY <1>7, <1>8 DEF K
<1>10. got = Linked(got, d, i, K)
  BY <1>6
<1> QED
  BY <1>9, <1>10 DEF GotByKey, K

(* What a frame was told stays true as it moves on.                        *)
LEMMA Kept ==
  ASSUME NEW S, NEW fr, NEW new, FrameFresh(S, fr), Same(fr, new), new.links = fr.links,
         RecsFresh(S, new), GotFresh(S, new)
  PROVE  FrameFresh(S, new)
BY DEF FrameFresh, LinksFresh, Same

LEMMA OneFrame ==
  ASSUME NEW H, NEW beg, NEW L, NEW F, AllFresh(H, beg, L, F), NEW f \in DOMAIN F, NEW new,
         FrameFresh(States(H, beg, new.op), new)
  PROVE  AllFresh(H, beg, L, [F EXCEPT ![f] = new])
BY DEF AllFresh

LEMMA AddedFrame ==
  ASSUME NEW H, NEW beg, NEW L, NEW F, AllFresh(H, beg, L, F), NEW f, NEW new,
         FrameFresh(States(H, beg, new.op), new)
  PROVE  AllFresh(H, beg, L, Put(F, f, new))
BY DEF AllFresh, Put

LEMMA FreshOf ==
  ASSUME Fresh, NEW f \in DOMAIN frames
  PROVE  FrameFresh(States(history, began, frames[f].op), frames[f])
BY DEF Fresh, AllFresh

(* The present is a state since any operation began.                       *)
LEMMA Present ==
  ASSUME IInv, Fresh, NEW op \in Ops \cup {NoOp}
  PROVE  Db \in States(history, began, op)
<1>1. Now \in 1..Len(history)
  BY DbFacts DEF IInv
<1>2. op # NoOp => began[op] <= Now
  BY DEF Fresh
<1> QED
  BY <1>1, <1>2 DEF States, Db

(* A find that resolves relations has an operation.                        *)
LEMMA HasOperation ==
  ASSUME NEW S, NEW fr, IsFrame(fr), FrameFresh(S, fr), fr.todo # {}
  PROVE  fr.op \in Ops
<1>1. Current(fr) \in DOMAIN fr.plan
  BY CurrentFacts
<1>2. fr.plan # RowPlan
  BY <1>1 DEF RowPlan
<1> QED
  BY <1>2 DEF FrameFresh, IsFrame

LEMMA RecFinite == IsFiniteSet(Keys) => IsFiniteSet(Rec)
<1> SUFFICES ASSUME IsFiniteSet(Keys) PROVE IsFiniteSet(Rec)
  OBVIOUS
<1> DEFINE P == Keys \X SUBSET Keys
           g == [p \in P |-> [id |-> p[1], refs |-> p[2]]]
<1>1. IsFiniteSet(P)
  BY FS_SUBSET, FS_Product
<1>2. g \in [P -> Rec]
  BY DEF Rec
<1>3. \A r \in Rec : \E p \in P : g[p] = r
  <2> SUFFICES ASSUME NEW r \in Rec PROVE \E p \in P : g[p] = r
    OBVIOUS
  <2>1. r.id \in Keys /\ r.refs \in SUBSET Keys /\ r = [id |-> r.id, refs |-> r.refs]
    BY DEF Rec
  <2>2. <<r.id, r.refs>> \in P
    BY <2>1
  <2>3. g[<<r.id, r.refs>>] = [id |-> r.id, refs |-> r.refs]
    BY <2>2
  <2> QED
    BY <2>1, <2>2, <2>3
<1>4. g \in Surjection(P, Rec)
  <2> HIDE DEF P, g
  <2> QED
    BY <1>2, <1>3 DEF Surjection
<1> QED
  BY <1>1, <1>4, FS_Surjection

(* Records with ids of their own are no more than the ids asked for.       *)
LEMMA FewByIds ==
  ASSUME NEW db, UniqueIds(db), NEW d \in Referred, NEW keys \in SUBSET Keys, IsFiniteSet(Keys)
  PROVE  /\ Cardinality(Having(db[d], "id", keys)) <= Cardinality(keys)
         /\ Cardinality(keys) \in Nat
<1> DEFINE found == Having(db[d], "id", keys)
           idOf == [r \in found |-> r.id]
<1>1. IsFiniteSet(keys) /\ Cardinality(keys) \in Nat
  BY FS_Subset, FS_CardinalityType
<1>2. \A r \in found : r.id \in keys
  BY DEF Having, Attr
<1>3. \A r, q \in found : idOf[r] = idOf[q] => r = q
  BY DEF UniqueIds, Having
<1>4. idOf \in Injection(found, keys)
  <2> HIDE DEF found
  <2> QED
    BY <1>2, <1>3 DEF Injection, IsInjective
<1> HIDE DEF found, idOf
<1> QED
  BY <1>1, <1>4, FS_Injection DEF found

(* The steps *)

LEMMA ReadFresh ==
  ASSUME IInv, Fresh, IsFiniteSet(Keys), NEW f \in DOMAIN frames, Read(f)
  PROVE  AllFresh(history, began, loaders', frames')
<1> DEFINE fr == frames[f]
           S == States(history, began, fr.op)
           found == Having(Db[fr.dao], fr.key, fr.keys)
<1>1. IsFrame(fr) /\ FrameFresh(S, fr) /\ AllFresh(history, began, loaders, frames)
  BY FrameOf, FreshOf DEF Fresh
<1>2. PICK recs \in Answers(fr) :
        frames' = [frames EXCEPT ![f].pc = "resolve", ![f].recs = recs,
                                 ![f].todo = (DOMAIN fr.plan) \X recs]
  BY DEF Read
<1> DEFINE new == [fr EXCEPT !.pc = "resolve", !.recs = recs, !.todo = (DOMAIN fr.plan) \X recs]
<1>3. frames' = [frames EXCEPT ![f] = new]
  BY <1>2
<1>4. Complete(recs, found, fr.limit, Whole(fr))
  <2>1. fr.limit \in Nat \cup {Null} /\ Page(fr) \in Nat \cup {Null}
    BY <1>1, LoaderAssumption DEF Page, IsFrame
  <2>2. Cardinality(found) \in Nat
    <3>1. Db[fr.dao] \subseteq Rec
      BY <1>1, DbFacts DEF Db, IInv, IsFrame
    <3>2. found \in SUBSET Rec
      BY <3>1 DEF Having
    <3> HIDE DEF found
    <3> QED
      BY <3>2, RecFinite, FS_Subset, FS_CardinalityType
  <2>3. recs \in IF Page(fr) = Null \/ Cardinality(found) <= Page(fr) THEN {found}
                 ELSE {T \in SUBSET found : Cardinality(T) = Page(fr)}
    BY <1>2 DEF Answers
  <2>4. CASE fr.limit = Null
    <3>1. recs \subseteq found
      BY <2>3
    <3>2. ASSUME Whole(fr) PROVE recs = found
      <4>1. CASE ~workload.driverPages
        BY <2>3, <2>4, <4>1 DEF Page
      <4>2. CASE workload.driverPages
        <5>1. Page(fr) = PageSize /\ PageSize \in Nat
          BY <2>4, <4>2, LoaderAssumption DEF Page
        <5>2. fr.key = "id" /\ fr.dao \in Referred /\ Cardinality(fr.keys) <= PageSize
          BY <3>2, <4>2 DEF Whole
        <5>3. UniqueIds(Db) /\ fr.keys \in SUBSET Keys
          BY <1>1, DbFacts DEF Fresh, IdsOk, Db, IInv, IsFrame
        <5>4. Cardinality(found) <= Cardinality(fr.keys) /\ Cardinality(fr.keys) \in Nat
          BY <5>2, <5>3, FewByIds
        <5>5. Cardinality(found) <= PageSize
          <6> HIDE DEF found
          <6> QED
            BY <2>2, <5>1, <5>2, <5>4
        <5> QED
          BY <2>3, <5>1, <5>5
      <4> QED
        BY <4>1, <4>2
    <3> QED
      BY <2>4, <3>1, <3>2 DEF Complete, Partly
  <2>5. CASE fr.limit # Null
    <3>1. Page(fr) = fr.limit
      BY <2>5 DEF Page
    <3> HIDE DEF found
    <3>2. CASE Cardinality(found) <= fr.limit
      <4>1. recs = found
        BY <2>3, <3>1, <3>2
      <4>2. Cardinality(found) = fr.limit \/ Cardinality(found) < fr.limit
        BY <2>1, <2>2, <2>5, <3>2
      <4> QED
        BY <2>5, <4>1, <4>2 DEF Complete, Limited
    <3>3. CASE ~(Cardinality(found) <= fr.limit)
      BY <2>3, <2>5, <3>1, <3>3 DEF Complete, Limited
    <3> QED
      BY <3>2, <3>3
  <2> QED
    BY <2>4, <2>5
<1>5. /\ Same(fr, new) /\ new.links = fr.links /\ new.pc = "resolve" /\ new.recs = recs
  <2> HIDE DEF fr
  <2> QED
    BY <1>1 DEF IsFrame, Same
<1>6. Db \in S
  BY <1>1, Present DEF IsFrame
<1> HIDE DEF new, S
<1>7. RecsFresh(S, new) /\ GotFresh(S, new)
  BY <1>4, <1>5, <1>6 DEF RecsFresh, Whole, GotFresh, Same
<1>8. FrameFresh(S, new) /\ new.op = fr.op
  BY <1>1, <1>5, <1>7, Kept DEF Same
<1>9. AllFresh(history, began, loaders, [frames EXCEPT ![f] = new])
  BY <1>1, <1>8, OneFrame DEF S
<1> QED
  BY <1>3, <1>9 DEF Read

LEMMA RejectFresh ==
  ASSUME IInv, Fresh, NEW f \in DOMAIN frames, Reject(f)
  PROVE  AllFresh(history, began, loaders', frames')
<1> DEFINE fr == frames[f]
           S == States(history, began, fr.op)
           new == [fr EXCEPT !.pc = "throw"]
<1>1. IsFrame(fr) /\ FrameFresh(S, fr) /\ AllFresh(history, began, loaders, frames)
  BY FrameOf, FreshOf DEF Fresh
<1>2. frames' = [frames EXCEPT ![f] = new]
  BY DEF Reject
<1>3. Same(fr, new) /\ new.links = fr.links /\ new.pc = "throw"
  <2> HIDE DEF fr
  <2> QED
    BY <1>1 DEF IsFrame, Same
<1> HIDE DEF new, S
<1>4. FrameFresh(S, new) /\ new.op = fr.op
  BY <1>1, <1>3, Kept DEF Same, RecsFresh, GotFresh
<1>5. AllFresh(history, began, loaders, [frames EXCEPT ![f] = new])
  BY <1>1, <1>4, OneFrame DEF S
<1> QED
  BY <1>2, <1>5 DEF Reject

LEMMA SetResultFresh ==
  ASSUME IInv, Fresh, NEW f \in DOMAIN frames, NEW r, NEW got, SetResult(f, r, got),
         frames[f].pc \in {"resolve", "wait"}, frames[f].todo # {},
         LET fr == frames[f]
             i == Current(fr)
         IN
         Plain(fr.dao, i) =>
           LinkFresh(States(history, began, fr.op), fr.dao, fr.plan, i, r, got)
  PROVE  AllFresh(history, began, loaders, frames')
<1> DEFINE fr == frames[f]
           i == Current(fr)
           S == States(history, began, fr.op)
           next == IF RelationOf(fr, i).required /\ got = {} THEN "throw" ELSE "resolve"
           link == [rel |-> i, rec |-> r, got |-> got]
           new == [fr EXCEPT
             !.pc = next, !.todo = @ \ {<<i, r>>}, !.links = @ \cup {link},
             !.at = Null,
             !.await = NotAwaiting]
<1>1. IsFrame(fr) /\ FrameFresh(S, fr) /\ AllFresh(history, began, loaders, frames)
  BY FrameOf, FreshOf DEF Fresh
<1>2. frames' = [frames EXCEPT ![f] = new]
  BY DEF SetResult
<1>3. /\ Same(fr, new) /\ new.pc \in {"throw", "resolve"} /\ new.recs = fr.recs
      /\ new.links = fr.links \cup {link}
  <2>1. next \in {"throw", "resolve"}
    OBVIOUS
  <2> HIDE DEF fr, i, next, link
  <2> QED
    BY <1>1, <2>1 DEF IsFrame, Same
<1>4. fr.op \in Ops
  BY <1>1, HasOperation
<1>5. Plain(fr.dao, link.rel) => LinkFresh(S, fr.dao, fr.plan, link.rel, link.rec, link.got)
  OBVIOUS
<1> HIDE DEF new, S, link
<1>6. LinksFresh(S, new)
  <2>1. \A m \in new.links : m \in fr.links \/ m = link
    BY <1>3
  <2>2. new.dao = fr.dao /\ new.plan = fr.plan
    BY <1>3 DEF Same
  <2>3. \A m \in new.links : Plain(fr.dao, m.rel) => LinkFresh(S, fr.dao, fr.plan, m.rel, m.rec, m.got)
    BY <1>1, <1>5, <2>1 DEF FrameFresh, LinksFresh
  <2> QED
    BY <2>2, <2>3 DEF LinksFresh
<1>7. FrameFresh(S, new) /\ new.op = fr.op
  <2>1. new.op = fr.op /\ new.op # NoOp
    BY <1>3, <1>4, Specials DEF Same
  <2>2. RecsFresh(S, new) /\ GotFresh(S, new)
    BY <1>1, <1>3 DEF FrameFresh, RecsFresh, Whole, GotFresh, Same
  <2> QED
    BY <1>6, <2>1, <2>2 DEF FrameFresh
<1>8. AllFresh(history, began, loaders, [frames EXCEPT ![f] = new])
  BY <1>1, <1>7, OneFrame DEF S
<1> QED
  BY <1>2, <1>8

LEMMA ResumeFresh ==
  ASSUME IInv, Fresh, NEW f \in DOMAIN frames, Resume(f)
  PROVE  AllFresh(history, began, loaders', frames')
<1> DEFINE fr == frames[f]
           S == States(history, began, fr.op)
<1>1. IsFrame(fr) /\ FrameFresh(S, fr) /\ AllFresh(history, began, loaders, frames)
  BY FrameOf, FreshOf DEF Fresh
<1>2. fr.pc = "wait" /\ fr.await.keys = {} /\ fr.todo # {} /\ UNCHANGED loaders
  BY FrameOf DEF Resume, AwaitInv, Waits
<1>3. CASE fr.await.failed
  <2> DEFINE new == [fr EXCEPT !.pc = "throw"]
  <2>1. frames' = [frames EXCEPT ![f] = new]
    BY <1>3 DEF Resume
  <2>2. Same(fr, new) /\ new.links = fr.links /\ new.pc = "throw"
    <3> HIDE DEF fr
    <3> QED
      BY <1>1 DEF IsFrame, Same
  <2> HIDE DEF new, S
  <2>3. FrameFresh(S, new) /\ new.op = fr.op
    BY <1>1, <2>2, Kept DEF Same, RecsFresh, GotFresh
  <2>4. AllFresh(history, began, loaders, [frames EXCEPT ![f] = new])
    BY <1>1, <2>3, OneFrame DEF S
  <2> QED
    BY <1>2, <2>1, <2>4
<1>4. CASE ~fr.await.failed /\ NeedsRows(fr)
  <2> DEFINE j == fr.joined \cup {Current(fr)}
             new == [fr EXCEPT !.pc = "resolve", !.joined = j,
                               !.rows = fr.await.got, !.await = NotAwaiting]
  <2>1. frames' = [frames EXCEPT ![f] = new]
    BY <1>4 DEF Resume
  <2>2. Same(fr, new) /\ new.links = fr.links /\ new.pc = "resolve" /\ new.recs = fr.recs
    <3> HIDE DEF fr, j
    <3> QED
      BY <1>1 DEF IsFrame, Same
  <2> HIDE DEF new, S
  <2>3. RecsFresh(S, new) /\ GotFresh(S, new)
    BY <1>1, <1>2, <2>2 DEF FrameFresh, Same, RecsFresh, Whole, GotFresh
  <2>4. FrameFresh(S, new) /\ new.op = fr.op
    BY <1>1, <2>2, <2>3, Kept DEF Same
  <2>5. AllFresh(history, began, loaders, [frames EXCEPT ![f] = new])
    BY <1>1, <2>4, OneFrame DEF S
  <2> QED
    BY <1>2, <2>1, <2>5
<1>5. CASE ~fr.await.failed /\ ~NeedsRows(fr)
  <2> DEFINE i == Current(fr)
             K == KeysOf(fr.dao, i, fr.at)
  <2>1. SetResult(f, fr.at, fr.await.got)
    BY <1>5 DEF Resume
  <2>2. Plain(fr.dao, i) => LinkFresh(S, fr.dao, fr.plan, i, fr.at, fr.await.got)
    <3>1. SUFFICES ASSUME Plain(fr.dao, i) PROVE LinkFresh(S, fr.dao, fr.plan, i, fr.at, fr.await.got)
      OBVIOUS
    <3> HIDE DEF S
    <3>2. IF UsesLoader(fr.plan, i) THEN GotByKey(S, fr.await.got, fr.await.keys, fr.dao, i, K)
          ELSE \E db \in S : Limited(fr.await.got, Found(db, fr.dao, i, K), fr.plan[i].limit)
      BY <1>1, <1>2, <1>5, <3>1 DEF FrameFresh, GotFresh
    <3>3. CASE UsesLoader(fr.plan, i)
      BY <1>2, <3>2, <3>3 DEF GotByKey, LinkFresh, UsesLoader
    <3>4. CASE ~UsesLoader(fr.plan, i)
      BY <3>2, <3>4 DEF LinkFresh, UsesLoader
    <3> QED
      BY <3>3, <3>4
  <2>3. AllFresh(history, began, loaders, frames')
    BY <1>2, <2>1, <2>2, SetResultFresh
  <2> QED
    BY <1>2, <2>3
<1> QED
  BY <1>3, <1>4, <1>5

LEMMA LoadAllFresh ==
  ASSUME IInv, Fresh, NEW f \in DOMAIN frames, NEW r, NEW l \in Loader, NEW keys, LoadAll(f, r, l, keys),
         l.op = NoOp => l.plan = RowPlan,
         frames[f].pc = "resolve",
         LET fr == frames[f]
             i == Current(fr)
             rel == Relations[fr.dao][i]
         IN
         Plain(fr.dao, i) =>
           /\ rel \in Relation /\ keys = KeysOf(fr.dao, i, r) /\ UsesLoader(fr.plan, i)
           /\ l.dao = rel.dao /\ l.op = fr.op /\ l.key = LinkKey(rel)
  PROVE  AllFresh(history, began, loaders', frames')
<1> DEFINE fr == frames[f]
           i == Current(fr)
           S == States(history, began, fr.op)
           loader == LoaderOf(l)
           cached == keys \cap DOMAIN loader.cache
           got == UNION {loader.cache[k] : k \in cached}
           aw == [loader |-> l, keys |-> keys \ cached, failed |-> FALSE, got |-> got]
           lo == [loader EXCEPT !.queue = @ \cup (keys \ (cached \cup Pending(l)))]
           new == [fr EXCEPT !.pc = "wait", !.at = r, !.await = aw]
<1>1. frames' = [frames EXCEPT ![f] = new] /\ loaders' = Put(loaders, l, lo)
  BY DEF LoadAll
<1>2. IsFrame(fr) /\ FrameFresh(S, fr) /\ AllFresh(history, began, loaders, frames)
  BY FrameOf, FreshOf DEF Fresh
<1>3. IsLoader(loader) /\ LoaderFresh(States(history, began, l.op), l, loader)
  <2>1. IsLoader(EmptyLoader) /\ DOMAIN EmptyLoader.cache = {}
    BY DEF IsLoader, EmptyLoader
  <2>2. LoaderFresh(States(history, began, l.op), l, EmptyLoader)
    BY <2>1 DEF LoaderFresh
  <2> QED
    BY <1>2, <2>1, <2>2 DEF LoaderOf, IInv, Good, LoadersOk, AllFresh
<1>4. lo.cache = loader.cache
  <2> HIDE DEF loader, cached
  <2> QED
    BY <1>3 DEF IsLoader
<1>5. LoaderFresh(States(history, began, l.op), l, lo)
  <2> HIDE DEF lo, loader
  <2> QED
    BY <1>3, <1>4 DEF LoaderFresh
<1>6. /\ Same(fr, new) /\ new.links = fr.links /\ new.pc = "wait" /\ new.recs = fr.recs
      /\ new.todo = fr.todo /\ new.at = r /\ new.await = aw
  <2> HIDE DEF fr, aw
  <2> QED
    BY <1>2 DEF IsFrame, Same
<1>7. aw.got = got /\ aw.keys = keys \ cached
  OBVIOUS
<1>8. Plain(fr.dao, i) => UsesLoader(fr.plan, i) /\ GotByKey(S, got, keys \ cached, fr.dao, i, KeysOf(fr.dao, i, r))
  <2>1. SUFFICES ASSUME Plain(fr.dao, i)
                 PROVE  GotByKey(S, got, keys \ cached, fr.dao, i, KeysOf(fr.dao, i, r))
    OBVIOUS
  <2>2. /\ Relations[fr.dao][i] \in Relation /\ keys = KeysOf(fr.dao, i, r)
        /\ l.dao = Relations[fr.dao][i].dao /\ l.op = fr.op /\ l.key = LinkKey(Relations[fr.dao][i])
    BY <2>1
  <2>3. \A k \in cached : \E db \in S : Finds(loader.cache[k], db, fr.dao, i, k)
    <3> HIDE DEF loader
    <3> QED
      BY <1>3, <2>2 DEF LoaderFresh, Finds, Found
  <2>4. cached \subseteq KeysOf(fr.dao, i, r)
    BY <2>2
  <2> DEFINE cache == loader.cache
             d == fr.dao
             waiting == keys \ cached
  <2>5. \A k \in cached : \E db \in S : Finds(cache[k], db, d, i, k)
    BY <2>3
  <2>6. /\ \A x : x \in got <=> \E k \in cached : x \in cache[k]
        /\ \A k \in KeysOf(d, i, r) : k \in waiting <=> k \notin cached
    BY <2>2
  <2>7. Plain(d, i) /\ Relations[d][i] \in Relation /\ cached \subseteq KeysOf(d, i, r)
    BY <2>1, <2>2, <2>4
  <2> HIDE DEF cached, cache, waiting, got, S, i, d
  <2>8. GotByKey(S, got, waiting, d, i, KeysOf(d, i, r))
    BY <2>5, <2>6, <2>7, CachedGathers
  <2> QED
    BY <2>8 DEF waiting, d
<1> HIDE DEF new, lo, S, aw, got, cached
<1>9. RecsFresh(S, new)
  BY <1>2, <1>6 DEF FrameFresh, RecsFresh, Whole, Same
<1>10. GotFresh(S, new)
  <2>1. Current(new) = i /\ new.dao = fr.dao /\ new.plan = fr.plan
    BY <1>6 DEF Current, Same
  <2> HIDE DEF i
  <2> QED
    BY <1>6, <1>7, <1>8, <2>1 DEF GotFresh
<1>11. FrameFresh(S, new) /\ new.op = fr.op
  BY <1>2, <1>6, <1>9, <1>10, Kept DEF Same
<1>12. AllFresh(history, began, loaders, [frames EXCEPT ![f] = new])
  BY <1>2, <1>11, OneFrame DEF S
<1>13. AllFresh(history, began, Put(loaders, l, lo), [frames EXCEPT ![f] = new])
  BY <1>5, <1>12 DEF AllFresh, Put
<1> QED
  BY <1>1, <1>13

LEMMA LoadRowsFresh ==
  ASSUME IInv, Fresh, NEW f \in DOMAIN frames, LoadRows(f)
  PROVE  AllFresh(history, began, loaders', frames')
<1> DEFINE fr == frames[f]
           rel == RelationOf(fr, Current(fr))
           l == Hash(rel.join, NoOp, "id", RowPlan)
           keys == {r.id : r \in fr.recs}
<1>1. IsFrame(fr) /\ fr.pc = "resolve" /\ fr.todo # {} /\ NeedsRows(fr)
  BY FrameOf DEF LoadRows
<1>2. rel.join \in Daos /\ rel.kind = "relation"
  BY <1>1, CurrentFacts DEF NeedsRows
<1>3. l \in Loader /\ l.plan = RowPlan
  BY <1>2, HashType, Specials
<1>4. LoadAll(f, Null, l, keys)
  BY DEF LoadRows
<1>5. ~Plain(fr.dao, Current(fr))
  BY <1>2 DEF Plain, RelationOf
<1> HIDE DEF keys, l
<1> QED
  BY <1>1, <1>3, <1>4, <1>5, LoadAllFresh

LEMMA LoadLinksFresh ==
  ASSUME IInv, Fresh, NEW f \in DOMAIN frames, LoadLinks(f)
  PROVE  AllFresh(history, began, loaders', frames')
<1> DEFINE fr == frames[f]
           i == Current(fr)
           S == States(history, began, fr.op)
           rel == RelationOf(fr, i)
           plan == fr.plan[i].plan
<1>1. /\ IsFrame(fr) /\ AwaitInv(fr) /\ FrameFresh(S, fr) /\ AllFresh(history, began, loaders, frames)
      /\ fr.pc = "resolve" /\ fr.todo # {} /\ ~NeedsRows(fr)
  BY FrameOf, FreshOf DEF LoadLinks, Fresh
<1>2. fr.await = NotAwaiting /\ fr.op \in Ops
  BY <1>1, HasOperation DEF AwaitInv
<1>3. /\ rel \in Relation /\ plan \in Plans[rel.dao] /\ rel.dao \in Daos
      /\ fr.plan[i].limit \in Nat \cup {Null}
  BY <1>1, CurrentFacts DEF Relation
<1>4. fr.rows \in SUBSET Rec /\ fr.recs \in SUBSET Rec
  BY <1>1 DEF IsFrame
<1>5. PICK r \in {q \in fr.recs : <<i, q>> \in fr.todo} :
        LET keys == LinkKeys(rel, r, fr.rows) IN
        IF keys = {} THEN SetResult(f, r, {}) /\ UNCHANGED <<loaders, refs>>
        ELSE IF UsesLoader(fr.plan, i)
        THEN LoadAll(f, r, Hash(rel.dao, fr.op, LinkKey(rel), plan), keys)
        ELSE FindDirectly(f, r, keys)
  BY DEF LoadLinks
<1> DEFINE keys == LinkKeys(rel, r, fr.rows)
           l == Hash(rel.dao, fr.op, LinkKey(rel), plan)
<1>6. keys \in SUBSET Keys /\ LinkKey(rel) \in {"id", "ref"}
  BY <1>3, <1>4, LinkKeysType
<1>7. Plain(fr.dao, i) => keys = KeysOf(fr.dao, i, r)
  BY DEF Plain, KeysOf, LinkKeys, RelationOf
<1>8. CASE keys = {}
  <2>1. SetResult(f, r, {}) /\ UNCHANGED loaders
    BY <1>5, <1>8
  <2>2. Db \in S
    BY <1>2, Present
  <2>3. \A T, key : Having(T, key, {}) = {}
    BY DEF Having
  <2>4. Plain(fr.dao, i) => LinkFresh(S, fr.dao, fr.plan, i, r, {})
    <3>1. SUFFICES ASSUME Plain(fr.dao, i) PROVE LinkFresh(S, fr.dao, fr.plan, i, r, {})
      OBVIOUS
    <3>2. KeysOf(fr.dao, i, r) = {}
      BY <1>7, <1>8, <3>1
    <3> DEFINE limit == fr.plan[i].limit
               none == Found(Db, fr.dao, i, {})
    <3>3. none = {} /\ Linked({}, fr.dao, i, {}) = {}
      BY <2>3 DEF Found, Linked
    <3> HIDE DEF S, limit, none
    <3>4. limit # Null => Limited({}, none, limit)
      <4>1. Cardinality({}) = 0 /\ limit \in Nat \cup {Null}
        BY <1>3, FS_EmptySet DEF limit
      <4> QED
        BY <4>1, <3>3 DEF Limited
    <3> QED
      BY <2>2, <3>2, <3>3, <3>4 DEF LinkFresh, limit, none
  <2>5. AllFresh(history, began, loaders, frames')
    BY <1>1, <2>1, <2>4, SetResultFresh
  <2> QED
    BY <2>1, <2>5
<1>9. CASE keys # {} /\ UsesLoader(fr.plan, i)
  <2>1. /\ l \in Loader /\ l.op = fr.op /\ l.dao = rel.dao /\ l.key = LinkKey(rel)
    BY <1>2, <1>3, <1>6, HashType
  <2>2. LoadAll(f, r, l, keys)
    BY <1>5, <1>9
  <2>3. l.op # NoOp /\ rel = Relations[fr.dao][i]
    BY <1>2, <2>1, Specials DEF RelationOf
  <2> HIDE DEF keys, l
  <2> QED
    BY <1>1, <1>3, <1>7, <1>9, <2>1, <2>2, <2>3, LoadAllFresh
<1>10. CASE keys # {} /\ ~UsesLoader(fr.plan, i)
  <2> DEFINE aw == [fr.await EXCEPT !.keys = keys]
             new == [fr EXCEPT !.pc = "wait", !.at = r, !.await = aw]
             child == NewFrame(rel.dao, fr.op, plan, LinkKey(rel), keys, fr.plan[i].limit)
  <2>1. /\ frames' = Put([frames EXCEPT ![f].pc = "wait", ![f].at = r, ![f].await.keys = keys],
                         DirectId(f), child)
        /\ UNCHANGED <<loaders, refs>>
    BY <1>5, <1>10 DEF FindDirectly
  <2>2. frames' = Put([frames EXCEPT ![f] = new], DirectId(f), child)
    BY <2>1
  <2>3. aw.keys = keys
    BY <1>2 DEF NotAwaiting
  <2> HIDE DEF aw, keys
  <2>4. /\ Same(fr, new) /\ new.links = fr.links /\ new.pc = "wait" /\ new.recs = fr.recs
        /\ new.todo = fr.todo /\ new.await = aw
    <3> HIDE DEF fr, i
    <3> QED
      BY <1>1 DEF IsFrame, Same
  <2> HIDE DEF new, S
  <2>5. RecsFresh(S, new)
    BY <1>1, <2>4 DEF FrameFresh, RecsFresh, Whole, Same
  <2>6. GotFresh(S, new)
    <3>1. Current(new) = i /\ new.plan = fr.plan
      BY <2>4 DEF Current, Same
    <3> QED
      BY <1>10, <2>3, <2>4, <3>1 DEF GotFresh
  <2>7. FrameFresh(S, new) /\ new.op = fr.op
    BY <1>1, <2>4, <2>5, <2>6, Kept DEF Same
  <2>8. child.pc = "read" /\ child.links = {} /\ child.op = fr.op
    BY DEF NewFrame
  <2> HIDE DEF child
  <2>9. FrameFresh(S, child)
    BY <1>2, <2>8, Specials DEF FrameFresh, RecsFresh, GotFresh, LinksFresh
  <2> DEFINE G == [frames EXCEPT ![f] = new]
             id == DirectId(f)
  <2>10. AllFresh(history, began, loaders, G)
    BY <1>1, <2>7, OneFrame DEF S
  <2> HIDE DEF G, id
  <2>11. AllFresh(history, began, loaders, Put(G, id, child))
    BY <2>8, <2>9, <2>10, AddedFrame DEF S
  <2> QED
    BY <2>1, <2>2, <2>11 DEF G, id
<1> QED
  BY <1>8, <1>9, <1>10

LEMMA DispatchFresh ==
  ASSUME IInv, Fresh, NEW l \in DOMAIN loaders, Dispatch(l)
  PROVE  AllFresh(history, began, loaders', frames')
<1>1. AllFresh(history, began, loaders, frames) /\ IsLoader(loaders[l])
  BY DEF Fresh, IInv, Good, LoadersOk
<1>2. PICK keys \in SUBSET loaders[l].queue :
        /\ loaders' = [loaders EXCEPT ![l].queue = @ \ keys]
        /\ frames' = Put(frames, BatchId(l, keys), NewFrame(l.dao, l.op, l.plan, l.key, keys, Null))
  BY DEF Dispatch
<1> DEFINE new == NewFrame(l.dao, l.op, l.plan, l.key, keys, Null)
           id == BatchId(l, keys)
           S == States(history, began, l.op)
           lo == loaders[l]
           rest == [lo EXCEPT !.queue = lo.queue \ keys]
<1>3. new.pc = "read" /\ new.links = {} /\ new.op = l.op /\ new.plan = l.plan
  BY DEF NewFrame
<1>4. LoaderFresh(S, l, lo)
  BY <1>1 DEF AllFresh
<1>5. loaders' = [loaders EXCEPT ![l] = rest]
  BY <1>2
<1>6. rest.cache = lo.cache
  <2> HIDE DEF lo
  <2> QED
    BY <1>1 DEF IsLoader, lo
<1> HIDE DEF rest, lo, new, id, S
<1>7. LoaderFresh(S, l, rest)
  BY <1>4, <1>6 DEF LoaderFresh
<1>8. FrameFresh(S, new)
  BY <1>3, <1>4 DEF FrameFresh, RecsFresh, GotFresh, LinksFresh, LoaderFresh
<1>9. AllFresh(history, began, loaders, Put(frames, id, new))
  BY <1>1, <1>3, <1>8, AddedFrame DEF S
<1>10. AllFresh(history, began, [loaders EXCEPT ![l] = rest], Put(frames, id, new))
  BY <1>7, <1>9 DEF AllFresh, S
<1> QED
  BY <1>2, <1>5, <1>10 DEF new, id

(* A batch that returns answers for each of its keys as the database did   *)
(* when it was read, but for what the page leaves out.                     *)
AnswersOf(S, l, keys, recs) ==
  \A k \in keys : \E db \in S :
    Partly(Having(recs, l.key, {k}), Having(db[l.dao], l.key, {k}), InFull(l.dao, l.key))

LEMMA BatchAnswers ==
  ASSUME IInv, Fresh, NEW f \in DOMAIN frames, IsBatch(f, frames[f]), frames[f].pc = "resolve"
  PROVE  AnswersOf(States(history, began, f.loader.op), f.loader, f.keys, frames[f].recs)
<1> DEFINE fr == frames[f]
           l == f.loader
           S == States(history, began, fr.op)
<1>1. /\ fr.keys = f.keys /\ fr.dao = l.dao /\ fr.op = l.op /\ fr.key = l.key /\ fr.limit = Null
  BY Ids DEF IsBatch
<1>2. FrameFresh(S, fr)
  BY FreshOf
<1> HIDE DEF S
<1>3. PICK db \in S : Complete(fr.recs, Having(db[fr.dao], fr.key, fr.keys), fr.limit, Whole(fr))
  BY <1>2 DEF FrameFresh, RecsFresh
<1> DEFINE T == db[l.dao]
           recs == fr.recs
           key == l.key
           K == f.keys
<1>4. Cardinality(f.keys) <= PageSize
  BY Ids DEF Fresh, BatchesOk, IsBatch
<1>5. recs \subseteq Having(T, key, K) /\ (InFull(l.dao, key) => recs = Having(T, key, K))
  BY <1>1, <1>3, <1>4 DEF Complete, Partly, Whole, InFull
<1> HIDE DEF T, recs, key, K
<1>6. ASSUME NEW k \in K
      PROVE  Partly(Having(recs, key, {k}), Having(T, key, {k}), InFull(l.dao, key))
  <2>1. \A r : r \in Having(recs, key, {k}) => r \in Having(T, key, {k})
    BY <1>5, HavingMember
  <2>2. InFull(l.dao, key) => \A r : r \in Having(T, key, {k}) => r \in Having(recs, key, {k})
    BY <1>5, HavingMember
  <2> QED
    BY <2>1, <2>2 DEF Partly
<1> QED
  BY <1>1, <1>3, <1>6 DEF S, T, recs, key, K, AnswersOf

(* What a frame learns of a batch.                                         *)
Told(fr, l, keys, recs, failed) ==
  [fr EXCEPT !.await.keys = @ \ keys,
             !.await.got = @ \cup Having(recs, l.key, keys \cap fr.await.keys),
             !.await.failed = @ \/ (failed /\ keys \cap fr.await.keys # {})]

LEMMA ToldFresh ==
  ASSUME NEW S, NEW fr, IsFrame(fr), AwaitInv(fr), FrameFresh(S, fr), NEW l \in Loader,
         fr.await.loader = l, NEW keys, NEW recs, NEW failed \in BOOLEAN,
         l.op = fr.op /\ failed = FALSE => AnswersOf(S, l, keys, recs)
  PROVE  FrameFresh(S, Told(fr, l, keys, recs, failed))
<1> DEFINE new == Told(fr, l, keys, recs, failed)
           aw == fr.await
           A == keys \cap aw.keys
           d == fr.dao
           i == Current(fr)
           nw == [aw EXCEPT !.keys = @ \ keys, !.got = @ \cup Having(recs, l.key, A),
                            !.failed = @ \/ (failed /\ A # {})]
<1>1. aw \in Awaits
  BY DEF IsFrame
<1>2. new = [fr EXCEPT !.await = nw]
  BY DEF Told
<1> HIDE DEF new
<1>3. /\ Same(fr, new) /\ new.links = fr.links /\ new.pc = fr.pc /\ new.recs = fr.recs
      /\ new.todo = fr.todo /\ new.at = fr.at /\ new.await = nw
  <2> HIDE DEF nw
  <2> QED
    BY <1>2 DEF IsFrame, Same
<1>4. /\ nw.keys = aw.keys \ A /\ nw.got = aw.got \cup Having(recs, l.key, A)
      /\ ~nw.failed => ~aw.failed /\ (failed = FALSE \/ A = {})
  <2> HIDE DEF aw
  <2>1. nw.keys = aw.keys \ A /\ nw.got = aw.got \cup Having(recs, l.key, A)
    BY <1>1 DEF Awaits
  <2>2. nw.failed = (aw.failed \/ (failed /\ A # {}))
    <3> HIDE DEF A
    <3> QED
      BY <1>1 DEF Awaits
  <2> QED
    BY <2>1, <2>2
<1>5. RecsFresh(S, new)
  BY <1>3 DEF FrameFresh, RecsFresh, Whole, Same
<1>6. ASSUME fr.pc = "wait", Plain(d, i), ~nw.failed
      PROVE  UsesLoader(fr.plan, i) /\ GotByKey(S, nw.got, nw.keys, d, i, KeysOf(d, i, fr.at))
  <2> DEFINE rel == RelationOf(fr, i)
  <2>1. Waits(fr) /\ ~NeedsRows(fr) /\ fr.todo # {}
    BY <1>6 DEF AwaitInv, Waits, Plain, NeedsRows, RelationOf
  <2>2. rel \in Relation /\ rel = Relations[d][i]
    BY <2>1, CurrentFacts DEF RelationOf
  <2>3. UsesLoader(fr.plan, i) /\ l = Hash(rel.dao, fr.op, LinkKey(rel), fr.plan[i].plan)
    BY <2>1, Specials DEF Waits
  <2>4. l.dao = rel.dao /\ l.op = fr.op /\ l.key = LinkKey(rel)
    BY <2>3 DEF Hash
  <2>5. LinkKeys(rel, fr.at, fr.rows) = KeysOf(d, i, fr.at)
    BY <1>6, <2>2 DEF Plain, KeysOf, LinkKeys
  <2>6. aw.keys \subseteq KeysOf(d, i, fr.at)
    BY <2>1, <2>5 DEF Waits
  <2>7. GotByKey(S, aw.got, aw.keys, d, i, KeysOf(d, i, fr.at))
    BY <1>4, <1>6, <2>3 DEF FrameFresh, GotFresh
  <2>8. \A k \in A : \E db \in S : Finds(Linked(recs, d, i, {k}), db, d, i, k)
    <3>1. \A k \in A : \E db \in S :
            Partly(Having(recs, l.key, {k}), Having(db[l.dao], l.key, {k}), InFull(l.dao, l.key))
      BY <1>4, <1>6, <2>4 DEF AnswersOf
    <3> QED
      BY <2>2, <2>4, <3>1 DEF Finds, Linked, Found
  <2> DEFINE got == aw.got
             waiting == aw.keys
             r == fr.at
  <2>9. A \subseteq KeysOf(d, i, r) /\ A \subseteq waiting
    BY <2>6
  <2>10. GotByKey(S, got, waiting, d, i, KeysOf(d, i, r)) /\ Relations[d][i] \in Relation
    BY <2>2, <2>7
  <2>11. Linked(recs, d, i, A) = Having(recs, l.key, A)
    BY <2>2, <2>4 DEF Linked
  <2> HIDE DEF A, d, i, got, waiting, r
  <2>12. GotByKey(S, got \cup Linked(recs, d, i, A), waiting \ A, d, i, KeysOf(d, i, r))
    BY <1>6, <2>8, <2>9, <2>10, Gathers
  <2> QED
    BY <1>4, <2>3, <2>11, <2>12 DEF got, waiting, r, i
<1>7. GotFresh(S, new)
  <2>1. Current(new) = i /\ new.dao = d /\ new.plan = fr.plan
    BY <1>3 DEF Current, Same
  <2> HIDE DEF i, d, nw
  <2> QED
    BY <1>3, <1>6, <2>1 DEF GotFresh
<1>8. FrameFresh(S, new)
  BY <1>3, <1>5, <1>7, Kept
<1> QED
  BY <1>8 DEF new

LEMMA EndFresh ==
  ASSUME IInv, Fresh, NEW f \in DOMAIN frames, NEW failed \in BOOLEAN, End(f, failed),
         frames[f].pc = IF failed THEN "throw" ELSE "resolve"
  PROVE  AllFresh(history, began, loaders', frames')
<1> DEFINE fr == frames[f]
           rest == Without(frames, {f})
<1>1. FramesOk(frames, outcome) /\ IsFrame(fr) /\ AllFresh(history, began, loaders, frames)
  BY FrameOf DEF Fresh
<1>2. DOMAIN rest = DOMAIN frames \ {f} /\ \A g \in DOMAIN rest : rest[g] = frames[g]
  BY DEF Without, Restrict
<1>3. AllFresh(history, began, loaders, rest)
  <2> HIDE DEF rest
  <2> QED
    BY <1>1, <1>2 DEF AllFresh
<1> HIDE DEF rest
<1>4. CASE f.op # Null
  <2>1. frames' = rest
    BY <1>4 DEF End, rest
  <2>2. DOMAIN loaders' \subseteq DOMAIN loaders /\ \A l \in DOMAIN loaders' : loaders'[l] = loaders[l]
    BY <1>4 DEF End, ClearDataLoader, Without, Restrict
  <2> QED
    BY <1>3, <2>1, <2>2 DEF AllFresh
<1>5. CASE f.op = Null /\ f.loader # Null
  <2> DEFINE l == f.loader
             S == States(history, began, l.op)
             recs == fr.recs
             keys == f.keys
  <2>1. IsBatch(f, fr)
    BY <1>1, <1>5, Kinds
  <2>2. l \in Loader
    BY <2>1, Ids DEF IsBatch
  <2>3. /\ frames' = Answered(l, keys, recs, failed, rest)
        /\ CacheAnswers(l, keys, recs, failed)
    BY <1>5 DEF End, rest
  <2>4. ~failed => AnswersOf(S, l, keys, recs)
    BY <2>1, BatchAnswers
  <2>5. /\ DOMAIN frames' = DOMAIN rest
        /\ \A g \in DOMAIN rest :
             frames'[g] = IF rest[g].await.loader # l THEN rest[g] ELSE Told(rest[g], l, keys, recs, failed)
    BY <2>3 DEF Answered, Told
  <2> HIDE DEF S, recs, keys
  <2>6. ASSUME NEW g \in DOMAIN rest PROVE FrameFresh(States(history, began, frames'[g].op), frames'[g])
    <3> DEFINE gr == frames[g]
               T == States(history, began, gr.op)
    <3>1. IsFrame(gr) /\ AwaitInv(gr) /\ FrameFresh(T, gr) /\ rest[g] = gr
      BY <1>2, FrameOf, FreshOf
    <3>2. CASE gr.await.loader # l
      BY <2>5, <3>1, <3>2
    <3>3. CASE gr.await.loader = l
      <4>1. frames'[g] = Told(gr, l, keys, recs, failed)
        BY <2>5, <3>1, <3>3
      <4>2. l.op = gr.op /\ failed = FALSE => AnswersOf(T, l, keys, recs)
        BY <2>4 DEF S
      <4> HIDE DEF T, gr, l
      <4>3. FrameFresh(T, Told(gr, l, keys, recs, failed))
        BY <2>2, <3>1, <3>3, <4>2, ToldFresh
      <4>4. Told(gr, l, keys, recs, failed).op = gr.op
        BY <3>1 DEF Told, IsFrame
      <4> QED
        BY <4>1, <4>3, <4>4 DEF T
    <3> QED
      BY <3>2, <3>3
  <2>7. ASSUME NEW m \in DOMAIN loaders' PROVE m \in DOMAIN loaders /\ LoaderFresh(States(history, began, m.op), m, loaders'[m])
    <3>1. m \in DOMAIN loaders
      BY <2>3, <2>7 DEF CacheAnswers
    <3>2. LoaderFresh(States(history, began, m.op), m, loaders[m])
      BY <1>1, <3>1 DEF AllFresh
    <3>3. CASE loaders'[m] = loaders[m]
      BY <3>1, <3>2, <3>3
    <3>4. CASE m = l /\ ~failed
      <4> DEFINE lo == loaders[l]
                 c == [k \in DOMAIN lo.cache \cup keys |->
                         IF k \in keys THEN Having(recs, l.key, {k}) ELSE lo.cache[k]]
      <4>1. loaders' = [loaders EXCEPT ![l] = [lo EXCEPT !.cache = c]]
        BY <2>3, <3>1, <3>4 DEF CacheAnswers
      <4>2. IsLoader(lo) /\ LoaderFresh(S, l, lo)
        BY <3>1, <3>2, <3>4 DEF IInv, Good, LoadersOk, S
      <4>3. DOMAIN c = DOMAIN lo.cache \cup keys
            /\ \A k \in DOMAIN c : c[k] = IF k \in keys THEN Having(recs, l.key, {k}) ELSE lo.cache[k]
        OBVIOUS
      <4> HIDE DEF c, lo
      <4>4. loaders'[l] = [lo EXCEPT !.cache = c]
        BY <3>1, <3>4, <4>1
      <4>5. loaders'[l].cache = c
        BY <4>2, <4>4 DEF IsLoader
      <4>6. \A k \in DOMAIN c : \E db \in S : Partly(c[k], Having(db[l.dao], l.key, {k}), InFull(l.dao, l.key))
        BY <2>4, <3>4, <4>2, <4>3 DEF LoaderFresh, AnswersOf
      <4>7. LoaderFresh(S, l, loaders'[l])
        BY <4>2, <4>5, <4>6 DEF LoaderFresh
      <4> QED
        BY <3>1, <3>4, <4>7 DEF S
    <3> QED
      BY <2>3, <3>1, <3>3, <3>4 DEF CacheAnswers
  <2> QED
    BY <2>5, <2>6, <2>7 DEF AllFresh
<1>6. CASE f.op = Null /\ f.loader = Null
  <2> DEFINE p == f.parent
             par == frames[p]
             aw == [par.await EXCEPT !.keys = {}, !.got = fr.recs, !.failed = failed]
             new == [par EXCEPT !.await = aw]
             S == States(history, began, par.op)
             i == Current(par)
  <2>1. IsDirect(f, fr, frames)
    BY <1>1, <1>6, Kinds
  <2>2. p \in DOMAIN frames /\ IsChild(par, fr)
    BY <2>1, Ids DEF IsDirect
  <2>3. p # f
    BY <2>2 DEF IsChild
  <2>4. p \in DOMAIN rest /\ rest[p] = par
    BY <1>2, <2>2, <2>3
  <2>5. /\ frames' = [rest EXCEPT ![p].await = [@ EXCEPT !.keys = {}, !.got = fr.recs, !.failed = failed]]
        /\ UNCHANGED loaders
    BY <1>6 DEF End, rest
  <2>6. frames' = [rest EXCEPT ![p] = new]
    BY <2>4, <2>5
  <2>7. IsFrame(par) /\ FrameFresh(S, par) /\ FrameFresh(States(history, began, fr.op), fr)
    BY <2>2, FrameOf, FreshOf
  <2>8. aw.got = fr.recs /\ aw.failed = failed
    BY <2>7 DEF IsFrame, Awaits
  <2> HIDE DEF aw
  <2>9. /\ Same(par, new) /\ new.links = par.links /\ new.pc = par.pc /\ new.recs = par.recs
        /\ new.todo = par.todo /\ new.at = par.at /\ new.await = aw
    <3> HIDE DEF par
    <3> QED
      BY <2>7 DEF IsFrame, Same
  <2> HIDE DEF new
  <2>10. RecsFresh(S, new)
    <3> HIDE DEF S
    <3> QED
      BY <2>7, <2>9 DEF FrameFresh, RecsFresh, Whole, Same
  <2>11. ASSUME Plain(par.dao, i), ~failed
         PROVE  ~UsesLoader(par.plan, i)
                /\ \E db \in S : Limited(fr.recs, Found(db, par.dao, i, KeysOf(par.dao, i, par.at)), par.plan[i].limit)
    <3> DEFINE rel == RelationOf(par, i)
    <3>1. /\ ~UsesLoader(par.plan, i) /\ fr.dao = rel.dao /\ fr.op = par.op
          /\ fr.key = LinkKey(rel) /\ fr.keys = LinkKeys(rel, par.at, par.rows)
          /\ fr.limit = par.plan[i].limit
      BY <2>2 DEF IsChild
    <3>2. rel = Relations[par.dao][i] /\ fr.keys = KeysOf(par.dao, i, par.at)
      BY <2>11, <3>1 DEF Plain, KeysOf, LinkKeys, RelationOf
    <3>3. \E db \in S : Limited(fr.recs, Having(db[fr.dao], fr.key, fr.keys), fr.limit)
      <4>1. RecsFresh(S, fr) /\ fr.pc = "resolve"
        BY <2>7, <2>11, <3>1 DEF FrameFresh
      <4>2. fr.limit # Null
        BY <3>1 DEF UsesLoader
      <4> HIDE DEF S
      <4> QED
        BY <4>1, <4>2 DEF RecsFresh, Complete
    <3> HIDE DEF S, i
    <3> QED
      BY <3>1, <3>2, <3>3 DEF Found
  <2>12. GotFresh(S, new)
    <3>1. Current(new) = i /\ new.dao = par.dao /\ new.plan = par.plan
      BY <2>9 DEF Current, Same
    <3> HIDE DEF S, i
    <3> QED
      BY <2>8, <2>9, <2>11, <3>1 DEF GotFresh
  <2>13. FrameFresh(S, new) /\ new.op = par.op
    <3> HIDE DEF S
    <3> QED
      BY <2>7, <2>9, <2>10, <2>12, Kept DEF Same
  <2>14. AllFresh(history, began, loaders, [rest EXCEPT ![p] = new])
    BY <1>3, <2>4, <2>13, OneFrame
  <2> QED
    BY <2>5, <2>6, <2>14
<1> QED
  BY <1>4, <1>5, <1>6

(* An operation that begins has no finds and no loaders yet.               *)
LEMMA BeginFresh ==
  ASSUME IInv, Fresh, NEW o \in Ops, Begin(o)
  PROVE  AllFresh(history, began', loaders', frames') /\ \A p \in Ops : began'[p] <= Now
<1> DEFINE q == workload.query[o]
           new == NewFrame(q.dao, o, q.plan, "id", Keys, Null)
           id == RootId(o)
<1>1. /\ outcome[o] = "idle" /\ began' = [began EXCEPT ![o] = Now]
      /\ frames' = Put(frames, id, new) /\ UNCHANGED loaders
  BY DEF Begin
<1>2. /\ began \in [Ops -> Nat] /\ Now \in Nat /\ \A p \in Ops : began[p] <= Now
      /\ AllFresh(history, began, loaders, frames)
  BY DbFacts DEF IInv, Fresh
<1>3. /\ \A p \in Ops : began'[p] <= Now
      /\ \A p \in Ops : p # o => began'[p] = began[p]
  BY <1>1, <1>2
<1>4. ASSUME NEW op \in Ops \cup {NoOp}, op # o
      PROVE  States(history, began', op) = States(history, began, op)
  BY <1>3, <1>4 DEF States
<1>5. \A f \in DOMAIN frames : frames[f].op \in Ops \cup {NoOp} /\ frames[f].op # o
  BY <1>1, FrameOf DEF IsFrame
<1>6. \A l \in DOMAIN loaders : l.op \in Ops \cup {NoOp} /\ l.op # o
  BY <1>1 DEF IInv, Good, LoadersOk, Loader
<1>7. AllFresh(history, began', loaders, frames)
  BY <1>2, <1>4, <1>5, <1>6 DEF AllFresh
<1>8. new.pc = "read" /\ new.links = {} /\ new.op = o
  BY DEF NewFrame
<1> HIDE DEF new, id
<1>9. FrameFresh(States(history, began', new.op), new)
  <2>1. new.op # NoOp
    BY <1>8, Specials
  <2> QED
    BY <1>8, <2>1 DEF FrameFresh, RecsFresh, GotFresh, LinksFresh
<1>10. AllFresh(history, began', loaders, Put(frames, id, new))
  BY <1>7, <1>9, AddedFrame
<1> QED
  BY <1>1, <1>3, <1>10

LEMMA WriteFresh ==
  ASSUME IInv, Fresh, Write
  PROVE  /\ AllFresh(history', began, loaders, frames) /\ IdsOk(history')
         /\ \A o \in Ops : began[o] <= Len(history')
<1>1. PICK d \in workload.writes : history' = Append(history, d)
  BY DEF Write
<1>2. history \in Seq(Database) /\ Now \in Nat /\ began \in [Ops -> Nat]
  BY DbFacts DEF IInv
<1>3. d \in Database
  <2>1. history' \in Seq(Database) /\ Len(history') # 0
    BY WriteGood
  <2>2. Len(history') = Now + 1 /\ history'[Now + 1] = d
    BY <1>1, <1>2
  <2> QED
    BY <1>2, <2>1, <2>2
<1>4. /\ Len(history') = Now + 1
      /\ \A v \in 1..Now : history'[v] = history[v]
  BY <1>1, <1>2, <1>3
<1>5. \A op : States(history, began, op) \subseteq States(history', began, op)
  <2> SUFFICES ASSUME NEW op, NEW v \in 1..Now, op # NoOp => began[op] <= v
               PROVE  history[v] \in States(history', began, op)
    BY DEF States
  <2>1. v \in 1..Len(history') /\ history'[v] = history[v]
    BY <1>2, <1>4
  <2> QED
    BY <2>1 DEF States
<1>6. \A o \in Ops : began[o] <= Len(history')
  BY <1>2, <1>4 DEF Fresh
<1>7. AllFresh(history, began, loaders, frames)
  BY DEF Fresh
<1>8. ASSUME NEW f \in DOMAIN frames PROVE FrameFresh(States(history', began, frames[f].op), frames[f])
  BY <1>5, <1>7, Later DEF AllFresh
<1>9. ASSUME NEW l \in DOMAIN loaders PROVE LoaderFresh(States(history', began, l.op), l, loaders[l])
  BY <1>5, <1>7, Later DEF AllFresh
<1>10. IdsOk(history')
  <2> SUFFICES ASSUME NEW v \in 1..(Now + 1) PROVE UniqueIds(history'[v])
    BY <1>4 DEF IdsOk
  <2>1. CASE v \in 1..Now
    BY <1>4, <2>1 DEF Fresh, IdsOk
  <2>2. CASE v = Now + 1
    <3>1. history'[v] = d
      BY <1>1, <1>2, <1>3, <2>2
    <3>2. UniqueIds(d)
      BY IdsAssumption DEF IInv
    <3> QED
      BY <3>1, <3>2
  <2> QED
    BY <1>2, <2>1, <2>2
<1> QED
  BY <1>6, <1>8, <1>9, <1>10 DEF AllFresh

LEMMA FreshPrimed ==
  ASSUME workload' = workload,
         \A o \in Ops : began'[o] <= Len(history'), IdsOk(history'), BatchesOk(frames'),
         AllFresh(history', began', loaders', frames')
  PROVE  Fresh'
<1>1. IdsOk(history)'
  BY DEF IdsOk, UniqueIds
<1>2. BatchesOk(frames)'
  BY DEF BatchesOk
<1>3. ASSUME NEW f \in DOMAIN frames' PROVE FrameFresh(States(history, began, frames[f].op), frames[f])'
  <2>1. FrameFresh(States(history', began', frames'[f].op), frames'[f])
    BY <1>3 DEF AllFresh
  <2>2. RecsFresh(States(history, began, frames[f].op), frames[f])'
    BY <2>1 DEF FrameFresh, RecsFresh, States, Complete, Limited, Partly, Whole, Having, Attr
  <2>3. GotFresh(States(history, began, frames[f].op), frames[f])'
    BY <2>1 DEF FrameFresh, GotFresh, GotByKey, Finds, States, InFull
  <2>4. LinksFresh(States(history, began, frames[f].op), frames[f])'
    BY <2>1 DEF FrameFresh, LinksFresh, LinkFresh, Finds, States, InFull
  <2>5. (frames[f].op = NoOp => frames[f].plan = RowPlan /\ frames[f].links = {})'
    BY <2>1 DEF FrameFresh
  <2> QED
    BY <2>2, <2>3, <2>4, <2>5 DEF FrameFresh
<1>4. ASSUME NEW l \in DOMAIN loaders' PROVE LoaderFresh(States(history, began, l.op), l, loaders[l])'
  <2>1. LoaderFresh(States(history', began', l.op), l, loaders'[l])
    BY <1>4 DEF AllFresh
  <2> QED
    BY <2>1 DEF LoaderFresh, States, Partly, InFull, Having, Attr
<1>5. AllFresh(history, began, loaders, frames)'
  BY <1>3, <1>4 DEF AllFresh
<1> QED
  BY <1>1, <1>2, <1>5 DEF Fresh

(* Only the dispatch of a loader begins a batch.                           *)
LEMMA BatchesStay ==
  ASSUME IInv, Fresh, [Next]_vars
  PROVE  BatchesOk(frames')
<1>1. BatchesOk(frames)
  BY DEF Fresh
<1>2. ASSUME DOMAIN frames' \subseteq DOMAIN frames PROVE BatchesOk(frames')
  BY <1>1, <1>2 DEF BatchesOk
<1>3. ASSUME NEW id, id.loader = Null, DOMAIN frames' \subseteq DOMAIN frames \cup {id}
      PROVE  BatchesOk(frames')
  BY <1>1, <1>3 DEF BatchesOk
<1>4. ASSUME NEW o \in Ops, Begin(o) PROVE BatchesOk(frames')
  <2>1. RootId(o).loader = Null /\ DOMAIN frames' \subseteq DOMAIN frames \cup {RootId(o)}
    BY <1>4, Ids DEF Begin, Put
  <2> QED
    BY <1>3, <2>1
<1>5. ASSUME NEW f \in DOMAIN frames, Advance(f) \/ Reject(f) PROVE BatchesOk(frames')
  <2>1. CASE Read(f) \/ Reject(f) \/ LoadRows(f) \/ Resume(f)
    <3>1. DOMAIN frames' = DOMAIN frames
      BY <2>1 DEF Read, Reject, LoadRows, LoadAll, Resume, SetResult
    <3> QED
      BY <1>2, <3>1
  <2>2. CASE LoadLinks(f)
    <3>1. DirectId(f).loader = Null
      BY Ids
    <3>2. DOMAIN frames' \subseteq DOMAIN frames \cup {DirectId(f)}
      BY <2>2 DEF LoadLinks, LoadAll, SetResult, FindDirectly, Put
    <3> QED
      BY <1>3, <3>1, <3>2
  <2>3. CASE Return(f) \/ Throw(f)
    <3>1. DOMAIN frames' \subseteq DOMAIN frames
      BY <2>3 DEF Return, Throw, End, Answered, Without, Restrict
    <3> QED
      BY <1>2, <3>1
  <2> QED
    BY <1>5, <2>1, <2>2, <2>3 DEF Advance
<1>6. ASSUME NEW l \in DOMAIN loaders, Dispatch(l) PROVE BatchesOk(frames')
  <2>1. PICK keys \in SUBSET loaders[l].queue :
          /\ Cardinality(keys) <= BatchSize
          /\ frames' = Put(frames, BatchId(l, keys), NewFrame(l.dao, l.op, l.plan, l.key, keys, Null))
    BY <1>6 DEF Dispatch
  <2>2. BatchId(l, keys).keys = keys
    BY DEF BatchId
  <2>3. DOMAIN frames' = DOMAIN frames \cup {BatchId(l, keys)}
    BY <2>1 DEF Put
  <2> QED
    BY <1>1, <2>1, <2>2, <2>3 DEF BatchesOk, BatchSize
<1>7. CASE Write \/ UNCHANGED vars
  BY <1>2, <1>7 DEF Write, vars
<1> QED
  BY <1>4, <1>5, <1>6, <1>7 DEF Next

LEMMA WorkloadStays == [Next]_vars => workload' = workload
BY DEF Next, vars, Begin, Advance, Read, LoadRows, LoadLinks, Resume, Return, Throw, Reject, Dispatch, Write

LEMMA NextFresh ==
  ASSUME IInv, Fresh, IsFiniteSet(Keys), [Next]_vars
  PROVE  Fresh'
<1>0. workload' = workload /\ BatchesOk(frames') /\ IdsOk(history)
  BY WorkloadStays, BatchesStay DEF Fresh
<1>1. ASSUME AllFresh(history, began, loaders', frames'), UNCHANGED <<history, began>> PROVE Fresh'
  BY <1>0, <1>1, FreshPrimed DEF Fresh
<1>2. ASSUME NEW o \in Ops, Begin(o) PROVE Fresh'
  BY <1>0, <1>2, BeginFresh, FreshPrimed DEF Begin
<1>3. ASSUME NEW f \in DOMAIN frames, Advance(f) \/ Reject(f) PROVE Fresh'
  <2>1. CASE Read(f)
    BY <1>1, <2>1, ReadFresh DEF Read
  <2>2. CASE LoadRows(f)
    BY <1>1, <2>2, LoadRowsFresh DEF LoadRows
  <2>3. CASE LoadLinks(f)
    BY <1>1, <2>3, LoadLinksFresh DEF LoadLinks
  <2>4. CASE Resume(f)
    BY <1>1, <2>4, ResumeFresh DEF Resume
  <2>5. CASE Return(f)
    BY <1>1, <2>5, EndFresh DEF Return
  <2>6. CASE Throw(f)
    BY <1>1, <2>6, EndFresh DEF Throw
  <2>7. CASE Reject(f)
    BY <1>1, <2>7, RejectFresh DEF Reject
  <2> QED
    BY <1>3, <2>1, <2>2, <2>3, <2>4, <2>5, <2>6, <2>7 DEF Advance
<1>4. ASSUME NEW l \in DOMAIN loaders, Dispatch(l) PROVE Fresh'
  BY <1>1, <1>4, DispatchFresh DEF Dispatch
<1>5. CASE Write
  BY <1>0, <1>5, WriteFresh, FreshPrimed DEF Write
<1>6. CASE UNCHANGED vars
  BY <1>1, <1>6 DEF vars, Fresh
<1> QED
  BY <1>2, <1>3, <1>4, <1>5, <1>6 DEF Next

(* What has been read is current: Fresh.                                   *)
THEOREM FreshInvariant ==
  ASSUME NEW N \in Nat, NestedUpTo(N), IsFiniteSet(Keys)
  PROVE  Spec => []Fresh
<1>1. Init => Fresh
  <2> SUFFICES ASSUME Init PROVE Fresh
    OBVIOUS
  <2>1. IInv
    BY StartsGood
  <2>2. DOMAIN frames = {} /\ DOMAIN loaders = {} /\ began = [o \in Ops |-> 0]
    BY DEF Init
  <2>3. \A o \in Ops : began[o] <= Now
    BY <2>1, <2>2, DbFacts DEF IInv
  <2>4. IdsOk(history)
    <3>1. workload \in Workloads /\ history = <<workload.db>>
      BY DEF Init
    <3>2. UniqueIds(workload.db)
      BY <3>1, IdsAssumption
    <3> QED
      BY <3>1, <3>2 DEF IdsOk
  <2> QED
    BY <2>2, <2>3, <2>4 DEF Fresh, AllFresh, BatchesOk
<1>2. IInv /\ Fresh /\ [Next]_vars => Fresh'
  BY NextFresh
<1> QED
  BY <1>1, <1>2, LoaderInvariant, PTL DEF Spec

(* What a loader has cached was in the database once: CachedAnswersReal.   *)
THEOREM CachedAlwaysReal ==
  ASSUME NEW N \in Nat, NestedUpTo(N), IsFiniteSet(Keys)
  PROVE  Spec => []CachedAnswersReal
<1>1. Fresh => CachedAnswersReal
  <2> SUFFICES ASSUME Fresh, NEW l \in DOMAIN loaders, NEW k \in DOMAIN loaders[l].cache
               PROVE  \E v \in 1..Now :
                        Partly(loaders[l].cache[k], Having(history[v][l.dao], l.key, {k}), InFull(l.dao, l.key))
    BY DEF CachedAnswersReal
  <2>1. PICK db \in States(history, began, l.op) :
          Partly(loaders[l].cache[k], Having(db[l.dao], l.key, {k}), InFull(l.dao, l.key))
    BY DEF Fresh, AllFresh, LoaderFresh
  <2> QED
    BY <2>1 DEF States
<1> QED
  BY <1>1, FreshInvariant, PTL

(* The records a find attaches to a relation are those linked at some time *)
(* since its operation began: LinksCurrent.                                *)
THEOREM LinksAlwaysCurrent ==
  ASSUME NEW N \in Nat, NestedUpTo(N), IsFiniteSet(Keys)
  PROVE  Spec => []LinksCurrent
<1>1. IInv /\ Fresh => LinksCurrent
  <2> SUFFICES ASSUME IInv, Fresh, NEW f \in DOMAIN frames, NEW link \in frames[f].links,
                      RelationOf(frames[f], link.rel).kind \in {"inner", "foreign"}
               PROVE  LinkCurrent(frames[f], link)
    BY DEF LinksCurrent, LinksCurrentOf
  <2> DEFINE fr == frames[f]
             d == fr.dao
             i == link.rel
             rel == RelationOf(fr, i)
             key == LinkKey(rel)
             lim == fr.plan[i].limit
             K == LinkKeys(rel, link.rec, {})
             S == States(history, began, fr.op)
             since == began[fr.op]..Now
  <2>1. Plain(d, i) /\ rel = Relations[d][i] /\ K = KeysOf(d, i, link.rec)
    BY DEF Plain, RelationOf, KeysOf
  <2>2. FrameFresh(S, fr) /\ IsFrame(fr)
    BY FreshOf, FrameOf
  <2>3. LinkFresh(S, d, fr.plan, i, link.rec, link.got) /\ fr.op \in Ops
    <3> HIDE DEF S
    <3> QED
      BY <2>1, <2>2 DEF FrameFresh, LinksFresh, IsFrame
  <2>4. \A db \in S : \E v \in since : db = history[v]
    <3> SUFFICES ASSUME NEW v \in 1..Now, fr.op # NoOp => began[fr.op] <= v PROVE v \in since
      BY DEF States
    <3>1. began[fr.op] \in Nat /\ fr.op # NoOp /\ Now \in Nat
      BY <2>3, Specials, DbFacts DEF IInv
    <3> QED
      BY <3>1
  <2>5. KeysCurrent(fr, link, K)
    <3> HIDE DEF S, K
    <3>1. CASE lim = Null
      <4>1. /\ link.got = Having(link.got, key, K)
            /\ \A k \in K : \E db \in S :
                 Partly(Having(link.got, key, {k}), Having(db[rel.dao], key, {k}), InFull(rel.dao, key))
        BY <2>1, <2>3, <3>1 DEF LinkFresh, Finds, Linked, Found
      <4>2. \A k \in K : \E v \in since :
              Partly(Having(link.got, key, {k}), Having(history[v][rel.dao], key, {k}), InFull(rel.dao, key))
        BY <2>4, <4>1
      <4> QED
        BY <3>1, <4>1, <4>2 DEF KeysCurrent
    <3>2. CASE lim # Null
      <4>1. \E db \in S : Limited(link.got, Having(db[rel.dao], key, K), lim)
        BY <2>1, <2>3, <3>2 DEF LinkFresh, Found
      <4>2. \E v \in since : Limited(link.got, Having(history[v][rel.dao], key, K), lim)
        BY <2>4, <4>1
      <4> QED
        BY <3>2, <4>2 DEF KeysCurrent, Limited
    <3> QED
      BY <3>1, <3>2
  <2> QED
    BY <2>1, <2>5 DEF LinkCurrent, Plain
<1> QED
  BY <1>1, LoaderInvariant, FreshInvariant, PTL
-----------------------------------------------------------------------------
(* That no operation is stuck. *)

(* A frame can take a step: one guard for each disjunct of Advance.        *)
CanAdvance(f) ==
  LET fr == frames[f] IN
  \/ fr.pc = "read" /\ Answers(fr) # {}
  \/ fr.pc = "resolve" /\ fr.todo # {} /\ NeedsRows(fr)
  \/ fr.pc = "resolve" /\ fr.todo # {} /\ ~NeedsRows(fr)
     /\ \E r \in fr.recs : <<Current(fr), r>> \in fr.todo
  \/ fr.pc = "wait" /\ fr.await.keys = {}
  \/ fr.pc = "resolve" /\ fr.todo = {}
  \/ fr.pc = "throw"

CanDispatch(l) ==
  \E keys \in SUBSET loaders[l].queue :
    keys # {} /\ Cardinality(keys) <= BatchSize
    /\ (keys = loaders[l].queue \/ Cardinality(keys) = BatchSize)

AwaitsLoader(fr) == fr.pc = "wait" /\ fr.await.loader # Null /\ fr.await.keys # {}

(* An operation that runs has a find that can go on, or one whose loader   *)
(* can start a batch, or has a batch that can go on.                       *)
NeverStuck ==
  \A o \in Ops : outcome[o] = "running" =>
    \E f \in DOMAIN frames :
      /\ frames[f].op = o
      /\ \/ CanAdvance(f)
         \/ /\ AwaitsLoader(frames[f])
            /\ \/ CanDispatch(frames[f].await.loader)
               \/ \E b \in DOMAIN frames : b.loader = frames[f].await.loader /\ CanAdvance(b)

(* What is waited for is there: the root of an operation that runs, and    *)
(* the child of a frame that waits for no loader.                          *)
RootsThere(F, out) == \A o \in Ops : out[o] = "running" => RootId(o) \in DOMAIN F
Calls(fr) == fr.pc = "wait" /\ fr.await.loader = Null /\ fr.await.keys # {}
ChildrenThere(F) == \A f \in DOMAIN F : Calls(F[f]) => DirectId(f) \in DOMAIN F
AllThere == RootsThere(frames, outcome) /\ ChildrenThere(frames)

LEMMA EndThere ==
  ASSUME IInv, AllThere, NEW f \in DOMAIN frames, NEW failed \in BOOLEAN, End(f, failed)
  PROVE  RootsThere(frames', outcome') /\ ChildrenThere(frames')
<1> DEFINE rest == Without(frames, {f})
<1>1. DOMAIN rest = DOMAIN frames \ {f} /\ \A g \in DOMAIN rest : rest[g] = frames[g]
  BY DEF Without, Restrict
<1>2. FramesOk(frames, outcome) /\ outcome \in [Ops -> {"idle", "running", "done", "failed"}]
  BY DEF IInv, Good
<1>6. AllThere
  OBVIOUS
<1>3. CASE f.op # Null
  <2>1. PICK o \in Ops : f = RootId(o)
    BY <1>2, <1>3, Kinds DEF IsRoot
  <2>2. f.op = o /\ f.op \in Ops
    BY <2>1, Ids
  <2>3. frames' = rest /\ outcome' = [outcome EXCEPT ![f.op] = IF failed THEN "failed" ELSE "done"]
    BY <1>3 DEF End
  <2>4. \A q \in Ops : outcome'[q] = "running" => outcome[q] = "running" /\ f # RootId(q)
    BY <1>2, <2>1, <2>2, <2>3, Ids
  <2>5. \A g : f # DirectId(g)
    BY <1>3, Ids
  <2> HIDE DEF rest
  <2> QED
    BY <1>1, <2>3, <2>4, <2>5, <1>6 DEF AllThere, RootsThere, ChildrenThere
<1>4. CASE f.op = Null /\ f.loader # Null
  <2>1. frames' = Answered(f.loader, f.keys, frames[f].recs, failed, rest) /\ outcome' = outcome
    BY <1>3, <1>4 DEF End
  <2>2. DOMAIN frames' = DOMAIN rest
    BY <2>1 DEF Answered
  <2>3. ASSUME NEW g \in DOMAIN rest, Calls(frames'[g]) PROVE Calls(frames[g])
    <3>1. CASE rest[g].await.loader # f.loader
      BY <1>1, <2>1, <2>3, <3>1 DEF Answered
    <3>2. CASE rest[g].await.loader = f.loader
      <4>1. frames[g] = rest[g] /\ IsFrame(frames[g])
        BY <1>1, <1>2, <2>3 DEF FramesOk
      <4>2. frames'[g].await.loader = f.loader
        BY <2>1, <2>3, <3>2, <4>1 DEF Answered, IsFrame, Awaits
      <4> QED
        BY <1>4, <2>3, <4>2 DEF Calls
    <3> QED
      BY <3>1, <3>2
  <2>4. \A q \in Ops : f # RootId(q)
    BY <1>4, Ids
  <2>5. \A g : f # DirectId(g)
    BY <1>4, Ids
  <2> HIDE DEF rest
  <2> QED
    BY <1>1, <2>1, <2>2, <2>3, <2>4, <2>5, <1>6 DEF AllThere, RootsThere, ChildrenThere
<1>5. CASE f.op = Null /\ f.loader = Null
  <2>1. /\ frames' = [rest EXCEPT ![f.parent].await = [@ EXCEPT !.keys = {}, !.got = frames[f].recs, !.failed = failed]]
        /\ outcome' = outcome
    BY <1>5 DEF End
  <2>2. DOMAIN frames' = DOMAIN rest
    BY <2>1
  <2>3. PICK p \in DOMAIN frames : f = DirectId(p)
    BY <1>2, <1>5, Kinds DEF IsDirect
  <2>4. f.parent = p
    BY <2>3, Ids
  <2>5. ASSUME NEW g \in DOMAIN rest, Calls(frames'[g]) PROVE Calls(frames[g]) /\ f # DirectId(g)
    <3>1. CASE g = p
      <4>1. frames[g] = rest[g] /\ IsFrame(frames[g])
        BY <1>1, <1>2, <2>5 DEF FramesOk
      <4>2. frames'[g].await.keys = {}
        BY <2>1, <2>4, <2>5, <3>1, <4>1 DEF IsFrame, Awaits
      <4> QED
        BY <2>5, <4>2 DEF Calls
    <3>2. CASE g # p
      BY <1>1, <2>1, <2>3, <2>4, <2>5, <3>2, Ids
    <3> QED
      BY <3>1, <3>2
  <2>6. \A q \in Ops : f # RootId(q)
    BY <1>5, Ids
  <2> HIDE DEF rest
  <2> QED
    BY <1>1, <2>1, <2>2, <2>5, <2>6, <1>6 DEF AllThere, RootsThere, ChildrenThere
<1> QED
  BY <1>3, <1>4, <1>5

LEMMA NextThere ==
  ASSUME IInv, AllThere, [Next]_vars
  PROVE  RootsThere(frames', outcome') /\ ChildrenThere(frames')
<1>1. AllThere
  OBVIOUS
<1>2. FramesOk(frames, outcome) /\ outcome \in [Ops -> {"idle", "running", "done", "failed"}]
  BY DEF IInv, Good
<1>3. ASSUME NEW o \in Ops, Begin(o) PROVE RootsThere(frames', outcome') /\ ChildrenThere(frames')
  <2> DEFINE new == NewFrame(workload.query[o].dao, o, workload.query[o].plan, "id", Keys, Null)
  <2>1. frames' = Put(frames, RootId(o), new) /\ outcome' = [outcome EXCEPT ![o] = "running"]
    BY <1>3 DEF Begin
  <2>2. ~Calls(new)
    BY DEF Calls, NewFrame
  <2> HIDE DEF new
  <2>3. /\ DOMAIN frames' = DOMAIN frames \cup {RootId(o)} /\ frames'[RootId(o)] = new
        /\ \A g \in DOMAIN frames : g # RootId(o) => frames'[g] = frames[g]
    BY <2>1 DEF Put
  <2> QED
    BY <1>1, <1>2, <2>1, <2>2, <2>3 DEF AllThere, RootsThere, ChildrenThere
<1>4. ASSUME NEW f \in DOMAIN frames, outcome' = outcome, DOMAIN frames \subseteq DOMAIN frames',
             \A g \in DOMAIN frames' : g # f => (g \in DOMAIN frames /\ frames'[g] = frames[g]) \/ ~Calls(frames'[g]),
             ~Calls(frames'[f]) \/ DirectId(f) \in DOMAIN frames'
      PROVE  RootsThere(frames', outcome') /\ ChildrenThere(frames')
  BY <1>1, <1>4 DEF AllThere, RootsThere, ChildrenThere
<1>5. ASSUME NEW f \in DOMAIN frames, NEW r, NEW l \in Loader, NEW keys, LoadAll(f, r, l, keys)
      PROVE  /\ DOMAIN frames' = DOMAIN frames /\ ~Calls(frames'[f])
             /\ \A g \in DOMAIN frames : g # f => frames'[g] = frames[g]
  <2>1. IsFrame(frames[f]) /\ l # Null
    BY <1>2, Specials DEF FramesOk
  <2>2. frames'[f].await.loader = l
    BY <1>5, <2>1 DEF LoadAll, IsFrame
  <2> QED
    BY <1>5, <2>1, <2>2 DEF LoadAll, Calls
<1>6. ASSUME NEW f \in DOMAIN frames, NEW r, NEW got, SetResult(f, r, got)
      PROVE  /\ DOMAIN frames' = DOMAIN frames /\ ~Calls(frames'[f])
             /\ \A g \in DOMAIN frames : g # f => frames'[g] = frames[g]
  <2>1. IsFrame(frames[f])
    BY <1>2 DEF FramesOk
  <2>2. frames'[f].pc \in {"throw", "resolve"}
    BY <1>6, <2>1 DEF SetResult, IsFrame
  <2> QED
    BY <1>6, <2>2 DEF SetResult, Calls
<1>7. ASSUME NEW f \in DOMAIN frames, Advance(f) \/ Reject(f)
      PROVE  RootsThere(frames', outcome') /\ ChildrenThere(frames')
  <2>0. IsFrame(frames[f]) /\ AwaitInv(frames[f])
    BY <1>2 DEF FramesOk
  <2> DEFINE fr == frames[f]
             i == Current(fr)
             rel == RelationOf(fr, i)
  <2>1. CASE Read(f) \/ Reject(f)
    <3>1. /\ outcome' = outcome /\ DOMAIN frames' = DOMAIN frames
          /\ \A g \in DOMAIN frames : g # f => frames'[g] = frames[g]
      BY <2>1 DEF Read, Reject
    <3>2. frames'[f].pc \in {"resolve", "throw"}
      <4>1. CASE Read(f)
        <5>1. PICK recs : frames' = [frames EXCEPT ![f].pc = "resolve", ![f].recs = recs,
                                                   ![f].todo = (DOMAIN frames[f].plan) \X recs]
          BY <4>1 DEF Read
        <5> QED
          BY <2>0, <5>1 DEF IsFrame
      <4>2. CASE Reject(f)
        BY <2>0, <4>2 DEF Reject, IsFrame
      <4> QED
        BY <2>1, <4>1, <4>2
    <3> QED
      BY <1>4, <3>1, <3>2 DEF Calls
  <2>2. CASE LoadRows(f)
    <3>1. rel.join \in Daos
      BY <2>0, <2>2, CurrentFacts DEF LoadRows, NeedsRows
    <3>2. Hash(rel.join, NoOp, "id", RowPlan) \in Loader
      BY <3>1, Specials, HashType
    <3>3. outcome' = outcome
      BY <2>2 DEF LoadRows
    <3>4. LoadAll(f, Null, Hash(rel.join, NoOp, "id", RowPlan), {r.id : r \in fr.recs})
      BY <2>2 DEF LoadRows
    <3> HIDE DEF fr, rel
    <3> QED
      BY <1>4, <1>5, <3>2, <3>3, <3>4
  <2>3. CASE LoadLinks(f)
    <3>1. /\ outcome' = outcome /\ fr.todo # {}
          /\ \E r \in {q \in fr.recs : <<i, q>> \in fr.todo} :
               \/ SetResult(f, r, {})
               \/ LoadAll(f, r, Hash(rel.dao, fr.op, LinkKey(rel), fr.plan[i].plan), LinkKeys(rel, r, fr.rows))
               \/ FindDirectly(f, r, LinkKeys(rel, r, fr.rows))
      BY <2>3 DEF LoadLinks
    <3>2. PICK r : \/ SetResult(f, r, {})
                   \/ LoadAll(f, r, Hash(rel.dao, fr.op, LinkKey(rel), fr.plan[i].plan), LinkKeys(rel, r, fr.rows))
                   \/ FindDirectly(f, r, LinkKeys(rel, r, fr.rows))
      BY <3>1
    <3>3. CASE SetResult(f, r, {})
      BY <1>4, <1>6, <3>1, <3>3
    <3>4. CASE LoadAll(f, r, Hash(rel.dao, fr.op, LinkKey(rel), fr.plan[i].plan), LinkKeys(rel, r, fr.rows))
      <4>1. /\ rel \in Relation /\ rel.dao \in Daos /\ fr.plan[i].plan \in Plans[rel.dao]
            /\ fr.op \in Ops \cup {NoOp} /\ LinkKey(rel) \in {"id", "ref"}
        BY <2>0, <3>1, CurrentFacts DEF IsFrame, Relation, LinkKey
      <4> HIDE DEF fr, i, rel
      <4>2. Hash(rel.dao, fr.op, LinkKey(rel), fr.plan[i].plan) \in Loader
        BY <4>1, HashType
      <4> QED
        BY <1>4, <1>5, <3>1, <3>4, <4>2
    <3>5. CASE FindDirectly(f, r, LinkKeys(rel, r, fr.rows))
      <4> DEFINE keys == LinkKeys(rel, r, fr.rows)
                 new == NewFrame(rel.dao, fr.op, fr.plan[i].plan, LinkKey(rel), keys, fr.plan[i].limit)
                 kept == [frames EXCEPT ![f].pc = "wait", ![f].at = r, ![f].await.keys = keys]
      <4>1. frames' = Put(kept, DirectId(f), new)
        BY <3>5 DEF FindDirectly
      <4>2. ~Calls(new)
        BY DEF Calls, NewFrame
      <4>3. DOMAIN kept = DOMAIN frames /\ \A g \in DOMAIN frames : g # f => kept[g] = frames[g]
        OBVIOUS
      <4> HIDE DEF kept, new, fr, i, rel
      <4>4. /\ DOMAIN frames' = DOMAIN frames \cup {DirectId(f)} /\ frames'[DirectId(f)] = new
            /\ \A g \in DOMAIN frames : g # f /\ g # DirectId(f) => frames'[g] = frames[g]
        BY <4>1, <4>3 DEF Put
      <4> QED
        BY <1>4, <3>1, <4>2, <4>4
    <3> QED
      BY <3>2, <3>3, <3>4, <3>5
  <2>4. CASE Resume(f)
    <3>1. outcome' = outcome
      BY <2>4 DEF Resume
    <3>2. CASE SetResult(f, fr.at, fr.await.got)
      BY <1>4, <1>6, <3>1, <3>2
    <3>3. CASE ~SetResult(f, fr.at, fr.await.got)
      <4>1. /\ DOMAIN frames' = DOMAIN frames /\ \A g \in DOMAIN frames : g # f => frames'[g] = frames[g]
        BY <2>4, <3>3 DEF Resume
      <4>2. frames'[f].pc \in {"resolve", "throw"}
        BY <2>0, <2>4, <3>3 DEF Resume, IsFrame
      <4> QED
        BY <1>4, <3>1, <4>1, <4>2 DEF Calls
    <3> QED
      BY <3>2, <3>3
  <2>5. CASE Return(f)
    BY <2>5, EndThere DEF Return
  <2>6. CASE Throw(f)
    BY <2>6, EndThere DEF Throw
  <2> QED
    BY <1>7, <2>1, <2>2, <2>3, <2>4, <2>5, <2>6 DEF Advance
<1>8. ASSUME NEW l \in DOMAIN loaders, Dispatch(l)
      PROVE  RootsThere(frames', outcome') /\ ChildrenThere(frames')
  <2>1. PICK keys : /\ outcome' = outcome
                    /\ frames' = Put(frames, BatchId(l, keys), NewFrame(l.dao, l.op, l.plan, l.key, keys, Null))
    BY <1>8 DEF Dispatch
  <2> DEFINE new == NewFrame(l.dao, l.op, l.plan, l.key, keys, Null)
  <2>2. ~Calls(new)
    BY DEF Calls, NewFrame
  <2>3. frames' = Put(frames, BatchId(l, keys), new)
    BY <2>1
  <2> HIDE DEF new
  <2>4. /\ DOMAIN frames' = DOMAIN frames \cup {BatchId(l, keys)} /\ frames'[BatchId(l, keys)] = new
        /\ \A g \in DOMAIN frames : g # BatchId(l, keys) => frames'[g] = frames[g]
    BY <2>3 DEF Put
  <2> QED
    BY <1>1, <2>1, <2>2, <2>4 DEF AllThere, RootsThere, ChildrenThere
<1>9. CASE Write \/ UNCHANGED vars
  BY <1>1, <1>9 DEF Write, vars, AllThere
<1> QED
  BY <1>3, <1>7, <1>8, <1>9 DEF Next

LEMMA SubsetOfSize ==
  ASSUME NEW S, IsFiniteSet(S), NEW n \in Nat, n <= Cardinality(S)
  PROVE  \E T \in SUBSET S : Cardinality(T) = n
<1> DEFINE Large == {T \in SUBSET S : n <= Cardinality(T)}
           M == {Cardinality(T) : T \in Large}
<1>1. \A T \in SUBSET S : IsFiniteSet(T) /\ Cardinality(T) \in Nat
  BY FS_Subset, FS_CardinalityType
<1>2. \E m \in M : \A u \in M : m <= u
  <2>1. M \subseteq Nat /\ M # {}
    BY <1>1
  <2> HIDE DEF M
  <2> QED
    BY <2>1, Least
<1>3. PICK T \in Large : \A U \in Large : Cardinality(T) <= Cardinality(U)
  BY <1>2
<1>4. SUFFICES ASSUME Cardinality(T) # n PROVE FALSE
  BY <1>3
<1>5. n < Cardinality(T) /\ Cardinality(T) \in Nat
  BY <1>1, <1>3, <1>4
<1>6. T # {}
  BY <1>5, FS_EmptySet
<1>7. PICK x \in T : TRUE
  BY <1>6
<1>8. Cardinality(T \ {x}) = Cardinality(T) - 1
  BY <1>1, <1>3, <1>7, FS_RemoveElement
<1>9. T \ {x} \in Large
  BY <1>3, <1>5, <1>8
<1> QED
  BY <1>3, <1>5, <1>8, <1>9

(* A driver can answer, and a loader with a queue start a batch.           *)
LEMMA AnswersExist ==
  ASSUME IInv, IsFiniteSet(Keys), NEW f \in DOMAIN frames
  PROVE  Answers(frames[f]) # {}
<1> DEFINE fr == frames[f]
           found == Having(Db[fr.dao], fr.key, fr.keys)
<1>1. fr.dao \in Daos /\ fr.limit \in Nat \cup {Null}
  BY DEF IInv, Good, FramesOk, IsFrame
<1>2. Page(fr) = Null \/ Page(fr) \in Nat
  BY <1>1, LoaderAssumption DEF Page
<1>3. IsFiniteSet(found) /\ Cardinality(found) \in Nat
  <2>1. Db[fr.dao] \subseteq Rec
    BY <1>1, DbFacts DEF IInv, Db
  <2>2. found \subseteq Rec
    BY <2>1 DEF Having
  <2> QED
    BY <2>2, RecFinite, FS_Subset, FS_CardinalityType
<1>4. CASE Page(fr) = Null \/ Cardinality(found) <= Page(fr)
  BY <1>4 DEF Answers
<1>5. CASE ~(Page(fr) = Null \/ Cardinality(found) <= Page(fr))
  <2>1. Page(fr) \in Nat /\ Page(fr) <= Cardinality(found)
    BY <1>2, <1>3, <1>5
  <2> HIDE DEF fr, found
  <2>2. \E S \in SUBSET found : Cardinality(S) = Page(fr)
    BY <1>3, <2>1, SubsetOfSize
  <2>3. {S \in SUBSET found : Cardinality(S) = Page(fr)} # {}
    BY <2>2
  <2> QED
    BY <1>5, <2>3 DEF fr, found, Answers
<1> QED
  BY <1>4, <1>5

LEMMA QueueDispatches ==
  ASSUME IInv, IsFiniteSet(Keys), NEW l \in DOMAIN loaders, loaders[l].queue # {}
  PROVE  CanDispatch(l)
<1> DEFINE queue == loaders[l].queue
<1>1. queue \subseteq Keys
  BY DEF IInv, Good, LoadersOk, IsLoader
<1>2. IsFiniteSet(queue) /\ Cardinality(queue) \in Nat
  BY <1>1, FS_Subset, FS_CardinalityType
<1>3. PageSize \in Nat /\ PageSize # 0
  BY LoaderAssumption
<1>4. CASE Cardinality(queue) <= PageSize
  BY <1>4 DEF CanDispatch, BatchSize
<1>5. CASE PageSize <= Cardinality(queue)
  <2> HIDE DEF queue
  <2>1. PICK keys \in SUBSET queue : Cardinality(keys) = PageSize
    BY <1>2, <1>3, <1>5, SubsetOfSize
  <2>2. keys # {}
    BY <1>3, <2>1, FS_EmptySet
  <2>3. Cardinality(keys) <= PageSize
    BY <1>3, <2>1
  <2> QED
    BY <2>1, <2>2, <2>3 DEF queue, CanDispatch, BatchSize
<1> QED
  BY <1>2, <1>3, <1>4, <1>5

(* A frame can go on unless it awaits keys.                                *)
LEMMA AdvancesOrAwaits ==
  ASSUME IInv, IsFiniteSet(Keys), NEW f \in DOMAIN frames, ~CanAdvance(f)
  PROVE  frames[f].pc = "wait" /\ frames[f].await.keys # {} /\ Waits(frames[f])
<1>1. IsFrame(frames[f]) /\ AwaitInv(frames[f])
  BY DEF IInv, Good, FramesOk
<1>2. frames[f].pc \in {"read", "resolve", "wait", "throw"}
  BY <1>1 DEF IsFrame
<1>3. frames[f].todo # {} => \E r \in frames[f].recs : <<Current(frames[f]), r>> \in frames[f].todo
  BY <1>1, CurrentFacts
<1> QED
  BY <1>1, <1>2, <1>3, AnswersExist DEF CanAdvance, AwaitInv


(* Of the frames of an operation, one whose projection is nested least     *)
(* waits for none of them.                                                 *)
LEMMA NotStuck ==
  ASSUME IInv, Fresh, AllThere, IsFiniteSet(Keys), NEW N \in Nat, NestedUpTo(N),
         NEW o \in Ops, outcome[o] = "running",
         \A f \in DOMAIN frames : frames[f].op = o =>
           /\ ~CanAdvance(f)
           /\ AwaitsLoader(frames[f]) =>
                /\ ~CanDispatch(frames[f].await.loader)
                /\ \A b \in DOMAIN frames : b.loader = frames[f].await.loader => ~CanAdvance(b)
  PROVE  FALSE
<1> DEFINE O == {g \in DOMAIN frames : frames[g].op = o}
<1>1. FramesOk(frames, outcome) /\ AwaitsOk(loaders, frames)
  BY DEF IInv, Good
<1>2. O # {}
  <2>1. RootId(o) \in DOMAIN frames
    BY DEF AllThere, RootsThere
  <2>2. RootId(o).op # Null
    BY Ids
  <2>3. PICK q \in Ops : RootId(o) = RootId(q) /\ frames[RootId(o)].op = q
    BY <1>1, <2>1, <2>2, Kinds DEF IsRoot
  <2> QED
    BY <2>1, <2>3, Ids
<1>3. PICK depth : IsDepth(depth, N)
  BY DEF NestedUpTo
<1> DEFINE T == {depth[frames[g].plan] : g \in O}
<1>4. \A g \in DOMAIN frames : frames[g].plan \in AllPlans
  BY <1>1 DEF FramesOk, IsFrame
<1>5. \A g \in O : depth[frames[g].plan] \in Nat
  BY <1>3, <1>4 DEF IsDepth
<1>6. \E t \in T : \A u \in T : t <= u
  <2>1. T \subseteq Nat /\ T # {}
    BY <1>2, <1>5
  <2> HIDE DEF T
  <2> QED
    BY <2>1, Least
<1>7. PICK g \in O : \A h \in O : depth[frames[g].plan] <= depth[frames[h].plan]
  BY <1>6
<1>8. IsFrame(frames[g]) /\ AwaitInv(frames[g]) /\ frames[g].op = o
  BY <1>1 DEF FramesOk
<1>9. frames[g].pc = "wait" /\ frames[g].await.keys # {} /\ Waits(frames[g])
  BY AdvancesOrAwaits
<1>10. ASSUME NEW h \in O, frames[h].plan = frames[g].plan[Current(frames[g])].plan PROVE FALSE
  <2>1. depth[frames[h].plan] < depth[frames[g].plan]
    BY <1>3, <1>8, <1>9, <1>10, Deeper
  <2>2. depth[frames[g].plan] <= depth[frames[h].plan]
    BY <1>7
  <2>3. depth[frames[h].plan] \in Nat /\ depth[frames[g].plan] \in Nat
    BY <1>5
  <2> QED
    BY <2>1, <2>2, <2>3
<1>11. CASE frames[g].await.loader = Null
  <2>1. DirectId(g) \in DOMAIN frames
    BY <1>9, <1>11 DEF AllThere, ChildrenThere, Calls
  <2>2. DirectId(g).op = Null /\ DirectId(g).loader = Null
    BY Ids
  <2>3. PICK p \in DOMAIN frames : DirectId(g) = DirectId(p) /\ IsChild(frames[p], frames[DirectId(g)])
    BY <1>1, <2>1, <2>2, Kinds DEF IsDirect
  <2>4. IsChild(frames[g], frames[DirectId(g)])
    BY <2>3, Ids
  <2> QED
    BY <1>8, <1>10, <2>1, <2>4 DEF IsChild
<1>12. CASE frames[g].await.loader # Null
  <2> DEFINE l == frames[g].await.loader
  <2>1. l \in DOMAIN loaders /\ l.op \in {NoOp, o} /\ l \in Loader
    BY <1>1, <1>8, <1>12 DEF AwaitsOk, AwaitInv, IsFrame, Awaits
  <2>2. PICK k \in frames[g].await.keys : TRUE
    BY <1>9
  <2>3. k \in loaders[l].queue \/ Reads(frames, l, k) # {}
    BY <1>1, <1>12, <2>2 DEF AwaitsOk
  <2>4. loaders[l].queue = {}
    BY <1>8, <1>9, <1>12, <2>1, QueueDispatches DEF AwaitsLoader
  <2>5. PICK b \in DOMAIN frames : b.loader = l
    BY <2>3, <2>4 DEF Reads
  <2>6. b.op = Null
    <3>1. b.loader # Null
      BY <1>12, <2>5
    <3>2. \A q \in Ops : b # RootId(q)
      BY <3>1, Ids
    <3> QED
      BY <1>1, <3>2, Kinds DEF IsRoot
  <2>7. PICK m \in Loader, keys \in SUBSET Keys :
          b = BatchId(m, keys) /\ frames[b].op = m.op /\ frames[b].plan = m.plan
    BY <1>1, <1>12, <2>5, <2>6, Kinds DEF IsBatch
  <2>8. frames[b].op = l.op /\ frames[b].plan = l.plan
    BY <2>5, <2>7, Ids
  <2>9. CASE l.op = o
    <3>1. l.plan = frames[g].plan[Current(frames[g])].plan
      BY <1>8, <1>9, <1>12, <2>9, LoaderOfOp
    <3> QED
      BY <1>10, <2>8, <2>9, <3>1
  <2>10. CASE l.op = NoOp
    <3>1. FrameFresh(States(history, began, frames[b].op), frames[b])
      BY DEF Fresh, AllFresh
    <3>2. frames[b].plan = RowPlan
      BY <2>8, <2>10, <3>1 DEF FrameFresh
    <3>3. ~CanAdvance(b)
      BY <1>8, <1>9, <1>12, <2>5 DEF AwaitsLoader
    <3>4. Waits(frames[b])
      BY <3>3, AdvancesOrAwaits
    <3>5. IsFrame(frames[b]) /\ frames[b].todo # {}
      BY <1>1, <3>4 DEF FramesOk, Waits
    <3>6. Current(frames[b]) \in DOMAIN frames[b].plan
      BY <3>5, CurrentFacts
    <3> QED
      BY <3>2, <3>6 DEF RowPlan
  <2> QED
    BY <2>1, <2>9, <2>10
<1> QED
  BY <1>11, <1>12

(* While an operation runs, a step of its own finds, or of a load that one *)
(* of them waits for, is possible, whatever other operations are doing,    *)
(* however loads are shared and whichever relations lead back to where     *)
(* they came from: it never waits for a load that waits for it.            *)
THEOREM OperationsNeverStuck ==
  ASSUME NEW N \in Nat, NestedUpTo(N), IsFiniteSet(Keys)
  PROVE  Spec => []NeverStuck
<1>1. Init => AllThere
  BY DEF Init, AllThere, RootsThere, ChildrenThere
<1>2. IInv /\ AllThere /\ [Next]_vars => AllThere'
  BY NextThere DEF AllThere, RootsThere, ChildrenThere, Calls
<1>3. IInv /\ Fresh /\ AllThere => NeverStuck
  BY NotStuck DEF NeverStuck
<1>4. Spec => []IInv
  BY LoaderInvariant
<1>5. Spec => []Fresh
  BY FreshInvariant
<1> QED
  BY <1>1, <1>2, <1>3, <1>4, <1>5, PTL DEF Spec

=============================================================================
