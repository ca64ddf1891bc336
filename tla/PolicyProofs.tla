---------------------------- MODULE PolicyProofs ----------------------------
(***************************************************************************)
(* Proofs about SecurityPolicy, for every policy, every mapping of domains,*)
(* all contexts and all sets of records, projections and domains.          *)
(*                                                                         *)
(* The argument: for a record of the operation's domain, what CrudPolicy   *)
(* computes from the domain alone is no more than what the permissions     *)
(* that hold for the record grant (Bounded), since the domain lists the    *)
(* record's own value of each field and the intersection over the values   *)
(* is within the rights for that one.                                      *)
(***************************************************************************)
EXTENDS SecurityPolicy, TLAPS

(* One crud allows no more than another. *)
Within(c, d) ==
  /\ c.read \subseteq d.read
  /\ c.create => d.create
  /\ c.update => d.update
  /\ c.delete => d.delete

-----------------------------------------------------------------------------
(* The algebra of cruds. *)

LEMMA OrFacts ==
  ASSUME NEW S
  PROVE  /\ \A c \in S : Within(c, Or(S))
         /\ \A d : (\A c \in S : Within(c, d)) => Within(Or(S), d)
BY DEF Or, Within

LEMMA AndFacts ==
  ASSUME NEW S
  PROVE  \A c \in S : Within(And(S), c)
BY DEF And, Within

LEMMA WithinTransitive ==
  ASSUME NEW c, NEW d, NEW e, Within(c, d), Within(d, e)
  PROVE  Within(c, e)
BY DEF Within

LEMMA OrMonotone ==
  ASSUME NEW S, NEW T, \A c \in S : \E d \in T : Within(c, d)
  PROVE  Within(Or(S), Or(T))
<1>1. \A c \in S : Within(c, Or(T))
  BY OrFacts, WithinTransitive
<1> QED
  BY <1>1, OrFacts

LEMMA AndMonotone ==
  ASSUME NEW S, NEW T, \A d \in T : \E c \in S : Within(c, d)
  PROVE  Within(And(S), And(T))
BY DEF And, Within

LEMMA CrudsMonotone ==
  ASSUME NEW P, NEW Q, P \subseteq Q
  PROVE  Within(Or(Cruds(P)), Or(Cruds(Q)))
BY DEF Or, Within, Cruds

-----------------------------------------------------------------------------
(* Rights in a domain and rights for a record. *)

(* An atom that fits a record's own value agrees with the record. *)
LEMMA FittingAgrees ==
  ASSUME NEW a, NEW dom, NEW rec, NEW f \in DOMAIN dom,
         Separate(a, dom), InDomain(rec, dom)
  PROVE  HeldFor(a, f, rec[f], dom) \subseteq HeldOn(a, rec)
<1> SUFFICES ASSUME NEW p \in Restricted(a), NEW atom \in Held(a, p), Fits(atom, f, rec[f], dom)
             PROVE  Agrees(atom, rec)
  BY DEF HeldFor, HeldOn
<1> SUFFICES ASSUME NEW g \in DOMAIN atom, g # f
             PROVE  rec[g] = atom[g]
  BY DEF Agrees, Fits
<1>1. g \in DOMAIN dom /\ atom[g] \in dom[g] /\ rec[g] \in dom[g]
  BY DEF Fits, InDomain
<1>2. \A v, w \in dom[g] : v = w
  BY <1>1 DEF Separate, Fits
<1> QED
  BY <1>1, <1>2

LEMMA Bounded ==
  ASSUME NEW a, NEW dom, NEW rec, Separate(a, dom), InDomain(rec, dom)
  PROVE  Within(CrudPolicy(a, dom), Entitled(a, rec))
<1> DEFINE held == Cruds(HeldOn(a, rec))
<1>1. \A c \in held \cup Defaults : Within(c, Entitled(a, rec))
  BY OrFacts DEF Entitled
<1>2. ASSUME NEW f \in DOMAIN dom
      PROVE  Within(FieldCrud(a, f, dom), Entitled(a, rec))
  <2> DEFINE own == Or(Cruds(HeldFor(a, f, rec[f], dom)))
  <2>1. Within(FieldCrud(a, f, dom), own)
    <3>1. rec[f] \in dom[f]
      BY DEF InDomain
    <3>2. own \in {Or(Cruds(HeldFor(a, f, v, dom))) : v \in dom[f]}
      BY <3>1
    <3> HIDE DEF own
    <3> QED
      BY <3>2, AndFacts DEF FieldCrud
  <2>2. Within(own, Or(held))
    BY FittingAgrees, CrudsMonotone
  <2>3. Within(Or(held), Entitled(a, rec))
    BY <1>1, OrFacts
  <2> HIDE DEF own, held
  <2> QED
    BY <2>1, <2>2, <2>3, WithinTransitive
<1>3. Cruds(Unrestricted(a)) \subseteq held
  BY DEF Cruds, HeldOn
<1> QED
  BY <1>1, <1>2, <1>3, OrFacts DEF CrudPolicy

(* What an insertion is checked against is within the rights, too. *)
LEMMA InsertBounded ==
  ASSUME NEW a, NEW rec
  PROVE  Within(InsertCrud(a, rec), Entitled(a, rec))
BY DEF InsertCrud, Entitled, Or, Within

(* Holding more never takes a right away. *)
LEMMA CoversMonotone ==
  ASSUME NEW a, NEW b, NEW dom, Covers(a, b)
  PROVE  Within(CrudPolicy(b, dom), CrudPolicy(a, dom))
<1>1. Unrestricted(b) \subseteq Unrestricted(a)
  BY DEF Covers, Restricted, Unrestricted
<1>2. ASSUME NEW f, NEW v
      PROVE  HeldFor(b, f, v, dom) \subseteq HeldFor(a, f, v, dom)
  <2> SUFFICES ASSUME NEW p \in Restricted(b), NEW atom \in Held(b, p), Fits(atom, f, v, dom)
               PROVE  p \in HeldFor(a, f, v, dom)
    BY <1>1 DEF HeldFor
  <2>1. p \in Related(a)
    BY DEF Covers, Restricted
  <2>2. CASE p \in Unrestricted(a)
    BY <2>2 DEF HeldFor
  <2>3. CASE p \in Restricted(a)
    BY <2>3 DEF HeldFor, Covers, Restricted
  <2> QED
    BY <2>1, <2>2, <2>3 DEF Restricted
<1>3. ASSUME NEW f \in DOMAIN dom
      PROVE  Within(FieldCrud(b, f, dom), FieldCrud(a, f, dom))
  <2>1. \A v : Within(Or(Cruds(HeldFor(b, f, v, dom))), Or(Cruds(HeldFor(a, f, v, dom))))
    BY <1>2, CrudsMonotone
  <2> QED
    BY <2>1, AndMonotone DEF FieldCrud
<1>4. Cruds(Unrestricted(b)) \subseteq Cruds(Unrestricted(a))
  BY <1>1 DEF Cruds
<1>5. \A c : Within(c, c)
  BY DEF Within
<1> QED
  BY <1>3, <1>4, <1>5, OrMonotone DEF CrudPolicy

-----------------------------------------------------------------------------
(* What a step of the system can be. *)

(* The records an operation is applied to, and what becomes of them. *)
Touched(req) ==
  \A x \in Ids : store'[x] = store[x] \/ x \in Hits(req)

Inserted(a) ==
  \E x \in Ids \ Present, rec \in Rec :
    InsertCrud(a, rec).create /\ store' = [store EXCEPT ![x] = rec]

(* A request of an operation is executed, or refused and changes nothing. *)
Executed(a, req) ==
  /\ reply' = [actor |-> a, req |-> req, outcome |-> "done", got |-> reply'.got]
  /\ \/ /\ req.op = "insert" /\ Inserted(a) /\ reply'.got = {}
     \/ /\ req.op = "read" /\ Allowed(a, req) /\ UNCHANGED store
        /\ reply'.got = {store[x] : x \in Hits(req)}
     \/ /\ req.op \in {"update", "replace", "delete"} /\ Allowed(a, req) /\ Touched(req)
        /\ reply'.got = {}

Rejected(a, req) ==
  /\ reply' = [actor |-> a, req |-> req, outcome |-> "error", got |-> {}]
  /\ req.op # "insert" => ~Allowed(a, req)
  /\ UNCHANGED store

LEMMA AskedOps ==
  ASSUME NEW op, NEW projections, NEW req \in Asked(op, projections)
  PROVE  req.op = op
BY DEF Asked

LEMMA EveryStep ==
  ASSUME TypeOK, [Next]_vars
  PROVE  \/ UNCHANGED vars
         \/ reply' = NoReply /\ UNCHANGED store
         \/ \E a \in Actors : \E req : Executed(a, req) \/ Rejected(a, req)
<1> DEFINE Made(a) == \E req : Executed(a, req) \/ Rejected(a, req)
<1>1. ASSUME NEW a \in Actors, Insert(a)  PROVE Made(a)
  <2>1. Request("insert").op = "insert"
    BY DEF Request
  <2> QED
    BY <1>1, <2>1 DEF Insert, Executed, Rejected, Inserted, Respond
<1>2. ASSUME NEW a \in Actors, Read(a)  PROVE Made(a)
  <2>1. PICK req \in Asked("read", Projections) :
          \/ Refused(a, req)
          \/ /\ Allowed(a, req)
             /\ Respond(a, req, "done", {store[x] : x \in Hits(req)})
             /\ UNCHANGED store
    BY <1>2 DEF Read
  <2>2. req.op = "read"
    BY AskedOps
  <2> QED
    BY <2>1, <2>2 DEF Executed, Rejected, Respond, Refused
<1>3. ASSUME NEW a \in Actors, Update(a)  PROVE Made(a)
  <2>1. PICK req \in Asked("update", {Nodes}) :
          \/ Refused(a, req)
          \/ /\ Allowed(a, req)
             /\ \E ch \in Changes, S \in {Hits(req)} \cup {{x} : x \in Hits(req)} :
                  store' = [x \in Ids |-> IF x \in S THEN Updated(store[x], ch) ELSE store[x]]
             /\ Respond(a, req, "done", {})
    BY <1>3 DEF Update
  <2>2. req.op = "update"
    BY AskedOps
  <2>3. CASE Refused(a, req)
    BY <2>2, <2>3 DEF Refused, Rejected, Respond
  <2>4. CASE ~Refused(a, req)
    <3>1. PICK ch \in Changes, S \in {Hits(req)} \cup {{x} : x \in Hits(req)} :
            store' = [x \in Ids |-> IF x \in S THEN Updated(store[x], ch) ELSE store[x]]
      BY <2>1, <2>4
    <3>2. S \subseteq Hits(req)
      OBVIOUS
    <3>3. Touched(req)
      BY <3>1, <3>2 DEF Touched
    <3> QED
      BY <2>1, <2>2, <2>4, <3>3 DEF Executed, Respond
  <2> QED
    BY <2>3, <2>4
<1>4. ASSUME NEW a \in Actors, Replace(a)  PROVE Made(a)
  <2>1. PICK req \in Asked("replace", {Nodes}) :
          \/ Refused(a, req)
          \/ /\ Allowed(a, req)
             /\ \/ Hits(req) = {} /\ UNCHANGED store
                \/ \E x \in Hits(req), rec \in Rec : store' = [store EXCEPT ![x] = rec]
             /\ Respond(a, req, "done", {})
    BY <1>4 DEF Replace
  <2>2. req.op = "replace"
    BY AskedOps
  <2>3. CASE Refused(a, req)
    BY <2>2, <2>3 DEF Refused, Rejected, Respond
  <2>4. CASE ~Refused(a, req)
    <3>1. Touched(req)
      BY <2>1, <2>4 DEF Touched, TypeOK
    <3> QED
      BY <2>1, <2>2, <2>4, <3>1 DEF Executed, Respond
  <2> QED
    BY <2>3, <2>4
<1>5. ASSUME NEW a \in Actors, Delete(a)  PROVE Made(a)
  <2>1. PICK req \in Asked("delete", {Nodes}) :
          \/ Refused(a, req)
          \/ /\ Allowed(a, req)
             /\ \E S \in {Hits(req)} \cup {{x} : x \in Hits(req)} :
                  store' = [x \in Ids |-> IF x \in S THEN None ELSE store[x]]
             /\ Respond(a, req, "done", {})
    BY <1>5 DEF Delete
  <2>2. req.op = "delete"
    BY AskedOps
  <2>3. CASE Refused(a, req)
    BY <2>2, <2>3 DEF Refused, Rejected, Respond
  <2>4. CASE ~Refused(a, req)
    <3>1. PICK S \in {Hits(req)} \cup {{x} : x \in Hits(req)} :
            store' = [x \in Ids |-> IF x \in S THEN None ELSE store[x]]
      BY <2>1, <2>4
    <3>2. S \subseteq Hits(req)
      OBVIOUS
    <3>3. Touched(req)
      BY <3>1, <3>2 DEF Touched
    <3> QED
      BY <2>1, <2>2, <2>4, <3>3 DEF Executed, Respond
  <2> QED
    BY <2>3, <2>4
<1> HIDE DEF Made
<1>6. ASSUME Next  PROVE (reply' = NoReply /\ UNCHANGED store) \/ \E a \in Actors : Made(a)
  BY <1>1, <1>2, <1>3, <1>4, <1>5, <1>6 DEF Next, Return
<1> QED
  BY <1>6 DEF Made

-----------------------------------------------------------------------------
(* Type correctness *)

LEMMA UpdatedType ==
  ASSUME NEW rec \in Rec, NEW ch \in Changes
  PROVE  Updated(rec, ch) \in Rec
BY PolicyAssumption DEF Updated, Rec

LEMMA HitsPresent ==
  ASSUME TypeOK, NEW req, NEW x \in Hits(req)
  PROVE  x \in Ids /\ store[x] \in Rec /\ InDomain(store[x], Mapped(req.domain))
BY DEF Hits, Present, TypeOK

(* Stored and returned records are well formed in every reachable state.   *)
THEOREM TypeCorrect == Spec => []TypeOK
<1>1. Init => TypeOK
  BY DEF Init, TypeOK, NoReply
<1>2. TypeOK /\ [Next]_vars => TypeOK'
  <2> SUFFICES ASSUME TypeOK, [Next]_vars
               PROVE  TypeOK'
    OBVIOUS
  <2>1. store' \in [Ids -> Rec \cup {None}]
    <3>1. CASE UNCHANGED store
      BY <3>1 DEF TypeOK
    <3>2. ASSUME NEW a \in Actors, Insert(a)  PROVE store' \in [Ids -> Rec \cup {None}]
      BY <3>2 DEF Insert, TypeOK
    <3>3. ASSUME NEW a \in Actors, Update(a)  PROVE store' \in [Ids -> Rec \cup {None}]
      <4>1. CASE UNCHANGED store
        BY <4>1 DEF TypeOK
      <4>2. CASE ~UNCHANGED store
        <5>1. PICK req \in Asked("update", {Nodes}) :
                \E ch \in Changes, S \in {Hits(req)} \cup {{x} : x \in Hits(req)} :
                  store' = [x \in Ids |-> IF x \in S THEN Updated(store[x], ch) ELSE store[x]]
          BY <3>3, <4>2 DEF Update, Refused
        <5> PICK ch \in Changes, S \in {Hits(req)} \cup {{x} : x \in Hits(req)} :
              store' = [x \in Ids |-> IF x \in S THEN Updated(store[x], ch) ELSE store[x]]
          BY <5>1
        <5>2. \A x \in S : Updated(store[x], ch) \in Rec
          BY HitsPresent, UpdatedType
        <5> QED
          BY <5>2 DEF TypeOK
      <4> QED
        BY <4>1, <4>2
    <3>4. ASSUME NEW a \in Actors, Replace(a)  PROVE store' \in [Ids -> Rec \cup {None}]
      BY <3>4, HitsPresent DEF Replace, Refused, TypeOK
    <3>5. ASSUME NEW a \in Actors, Delete(a)  PROVE store' \in [Ids -> Rec \cup {None}]
      BY <3>5 DEF Delete, Refused, TypeOK
    <3>6. ASSUME NEW a \in Actors, Read(a)  PROVE UNCHANGED store
      BY <3>6 DEF Read, Refused
    <3> QED
      BY <3>1, <3>2, <3>3, <3>4, <3>5, <3>6 DEF Next, Return, vars
  <2>2. reply'.actor \in Actors \cup {None} /\ reply'.got \subseteq Rec
    <3>1. CASE UNCHANGED vars
      BY <3>1 DEF TypeOK, vars
    <3>2. CASE reply' = NoReply
      BY <3>2 DEF NoReply
    <3>3. ASSUME NEW a \in Actors, NEW req, Executed(a, req)
          PROVE  reply'.actor = a /\ reply'.got \subseteq Rec
      BY <3>3, HitsPresent DEF Executed
    <3>4. ASSUME NEW a \in Actors, NEW req, Rejected(a, req)
          PROVE  reply'.actor = a /\ reply'.got \subseteq Rec
      BY <3>4 DEF Rejected
    <3> QED
      BY <3>1, <3>2, <3>3, <3>4, EveryStep
  <2> QED
    BY <2>1, <2>2 DEF TypeOK
<1> QED
  BY <1>1, <1>2, PTL DEF Spec

-----------------------------------------------------------------------------
(* The properties *)

(* What is allowed in a domain is granted for each record of that domain.  *)
LEMMA AllowedIsGranted ==
  ASSUME TypeOK, NEW a, NEW req, NEW x \in Hits(req), Allowed(a, req),
         Separate(a, Mapped(req.domain))
  PROVE  /\ req.op = "read" => req.wanted \subseteq Entitled(a, store[x]).read
         /\ req.op \in {"update", "replace"} => Entitled(a, store[x]).update
         /\ req.op = "delete" => Entitled(a, store[x]).delete
<1>1. InDomain(store[x], Mapped(req.domain))
  BY HitsPresent
<1>2. Within(CrudPolicy(a, Mapped(req.domain)), Entitled(a, store[x]))
  BY <1>1, Bounded
<1> QED
  BY <1>2 DEF Allowed, Within

(* No read returns a record unless permissions that hold for that record   *)
(* allow all that was asked for.                                           *)
THEOREM ReadsAlwaysPermitted == Spec => []ReadsPermitted
<1>1. Init => ReadsPermitted
  BY DEF Init, ReadsPermitted, NoReply
<1>2. TypeOK /\ ReadsPermitted /\ [Next]_vars => ReadsPermitted'
  <2> SUFFICES ASSUME TypeOK, ReadsPermitted, [Next]_vars
               PROVE  ReadsPermitted'
    OBVIOUS
  <2>1. CASE UNCHANGED vars
    BY <2>1 DEF ReadsPermitted, vars
  <2>2. CASE reply' = NoReply
    BY <2>2 DEF ReadsPermitted, NoReply
  <2>3. ASSUME NEW a \in Actors, NEW req, Executed(a, req)
        PROVE  ReadsPermitted'
    <3>1. CASE reply'.got = {}
      BY <3>1 DEF ReadsPermitted
    <3>2. CASE req.op = "read" /\ Allowed(a, req) /\ reply'.got = {store[x] : x \in Hits(req)}
      <4>1. reply'.actor = a /\ reply'.req = req
        BY <2>3 DEF Executed
      <4>2. ASSUME Separate(a, Mapped(req.domain)), NEW x \in Hits(req)
            PROVE  req.wanted \subseteq Entitled(a, store[x]).read
        BY <3>2, <4>2, AllowedIsGranted
      <4> QED
        BY <3>2, <4>1, <4>2 DEF ReadsPermitted
    <3> QED
      BY <2>3, <3>1, <3>2 DEF Executed
  <2>4. ASSUME NEW a \in Actors, NEW req, Rejected(a, req)
        PROVE  ReadsPermitted'
    BY <2>4 DEF ReadsPermitted, Rejected
  <2> QED
    BY <2>1, <2>2, <2>3, <2>4, EveryStep
<1> QED
  BY <1>1, <1>2, TypeCorrect, PTL DEF Spec

(* No record is inserted, changed or removed by an actor that may not do   *)
(* so with that record.                                                    *)
THEOREM WritesAlwaysPermitted == Spec => WritesPermitted
<1> DEFINE Permitted ==
      LET a == reply'.actor IN LET op == reply'.req.op IN
      a # None /\ Separate(a, Mapped(reply'.req.domain)) =>
        \A x \in Ids :
          \/ store'[x] = store[x]
          \/ op = "insert" /\ Entitled(a, store'[x]).create
          \/ op \in {"update", "replace"} /\ Entitled(a, store[x]).update
          \/ op = "delete" /\ Entitled(a, store[x]).delete
<1>1. TypeOK /\ [Next]_vars => [Permitted]_vars
  <2> SUFFICES ASSUME TypeOK, [Next]_vars, ~UNCHANGED store
               PROVE  Permitted
    BY DEF vars
  <2>1. PICK a, req : a \in Actors /\ Executed(a, req)
    BY EveryStep DEF Rejected, vars
  <2>2. reply'.actor = a /\ reply'.req = req
    BY <2>1 DEF Executed
  <2>3. CASE req.op = "insert" /\ Inserted(a)
    <3>1. PICK x, rec : /\ x \in Ids /\ InsertCrud(a, rec).create
                       /\ store' = [store EXCEPT ![x] = rec]
      BY <2>3 DEF Inserted
    <3>2. Entitled(a, rec).create
      BY <3>1, InsertBounded DEF Within
    <3>3. store'[x] = rec /\ \A y \in Ids \ {x} : store'[y] = store[y]
      BY <3>1 DEF TypeOK
    <3> QED
      BY <2>2, <2>3, <3>2, <3>3
  <2>4. CASE req.op \in {"update", "replace", "delete"} /\ Allowed(a, req) /\ Touched(req)
    <3>1. ASSUME Separate(a, Mapped(req.domain)), NEW x \in Hits(req)
          PROVE  /\ req.op \in {"update", "replace"} => Entitled(a, store[x]).update
                 /\ req.op = "delete" => Entitled(a, store[x]).delete
      BY <2>4, <3>1, AllowedIsGranted
    <3> QED
      BY <2>2, <2>4, <3>1 DEF Touched
  <2> QED
    BY <2>1, <2>3, <2>4 DEF Executed
<1> HIDE DEF Permitted
<1>2. Spec => [][Permitted]_vars
  BY <1>1, TypeCorrect, PTL DEF Spec
<1> QED
  BY <1>2 DEF WritesPermitted, Permitted

(* A permission held throughout a domain is enough to read there.          *)
LEMMA HeldThroughoutAllows ==
  ASSUME NEW a \in Actors, NEW dom, NEW p \in Related(a), HeldThroughout(a, p, dom)
  PROVE  Policy[p].read \cap Nodes \subseteq CrudPolicy(a, dom).read
<1>1. CASE p \in Unrestricted(a)
  BY <1>1 DEF CrudPolicy, Or, Cruds
<1>2. CASE p \notin Unrestricted(a)
  <2>1. PICK f \in DOMAIN dom : \A v \in dom[f] : [g \in {f} |-> v] \in Held(a, p)
    BY <1>2 DEF HeldThroughout
  <2>2. ASSUME NEW v \in dom[f]
        PROVE  p \in HeldFor(a, f, v, dom)
    <3>1. Fits([g \in {f} |-> v], f, v, dom)
      BY DEF Fits
    <3> QED
      BY <1>2, <2>1, <3>1 DEF HeldFor, Restricted
  <2>3. Policy[p].read \cap Nodes \subseteq FieldCrud(a, f, dom).read
    BY <2>2 DEF FieldCrud, And, Or, Cruds
  <2> QED
    BY <2>3 DEF CrudPolicy, Or
<1> QED
  BY <1>1, <1>2

(* Naming the domain in which a permission is held suffices to read what   *)
(* it allows of all records there.                                         *)
THEOREM GrantedAlwaysSuffices == Spec => GrantedSuffices
<1> DEFINE Granted(a, req) ==
      /\ req.op = "read"
      /\ \E p \in Related(a) : /\ req.wanted \subseteq Policy[p].read
                               /\ HeldThroughout(a, p, Mapped(req.domain))
    Suffices ==
      LET a == reply'.actor IN LET req == reply'.req IN
      req.op = "read" /\ (\E p \in Related(a) :
                            /\ req.wanted \subseteq Policy[p].read
                            /\ HeldThroughout(a, p, Mapped(req.domain))) =>
        /\ reply'.outcome = "done"
        /\ reply'.got = {store[x] : x \in Hits(req)}
<1>1. TypeOK /\ [Next]_vars => [Suffices]_vars
  <2> SUFFICES ASSUME TypeOK, [Next]_vars, ~UNCHANGED vars
               PROVE  Suffices
    OBVIOUS
  <2>1. CASE reply' = NoReply
    BY <2>1 DEF NoReply, Request
  <2>2. ASSUME NEW a \in Actors, NEW req, Executed(a, req)
        PROVE  Suffices
    <3>1. /\ reply'.actor = a /\ reply'.req = req /\ reply'.outcome = "done"
          /\ req.op = "read" => reply'.got = {store[x] : x \in Hits(req)}
      BY <2>2 DEF Executed
    <3> QED
      BY <3>1
  <2>3. ASSUME NEW a \in Actors, NEW req, Rejected(a, req), Granted(a, req)
        PROVE  FALSE
    <3>1. PICK p \in Related(a) : /\ req.wanted \subseteq Policy[p].read
                                  /\ HeldThroughout(a, p, Mapped(req.domain))
      BY <2>3
    <3>2. Policy[p].read \subseteq Nodes
      BY PolicyAssumption DEF Related, Crud
    <3>3. req.wanted \subseteq CrudPolicy(a, Mapped(req.domain)).read
      BY <3>1, <3>2, HeldThroughoutAllows
    <3> QED
      BY <2>3, <3>3 DEF Allowed, Rejected
  <2>4. ASSUME NEW a \in Actors, NEW req, Rejected(a, req)
        PROVE  reply'.actor = a /\ reply'.req = req
    BY <2>4 DEF Rejected
  <2> QED
    BY <2>1, <2>2, <2>3, <2>4, EveryStep
<1> HIDE DEF Suffices
<1>2. Spec => [][Suffices]_vars
  BY <1>1, TypeCorrect, PTL DEF Spec
<1> QED
  BY <1>2, PTL DEF GrantedSuffices, Suffices

(* Errors are answers to operations that were not allowed. *)
ErrorsAreRefusals ==
  reply.outcome = "error" /\ reply.req.op # "insert" => ~Allowed(reply.actor, reply.req)

LEMMA AllowedGrows ==
  ASSUME NEW a, NEW b, NEW req, Covers(a, b), Allowed(b, req)
  PROVE  Allowed(a, req)
BY CoversMonotone DEF Allowed, Within

(* What is refused to an actor is refused to every actor that holds less.  *)
THEOREM RefusalsAlwaysExtend == Spec => []RefusalsExtend
<1>1. Init => ErrorsAreRefusals
  BY DEF Init, ErrorsAreRefusals, NoReply
<1>2. TypeOK /\ ErrorsAreRefusals /\ [Next]_vars => ErrorsAreRefusals'
  <2> SUFFICES ASSUME TypeOK, ErrorsAreRefusals, [Next]_vars
               PROVE  ErrorsAreRefusals'
    OBVIOUS
  <2>1. CASE UNCHANGED vars
    BY <2>1 DEF ErrorsAreRefusals, vars
  <2>2. CASE reply' = NoReply
    BY <2>2 DEF ErrorsAreRefusals, NoReply
  <2>3. ASSUME NEW a \in Actors, NEW req, Executed(a, req)
        PROVE  ErrorsAreRefusals'
    BY <2>3 DEF ErrorsAreRefusals, Executed
  <2>4. ASSUME NEW a \in Actors, NEW req, Rejected(a, req)
        PROVE  ErrorsAreRefusals'
    BY <2>4 DEF ErrorsAreRefusals, Rejected
  <2> QED
    BY <2>1, <2>2, <2>3, <2>4, EveryStep
<1>3. ErrorsAreRefusals => RefusalsExtend
  BY AllowedGrows DEF ErrorsAreRefusals, RefusalsExtend
<1> QED
  BY <1>1, <1>2, <1>3, TypeCorrect, PTL DEF Spec
=============================================================================
