---------------------------- MODULE DriverProofs ----------------------------
(***************************************************************************)
(* Proofs about DriverCalls, for any number of clients and requests, any   *)
(* order of the middlewares, and each driver.                              *)
(*                                                                         *)
(* The argument: a request that has passed the middlewares is stamped with *)
(* the client and has its default values, whatever their order (Prepared). *)
(* From there CallInv says what is known of a call in each phase, and      *)
(* RecordsInv of the records: those that no write has gone past the        *)
(* middlewares to bear the stamp of their author, and those present are    *)
(* stored and live.                                                        *)
(***************************************************************************)
EXTENDS DriverCalls, FiniteSetTheorems, TLAPS, WellFoundedInduction

(* A nonempty set of natural numbers has a least element. *)
LEMMA Least ==
  ASSUME NEW S, S \subseteq Nat, S # {}
  PROVE  \E x \in S : \A y \in S : x <= y
<1> DEFINE Less == {p \in Nat \X Nat : p[1] < p[2]}
<1>1. IsWellFoundedOn(Less, Nat)
  BY NatLessThanWellFounded DEF OpToRel
<1>2. PICK x \in S : \A y \in S : <<y, x>> \notin Less
  <2> HIDE DEF Less
  <2> QED
    BY <1>1, WFMin
<1>3. \A y \in S : ~(y < x)
  BY <1>2
<1> QED
  BY <1>3

LEMMA NoneApart ==
  /\ None \notin Clients /\ None \notin Rec /\ None \notin BOOLEAN /\ None \notin Nat
  /\ MaxIds \in Nat
  /\ \A req \in Requests : req \in Request
BY CallsAssumption

(* Requests, with any ids: a resolver asks for the id it was given. *)
AnyRequest ==
  [op : Operations, ids : SUBSET Nat, live : SUBSET {TRUE, FALSE, None},
   rec : Rec, raw : BOOLEAN, limit : Nat \cup {None}]

(* Nobody but the client has put its name into a request. *)
Own(c, req) ==
  /\ req \in AnyRequest
  /\ req.rec.creator \in {None, c} /\ req.rec.modifier \in {None, c}
  /\ Inserts(req) \/ req.op = "replaceOne" => req.rec.modifier = None
  /\ req.raw => Updates(req)

Stamped(c, req) ==
  /\ Inserts(req) \/ req.op = "replaceOne" => req.rec.creator = c
  /\ Updates(req) /\ ~req.raw => req.rec.modifier = c

Filled(req) == Inserts(req) => req.rec.live # None

(* What every before function leaves of a request it passes on. *)
Passes(req, passed) ==
  /\ passed.op = req.op /\ passed.raw = req.raw /\ passed.ids = req.ids
  /\ req.rec.live # FALSE => passed.rec.live # FALSE
  /\ Filled(req) => Filled(passed)
  /\ ~Inserts(req) => passed.rec.live = req.rec.live
  /\ TRUE \in req.live => TRUE \in passed.live
  /\ passed.live \subseteq req.live

(* The update that softDelete makes of a deletion. *)
Marks(req) == Updates(req) /\ ~req.raw /\ req.rec.live = FALSE

(* What the before functions of M, passed so far, have made of a request. *)
Done(M, c, req) ==
  /\ "audit" \in M => Stamped(c, req)
  /\ "default" \in M => Filled(req)
  /\ "soft" \in M /\ c \in SoftClients /\ ~Inserts(req) => req.live \subseteq {TRUE}

-----------------------------------------------------------------------------
(* The middlewares *)

LEMMA RecFields ==
  ASSUME NEW req \in AnyRequest, NEW c \in Clients, NEW v \in BOOLEAN \cup {None}
  PROVE  /\ [req EXCEPT !.rec.creator = c] \in AnyRequest
         /\ [req EXCEPT !.rec.modifier = c] \in AnyRequest
         /\ [req EXCEPT !.rec.live = v] \in AnyRequest
         /\ [req EXCEPT !.rec.creator = c].rec = [req.rec EXCEPT !.creator = c]
         /\ [req EXCEPT !.rec.modifier = c].rec = [req.rec EXCEPT !.modifier = c]
         /\ [req EXCEPT !.rec.live = v].rec = [req.rec EXCEPT !.live = v]
BY DEF AnyRequest, Rec

LEMMA DefaultHook ==
  ASSUME NEW c \in Clients, NEW req, Own(c, req), NEW M, Done(M, c, req)
  PROVE  LET r == DefaultBefore(c, req) IN
         /\ r.next = "go" /\ Own(c, r.req) /\ Passes(req, r.req)
         /\ Done(M \cup {"default"}, c, r.req)
<1>1. CASE Inserts(req) /\ req.rec.live = None
  <2> DEFINE new == [req EXCEPT !.rec.live = TRUE]
  <2>1. DefaultBefore(c, req) = Go(new)
    BY <1>1 DEF DefaultBefore
  <2>2. Go(new).next = "go" /\ Go(new).req = new
    BY DEF Go
  <2>3. req \in AnyRequest
    BY DEF Own
  <2>4. new \in AnyRequest /\ new.rec = [req.rec EXCEPT !.live = TRUE]
    BY <2>3, RecFields
  <2>5. /\ new.op = req.op /\ new.ids = req.ids /\ new.raw = req.raw /\ new.live = req.live
        /\ new.rec.creator = req.rec.creator /\ new.rec.modifier = req.rec.modifier
        /\ new.rec.live = TRUE
    BY <2>3, <2>4 DEF AnyRequest, Rec
  <2> HIDE DEF new
  <2>6. TRUE # None
    BY NoneApart
  <2>7. Own(c, new) /\ Passes(req, new)
    BY <1>1, <2>4, <2>5, <2>6 DEF Own, Passes, Filled, Inserts, Updates
  <2>8. Done(M \cup {"default"}, c, new)
    BY <2>5, <2>6 DEF Done, Stamped, Filled, Inserts, Updates
  <2> QED
    BY <2>1, <2>2, <2>7, <2>8
<1>2. CASE ~(Inserts(req) /\ req.rec.live = None)
  <2>1. DefaultBefore(c, req) = Go(req)
    BY <1>2 DEF DefaultBefore
  <2>2. Go(req).next = "go" /\ Go(req).req = req
    BY DEF Go
  <2>3. Passes(req, req) /\ Done(M \cup {"default"}, c, req)
    BY <1>2 DEF Passes, Done, Filled
  <2> QED
    BY <2>1, <2>2, <2>3
<1> QED
  BY <1>1, <1>2

LEMMA AuditHook ==
  ASSUME NEW c \in Clients, NEW req, Own(c, req), NEW M, Done(M, c, req)
  PROVE  LET r == AuditBefore(c, req) IN
         /\ r.next = "go" /\ Own(c, r.req) /\ Passes(req, r.req)
         /\ Done(M \cup {"audit"}, c, r.req)
<1>0. req \in AnyRequest
  BY DEF Own
<1>1. CASE Inserts(req) \/ req.op = "replaceOne"
  <2> DEFINE new == [req EXCEPT !.rec.creator = c]
  <2>1. Unless(req.rec.creator, c) = c
    BY DEF Unless, Own
  <2>2. AuditBefore(c, req) = Go(new)
    BY <1>0, <1>1, <2>1 DEF AuditBefore, AnyRequest, Rec, Inserts, Updates
  <2>3. Go(new).next = "go" /\ Go(new).req = new
    BY DEF Go
  <2>4. new \in AnyRequest /\ new.rec = [req.rec EXCEPT !.creator = c]
    BY <1>0, RecFields
  <2>5. /\ new.op = req.op /\ new.ids = req.ids /\ new.raw = req.raw /\ new.live = req.live
        /\ new.rec.creator = c /\ new.rec.modifier = req.rec.modifier
        /\ new.rec.live = req.rec.live
    BY <1>0, <2>4 DEF AnyRequest, Rec
  <2> HIDE DEF new
  <2>6. Own(c, new) /\ Passes(req, new)
    BY <2>4, <2>5 DEF Own, Passes, Filled, Inserts, Updates
  <2>7. Done(M \cup {"audit"}, c, new)
    BY <1>1, <2>5 DEF Done, Stamped, Filled, Inserts, Updates
  <2> QED
    BY <2>2, <2>3, <2>6, <2>7
<1>2. CASE Updates(req) /\ ~req.raw
  <2> DEFINE new == [req EXCEPT !.rec.modifier = c]
  <2>1. Unless(req.rec.modifier, c) = c
    BY DEF Unless, Own
  <2>2. AuditBefore(c, req) = Go(new)
    BY <1>0, <1>2, <2>1 DEF AuditBefore, AnyRequest, Rec, Inserts, Updates
  <2>3. Go(new).next = "go" /\ Go(new).req = new
    BY DEF Go
  <2>4. new \in AnyRequest /\ new.rec = [req.rec EXCEPT !.modifier = c]
    BY <1>0, RecFields
  <2>5. /\ new.op = req.op /\ new.ids = req.ids /\ new.raw = req.raw /\ new.live = req.live
        /\ new.rec.creator = req.rec.creator /\ new.rec.modifier = c
        /\ new.rec.live = req.rec.live
    BY <1>0, <2>4 DEF AnyRequest, Rec
  <2> HIDE DEF new
  <2>6. Own(c, new) /\ Passes(req, new)
    BY <1>2, <2>4, <2>5 DEF Own, Passes, Filled, Inserts, Updates
  <2>7. Done(M \cup {"audit"}, c, new)
    BY <1>2, <2>5 DEF Done, Stamped, Filled, Inserts, Updates
  <2> QED
    BY <2>2, <2>3, <2>6, <2>7
<1>3. CASE ~(Inserts(req) \/ req.op = "replaceOne") /\ ~(Updates(req) /\ ~req.raw)
  <2>1. AuditBefore(c, req) = Go(req)
    BY <1>3 DEF AuditBefore
  <2>2. Go(req).next = "go" /\ Go(req).req = req
    BY DEF Go
  <2>3. Passes(req, req) /\ Done(M \cup {"audit"}, c, req)
    BY <1>3 DEF Passes, Done, Stamped
  <2> QED
    BY <2>1, <2>2, <2>3
<1> QED
  BY <1>1, <1>2, <1>3

LEMMA SoftHook ==
  ASSUME NEW c \in Clients, NEW req, Own(c, req), NEW M, Done(M, c, req)
  PROVE  LET r == SoftBefore(c, req) IN
         \/ /\ r.next = "go" /\ Own(c, r.req) /\ Passes(req, r.req)
            /\ Done(M \cup {"soft"}, c, r.req)
         \/ /\ r.next = "instead" /\ Own(c, r.req)
            /\ Deletes(req) /\ Marks(r.req)
<1>0. req \in AnyRequest
  BY DEF Own
<1>1. CASE c \notin SoftClients \/ Inserts(req)
  <2>1. SoftBefore(c, req) = Go(req)
    BY <1>1 DEF SoftBefore, Inserts, Deletes
  <2>2. Go(req).next = "go" /\ Go(req).req = req
    BY DEF Go
  <2>3. Passes(req, req) /\ Done(M \cup {"soft"}, c, req)
    BY <1>1 DEF Passes, Done
  <2> QED
    BY <2>1, <2>2, <2>3
<1>2. CASE c \in SoftClients /\ Deletes(req)
  <2> DEFINE op == IF req.op = "deleteAll" THEN "updateAll" ELSE "updateOne"
             new == [req EXCEPT !.op = op, !.rec = [NoChanges EXCEPT !.live = FALSE]]
  <2>1. SoftBefore(c, req) = Instead(new)
    BY <1>2 DEF SoftBefore, Deletes, Inserts
  <2>2. Instead(new).next = "instead" /\ Instead(new).req = new
    BY DEF Instead
  <2>3. [NoChanges EXCEPT !.live = FALSE] \in Rec
    BY DEF NoChanges, Rec
  <2>4. op \in Operations /\ op \in {"updateOne", "updateAll"}
    BY DEF Operations
  <2> HIDE DEF op
  <2>5. new \in AnyRequest /\ new.op = op /\ new.raw = req.raw /\ new.rec = [NoChanges EXCEPT !.live = FALSE]
    BY <1>0, <2>3, <2>4 DEF AnyRequest
  <2> HIDE DEF new
  <2>6. new.rec.creator = None /\ new.rec.modifier = None /\ new.rec.live = FALSE
    BY <2>5 DEF NoChanges
  <2>7. ~req.raw
    BY <1>2 DEF Own, Deletes, Updates
  <2>8. Own(c, new) /\ Marks(new)
    BY <2>4, <2>5, <2>6, <2>7 DEF Own, Updates, Marks
  <2> QED
    BY <1>2, <2>1, <2>2, <2>8
<1>3. CASE ~(c \notin SoftClients \/ Inserts(req)) /\ ~(c \in SoftClients /\ Deletes(req))
  <2> DEFINE new == [req EXCEPT !.live = @ \cap {TRUE}]
  <2>1. SoftBefore(c, req) = Go(new)
    BY <1>3 DEF SoftBefore
  <2>2. Go(new).next = "go" /\ Go(new).req = new
    BY DEF Go
  <2>3. /\ new \in AnyRequest /\ new.live = req.live \cap {TRUE} /\ new.rec = req.rec
        /\ new.op = req.op /\ new.raw = req.raw /\ new.ids = req.ids
    BY <1>0 DEF AnyRequest
  <2> HIDE DEF new
  <2>4. Own(c, new) /\ Passes(req, new) /\ Done(M \cup {"soft"}, c, new)
    BY <2>3 DEF Own, Passes, Done, Stamped, Filled, Inserts, Updates
  <2> QED
    BY <2>1, <2>2, <2>4
<1> QED
  BY <1>1, <1>2, <1>3

LEMMA AnyHook ==
  ASSUME NEW c \in Clients, NEW req, Own(c, req), NEW M, Done(M, c, req),
         NEW m \in {"default", "audit", "soft"}
  PROVE  LET r == Hook(m, c, req) IN
         \/ /\ r.next = "go" /\ Own(c, r.req) /\ Passes(req, r.req)
            /\ Done(M \cup {m}, c, r.req)
         \/ /\ r.next = "instead" /\ Own(c, r.req)
            /\ Deletes(req) /\ Marks(r.req)
<1>1. CASE m = "default"
  <2>1. Hook(m, c, req) = DefaultBefore(c, req)
    BY <1>1 DEF Hook
  <2> QED
    BY <1>1, <2>1, DefaultHook
<1>2. CASE m = "audit"
  <2>1. Hook(m, c, req) = AuditBefore(c, req)
    BY <1>2 DEF Hook
  <2> QED
    BY <1>2, <2>1, AuditHook
<1>3. CASE m = "soft"
  <2>1. Hook(m, c, req) = SoftBefore(c, req)
    BY <1>3 DEF Hook
  <2> QED
    BY <1>3, <2>1, SoftHook
<1> QED
  BY <1>1, <1>2, <1>3

(* executeBeforeMiddlewares: f[i] is what the first i middlewares leave. *)
IsRun(f, c, req, n) ==
  f = [k \in 0..n |->
         IF k = 0 THEN Go(req)
         ELSE IF f[k - 1].next = "go" THEN Hook(chain[k], c, f[k - 1].req)
         ELSE f[k - 1]]

LEMMA RunExists ==
  ASSUME NEW c, NEW req, NEW n \in Nat
  PROVE  \E f : IsRun(f, c, req, n)
<1> DEFINE Without == {k \in Nat : ~\E f : IsRun(f, c, req, k)}
<1>1. SUFFICES ASSUME Without # {} PROVE FALSE
  OBVIOUS
<1>2. PICK k \in Without : \A j \in Without : k <= j
  <2>1. Without \subseteq Nat
    OBVIOUS
  <2> HIDE DEF Without
  <2> QED
    BY <1>1, <2>1, Least
<1>3. k \in Nat /\ ~\E f : IsRun(f, c, req, k)
  BY <1>2
<1>4. CASE k = 0
  <2> DEFINE f == [i \in 0..0 |-> Go(req)]
  <2>1. IsRun(f, c, req, 0)
    BY DEF IsRun
  <2> QED
    BY <1>3, <1>4, <2>1
<1>5. CASE k # 0
  <2>1. k - 1 \in Nat /\ k - 1 \notin Without
    BY <1>2, <1>3, <1>5
  <2>2. PICK f : IsRun(f, c, req, k - 1)
    BY <2>1
  <2> DEFINE last == IF f[k - 1].next = "go" THEN Hook(chain[k], c, f[k - 1].req) ELSE f[k - 1]
             g == [i \in 0..k |-> IF i = k THEN last ELSE f[i]]
  <2>3. \A i \in 0..(k - 1) : g[i] = f[i]
    BY <1>3
  <2>4. g[k] = last
    BY <1>3
  <2>5. \A i \in 0..(k - 1) :
          f[i] = IF i = 0 THEN Go(req)
                 ELSE IF f[i - 1].next = "go" THEN Hook(chain[i], c, f[i - 1].req)
                 ELSE f[i - 1]
    BY <2>2 DEF IsRun
  <2> HIDE DEF last
  <2>6. ASSUME NEW i \in 0..k
        PROVE  g[i] = IF i = 0 THEN Go(req)
                      ELSE IF g[i - 1].next = "go" THEN Hook(chain[i], c, g[i - 1].req)
                      ELSE g[i - 1]
    <3>1. CASE i = k
      <4>1. g[i - 1] = f[k - 1]
        BY <1>3, <1>5, <2>3, <3>1
      <4> QED
        BY <1>5, <2>4, <3>1, <4>1 DEF last
    <3>2. CASE i # k
      <4>1. i \in 0..(k - 1) /\ g[i] = f[i] /\ (i # 0 => g[i - 1] = f[i - 1])
        BY <1>3, <2>3, <3>2
      <4> QED
        BY <2>5, <4>1
    <3> QED
      BY <3>1, <3>2
  <2>7. IsRun(g, c, req, k)
    <3>1. g = [i \in 0..k |-> g[i]]
      OBVIOUS
    <3> HIDE DEF g
    <3> QED
      BY <2>6, <3>1 DEF IsRun
  <2> QED
    BY <1>3, <2>7
<1> QED
  BY <1>4, <1>5

LEMMA RunIs ==
  ASSUME NEW c, NEW req, Len(chain) \in Nat
  PROVE  \E f : IsRun(f, c, req, Len(chain)) /\ BeforeMiddlewares(c, req) = f[Len(chain)]
<1> DEFINE f == CHOOSE f : IsRun(f, c, req, Len(chain))
<1>1. IsRun(f, c, req, Len(chain))
  BY RunExists
<1>2. BeforeMiddlewares(c, req) = f[Len(chain)]
  BY DEF BeforeMiddlewares, IsRun
<1> QED
  BY <1>1, <1>2

(* Whatever the order of the middlewares: a request that has passed them   *)
(* all bears the stamp and the default values, and one that softDelete     *)
(* makes instead is an update.                                             *)
LEMMA Prepared ==
  ASSUME NEW c \in Clients, NEW req, Own(c, req),
         chain \in Seq({"default", "audit", "soft"}),
         {chain[i] : i \in DOMAIN chain} = {"default", "audit", "soft"}
  PROVE  LET r == BeforeMiddlewares(c, req) IN
         \/ /\ r.next = "go" /\ Own(c, r.req) /\ Passes(req, r.req)
            /\ Done({"default", "audit", "soft"}, c, r.req)
         \/ /\ r.next = "instead" /\ Own(c, r.req)
            /\ Deletes(req) /\ Marks(r.req)
<1> DEFINE n == Len(chain)
           Names(k) == {chain[i] : i \in 1..k}
<1>1. n \in Nat /\ DOMAIN chain = 1..n
  OBVIOUS
<1>2. PICK f : IsRun(f, c, req, n) /\ BeforeMiddlewares(c, req) = f[n]
  BY <1>1, RunIs
<1> DEFINE Right(k) ==
             \/ /\ f[k].next = "go" /\ Own(c, f[k].req) /\ Passes(req, f[k].req)
                /\ Done(Names(k), c, f[k].req)
             \/ /\ f[k].next = "instead" /\ Own(c, f[k].req)
                /\ Deletes(req) /\ Marks(f[k].req)
           Wrong == {k \in 0..n : ~Right(k)}
<1>3. \A k \in 0..n : f[k] = IF k = 0 THEN Go(req)
                             ELSE IF f[k - 1].next = "go" THEN Hook(chain[k], c, f[k - 1].req)
                             ELSE f[k - 1]
  BY <1>2 DEF IsRun
<1>4. Right(0)
  <2>1. f[0] = Go(req)
    BY <1>1, <1>3
  <2>2. f[0].next = "go" /\ f[0].req = req
    BY <2>1 DEF Go
  <2>3. Passes(req, req)
    BY DEF Passes
  <2>4. Names(0) = {}
    OBVIOUS
  <2>5. Done({}, c, req)
    BY DEF Done
  <2> HIDE DEF Names
  <2> QED
    BY <2>2, <2>3, <2>4, <2>5
<1>5. ASSUME NEW k \in 1..n, Right(k - 1) PROVE Right(k)
  <2>1. f[k] = IF f[k - 1].next = "go" THEN Hook(chain[k], c, f[k - 1].req) ELSE f[k - 1]
    BY <1>1, <1>3
  <2>2. CASE f[k - 1].next = "instead"
    <3>1. f[k] = f[k - 1]
      BY <2>1, <2>2
    <3> QED
      BY <1>5, <2>2, <3>1
  <2>3. CASE f[k - 1].next # "instead"
    <3> DEFINE before == f[k - 1].req
    <3>1. /\ f[k - 1].next = "go" /\ Own(c, before) /\ Passes(req, before)
          /\ Done(Names(k - 1), c, before)
      BY <1>5, <2>3
    <3>2. chain[k] \in {"default", "audit", "soft"}
      BY <1>1
    <3>3. f[k] = Hook(chain[k], c, before)
      BY <2>1, <3>1
    <3>4. Names(k - 1) \cup {chain[k]} = Names(k)
      BY <1>1
    <3> HIDE DEF before, Names
    <3> DEFINE M == Names(k - 1)
               r == Hook(chain[k], c, before)
    <3>5. \/ /\ f[k].next = "go" /\ Own(c, f[k].req) /\ Passes(before, f[k].req)
             /\ Done(Names(k), c, f[k].req)
          \/ /\ f[k].next = "instead" /\ Own(c, f[k].req)
             /\ Deletes(before) /\ Marks(f[k].req)
      <4>1. Own(c, before) /\ Done(M, c, before) /\ chain[k] \in {"default", "audit", "soft"}
        BY <3>1, <3>2
      <4>2. M \cup {chain[k]} = Names(k) /\ f[k] = r
        BY <3>3, <3>4
      <4> HIDE DEF M
      <4>3. \/ /\ r.next = "go" /\ Own(c, r.req) /\ Passes(before, r.req)
               /\ Done(M \cup {chain[k]}, c, r.req)
            \/ /\ r.next = "instead" /\ Own(c, r.req)
               /\ Deletes(before) /\ Marks(r.req)
        BY <4>1, AnyHook
      <4> HIDE DEF r
      <4> QED
        BY <4>2, <4>3
    <3>6. before.op = req.op /\ (Deletes(before) => Deletes(req))
      BY <3>1 DEF Passes, Deletes
    <3>7. Passes(before, f[k].req) => Passes(req, f[k].req)
      BY <3>1 DEF Passes, Inserts
    <3> QED
      BY <3>5, <3>6, <3>7
  <2> QED
    BY <2>2, <2>3
<1>6. Wrong = {}
  <2>1. SUFFICES ASSUME Wrong # {} PROVE FALSE
    OBVIOUS
  <2>2. Wrong \subseteq Nat
    BY <1>1
  <2>3. PICK k \in Wrong : \A j \in Wrong : k <= j
    <3> HIDE DEF Wrong
    <3> QED
      BY <2>1, <2>2, Least
  <2>4. k \in 0..n /\ ~Right(k)
    BY <2>3
  <2>5. k # 0
    BY <1>4, <2>4
  <2>6. k - 1 \in 0..n /\ k \in 1..n /\ ~(k <= k - 1)
    BY <1>1, <2>4, <2>5
  <2>7. Right(k - 1)
    BY <2>3, <2>6
  <2> HIDE DEF Right
  <2> QED
    BY <1>5, <2>4, <2>6, <2>7
<1>7. Right(n)
  <2> HIDE DEF Right
  <2> QED
    BY <1>1, <1>6
<1>8. Names(n) = {"default", "audit", "soft"}
  BY <1>1
<1> QED
  BY <1>2, <1>7, <1>8

-----------------------------------------------------------------------------
(* The invariant *)

Phases == {"idle", "before", "statement", "second", "log", "reread", "done"}

IsCall(k) ==
  k \in [pc : Phases, req : AnyRequest \cup {None}, id : Nat \cup {None}, nested : BOOLEAN,
         total : {k.total}, records : {k.records}, rec : {k.rec},
         outcome : {"ok", "failed", None}, errors : BOOLEAN]

RequestInv(c, k) ==
  /\ Own(c, k.req)
  /\ k.nested => Marks(k.req)
  /\ ~k.nested => k.req.rec.live # FALSE
  /\ k.req.op = "create" => TRUE \in k.req.live
  /\ k.pc # "before" => Done({"default", "audit", "soft"}, c, k.req)

(* What is known of an insertion that no statement failed, and whose record *)
(* nothing has reached past the middlewares.                               *)
InsertedInv(c, k, P) ==
  IF k.outcome = "ok" /\ k.rec # None
  THEN /\ k.rec.creator # None
       /\ k.pc = "done" /\ k.req.op = "create" /\ c \in SoftClients => k.rec.live = TRUE
  ELSE k.id \notin P

(* Of call k of c, with n ids used, P those present, W the wild ones. *)
CallInv(c, k, n, P, W) ==
  /\ IsCall(k)
  /\ k.pc # "idle" => RequestInv(c, k)
  /\ k.pc \in {"idle", "before", "statement"} => k.id = None
  /\ k.id # None => k.id \in 1..n /\ Inserts(k.req)
  /\ k.pc = "reread" => k.req.op = "create" /\ k.outcome = "ok" /\ k.rec # None
  /\ k.pc \in {"log", "reread", "done"} /\ k.id \in Ids \ W /\ ~k.errors => InsertedInv(c, k, P)

RecordsInv ==
  /\ used \in Nat /\ present \subseteq 1..used
  /\ store \in [Ids -> Rec \cup {None}]
  /\ \A x \in Ids \ wild :
       store[x] # None => Stamp(store[x]) = author[x] /\ store[x].creator # None
  /\ \A x \in Ids \ wild : x \in present <=> store[x] # None /\ store[x].live = TRUE

IInv ==
  /\ RecordsInv
  /\ chain \in Chains
  /\ DOMAIN call = Clients
  /\ \A c \in Clients : CallInv(c, call[c], used, present, wild)

-----------------------------------------------------------------------------
(* The database *)

LEMMA ChangedRec ==
  ASSUME NEW rec \in Rec, NEW change \in Rec
  PROVE  /\ Changed(rec, change) \in Rec
         /\ Changed(rec, change).creator = IF change.creator = None THEN rec.creator ELSE change.creator
         /\ Changed(rec, change).modifier = IF change.modifier = None THEN rec.modifier ELSE change.modifier
         /\ Changed(rec, change).live = IF change.live = None THEN rec.live ELSE change.live
<1> DEFINE new == Changed(rec, change)
<1>1. DOMAIN rec = {"creator", "modifier", "live"}
  BY DEF Rec
<1>2. new = [f \in {"creator", "modifier", "live"} |-> IF change[f] = None THEN rec[f] ELSE change[f]]
  BY <1>1 DEF Changed
<1>3. new = [creator |-> IF change.creator = None THEN rec.creator ELSE change.creator,
             modifier |-> IF change.modifier = None THEN rec.modifier ELSE change.modifier,
             live |-> IF change.live = None THEN rec.live ELSE change.live]
  BY <1>2
<1>4. new \in Rec
  <2> HIDE DEF new
  <2>1. /\ rec.creator \in Clients \cup {None} /\ rec.modifier \in Clients \cup {None}
        /\ rec.live \in BOOLEAN \cup {None} /\ change.creator \in Clients \cup {None}
        /\ change.modifier \in Clients \cup {None} /\ change.live \in BOOLEAN \cup {None}
    BY DEF Rec
  <2> QED
    BY <1>3, <2>1 DEF Rec
<1>5. /\ new.creator = IF change.creator = None THEN rec.creator ELSE change.creator
      /\ new.modifier = IF change.modifier = None THEN rec.modifier ELSE change.modifier
      /\ new.live = IF change.live = None THEN rec.live ELSE change.live
  <2> HIDE DEF new
  <2> QED
    BY <1>3
<1> QED
  BY <1>4, <1>5

LEMMA AffectedStored ==
  ASSUME NEW req, NEW S \in Affected(req)
  PROVE  S \subseteq Stored
BY DEF Affected, Targets

(* What a statement writes keeps the records as they should be. *)
LEMMA WritesInv ==
  ASSUME RecordsInv, NEW c \in Clients, NEW S, NEW new, NEW past \in SUBSET S,
         Writes(c, S, new, past),
         used' \in Nat, present' \subseteq 1..used', present' \ S = present \ S,
         \A x \in S \cap Ids : new[x] \in Rec \cup {None},
         \A x \in (S \cap Ids) \ (wild \cup past) :
            /\ new[x] # None => Stamp(new[x]) = c /\ new[x].creator # None
            /\ x \in present' <=> new[x] # None /\ new[x].live = TRUE
  PROVE  RecordsInv' /\ wild \subseteq wild'
<1>1. \A x \in Ids : /\ store'[x] = IF x \in S THEN new[x] ELSE store[x]
                     /\ author'[x] = IF x \in S THEN c ELSE author[x]
  BY DEF Writes
<1>2. wild' = wild \cup past
  BY DEF Writes
<1>3. store' \in [Ids -> Rec \cup {None}]
  <2>1. store' = [x \in Ids |-> IF x \in S THEN new[x] ELSE store[x]]
    BY DEF Writes
  <2>2. \A x \in Ids : (IF x \in S THEN new[x] ELSE store[x]) \in Rec \cup {None}
    BY DEF RecordsInv
  <2> QED
    BY <2>1, <2>2
<1>4. ASSUME NEW x \in Ids \ wild'
      PROVE  /\ store'[x] # None => Stamp(store'[x]) = author'[x] /\ store'[x].creator # None
             /\ x \in present' <=> store'[x] # None /\ store'[x].live = TRUE
  <2>1. x \in Ids /\ x \notin wild /\ x \notin past
    BY <1>2
  <2>2. CASE x \in S
    BY <1>1, <2>1, <2>2
  <2>3. CASE x \notin S
    <3>1. store'[x] = store[x] /\ author'[x] = author[x] /\ (x \in present' <=> x \in present)
      BY <1>1, <2>1, <2>3
    <3> QED
      BY <2>1, <3>1 DEF RecordsInv
  <2> QED
    BY <2>2, <2>3
<1>5. \A x \in Ids \ wild' :
        store'[x] # None => (Stamp(store[x]))' = author'[x] /\ store'[x].creator # None
  BY <1>4 DEF Stamp
<1>6. Ids' = Ids
  BY DEF Ids
<1> QED
  BY <1>2, <1>3, <1>4, <1>5, <1>6 DEF RecordsInv, Stamp

LEMMA ReadsInv ==
  ASSUME RecordsInv, Reads
  PROVE  RecordsInv' /\ used' = used /\ present' = present /\ wild' = wild
BY DEF RecordsInv, Reads, Stamp, Ids

(* One client moves; the others' calls stay as they are. *)
LEMMA OneMoves ==
  ASSUME IInv, NEW c \in Clients, RecordsInv', chain' = chain, used' \in Nat, used <= used',
         wild \subseteq wild', present' \cap (1..used) \subseteq present,
         DOMAIN call' = Clients, \A d \in Clients \ {c} : call'[d] = call[d],
         CallInv(c, call'[c], used', present', wild')
  PROVE  IInv'
<1>1. ASSUME NEW d \in Clients PROVE CallInv(d, call'[d], used', present', wild')
  <2>1. CASE d = c
    BY <2>1
  <2>2. CASE d # c
    <3> DEFINE k == call[d]
    <3>1. call'[d] = k
      BY <2>2
    <3>2. CallInv(d, k, used, present, wild)
      BY DEF IInv
    <3> HIDE DEF k
    <3>3. k.id # None => k.id \in 1..used /\ k.id \in 1..used'
      BY <3>2 DEF CallInv, IInv, RecordsInv
    <3>4. k.id \in Ids => k.id # None
      BY NoneApart DEF Ids
    <3>5. InsertedInv(d, k, present) /\ k.id \in Ids => InsertedInv(d, k, present')
      BY <3>3, <3>4 DEF InsertedInv
    <3>6. CallInv(d, k, used', present', wild')
      BY <3>2, <3>3, <3>5 DEF CallInv
    <3> QED
      BY <3>1, <3>6
  <2> QED
    BY <2>1, <2>2
<1>2. (\A d \in Clients : CallInv(d, call[d], used, present, wild))'
  BY <1>1 DEF CallInv, InsertedInv, RequestInv, IsCall, Own, Done, Marks, Stamped, Filled, Inserts, Updates, AnyRequest, Rec, Ids
<1> QED
  BY <1>2 DEF IInv

LEMMA Moved ==
  ASSUME DOMAIN call = Clients, NEW c \in Clients, NEW new, Move(c, new)
  PROVE  /\ call'[c] = new /\ DOMAIN call' = Clients
         /\ \A d \in Clients \ {c} : call'[d] = call[d]
BY DEF Move

(* A call that reads, or has not written, and moves on. *)
LEMMA ReadStep ==
  ASSUME IInv, NEW c \in Clients, NEW new, Move(c, new), Reads, chain' = chain,
         CallInv(c, new, used, present, wild)
  PROVE  IInv'
<1>1. RecordsInv' /\ used' = used /\ present' = present /\ wild' = wild
  BY ReadsInv DEF IInv
<1>2. /\ call'[c] = new /\ DOMAIN call' = Clients
      /\ \A d \in Clients \ {c} : call'[d] = call[d]
  BY Moved DEF IInv
<1>3. CallInv(c, call'[c], used', present', wild')
  BY <1>1, <1>2
<1>4. used \in Nat
  BY DEF IInv, RecordsInv
<1>5. used' \in Nat /\ used <= used' /\ wild \subseteq wild' /\ present' \cap (1..used) \subseteq present
  BY <1>1, <1>4
<1> QED
  BY <1>1, <1>2, <1>3, <1>5, OneMoves

(* A request on its way to the driver, or behind it. *)
LEMMA SameRequest ==
  ASSUME NEW c \in Clients, NEW k, NEW new, RequestInv(c, k), k.pc # "before",
         new.req = k.req, new.nested = k.nested
  PROVE  RequestInv(c, new)
BY DEF RequestInv

LEMMA StartStep ==
  ASSUME IInv, OrdinaryRequests, NEW c \in Clients, Start(c)
  PROVE  IInv'
<1>1. PICK req \in Requests : Move(c, [Idle EXCEPT !.pc = "before", !.req = req])
  BY DEF Start
<1> DEFINE new == [Idle EXCEPT !.pc = "before", !.req = req]
<1>3. req \in AnyRequest
  <2>1. req \in Request
    BY NoneApart
  <2>2. Ids \subseteq Nat
    BY NoneApart DEF Ids
  <2> QED
    BY <2>1, <2>2 DEF Request, AnyRequest
<1>4. Own(c, req)
  BY <1>3 DEF Own, OrdinaryRequests
<1>5. /\ IsCall(new) /\ new.pc = "before" /\ new.req = req /\ new.id = None /\ new.nested = FALSE
  BY <1>3 DEF IsCall, Phases, Idle
<1> HIDE DEF new
<1>6. RequestInv(c, new)
  BY <1>4, <1>5 DEF RequestInv, OrdinaryRequests
<1>7. CallInv(c, new, used, present, wild)
  BY <1>5, <1>6 DEF CallInv
<1> QED
  BY <1>1, <1>7, ReadStep DEF Start, new

LEMMA BeforeStep ==
  ASSUME IInv, FullChains, NEW c \in Clients, Before(c), chain' = chain
  PROVE  IInv'
<1> DEFINE k == call[c]
           r == BeforeMiddlewares(c, k.req)
<1>1. CallInv(c, k, used, present, wild) /\ k.pc = "before" /\ Reads
  BY DEF IInv, Before
<1>2. IsCall(k) /\ RequestInv(c, k) /\ k.id = None /\ Own(c, k.req)
  BY <1>1 DEF CallInv, RequestInv
<1>3. \/ /\ r.next = "go" /\ Own(c, r.req) /\ Passes(k.req, r.req)
         /\ Done({"default", "audit", "soft"}, c, r.req)
      \/ /\ r.next = "instead" /\ Own(c, r.req)
         /\ Deletes(k.req) /\ Marks(r.req)
  <2>1. chain \in Seq({"default", "audit", "soft"})
    BY CallsAssumption DEF IInv
  <2>2. {chain[i] : i \in DOMAIN chain} = {"default", "audit", "soft"}
    BY DEF IInv, FullChains
  <2> HIDE DEF k
  <2> QED
    BY <1>2, <2>1, <2>2, Prepared
<1>4. CASE r.next = "go"
  <2> DEFINE new == [k EXCEPT !.pc = "statement", !.req = r.req]
  <2>1. Move(c, new)
    BY <1>4 DEF Before
  <2>2. Own(c, r.req) /\ Passes(k.req, r.req) /\ Done({"default", "audit", "soft"}, c, r.req)
    BY <1>3, <1>4
  <2>4. r.req \in AnyRequest
    BY <2>2 DEF Own
  <2> HIDE DEF k, r
  <2>5. IsCall(new) /\ new.pc = "statement" /\ new.req = r.req /\ new.nested = k.nested /\ new.id = None
    BY <1>2, <2>4 DEF IsCall, Phases
  <2> HIDE DEF new
  <2>6. RequestInv(c, new)
    BY <1>2, <2>2, <2>5 DEF RequestInv, Passes, Updates, Inserts, Marks
  <2>7. CallInv(c, new, used, present, wild)
    BY <2>5, <2>6 DEF CallInv
  <2> QED
    BY <1>1, <2>1, <2>7, ReadStep
<1>5. CASE r.next # "go"
  <2> DEFINE new == [k EXCEPT !.pc = "before", !.req = r.req, !.nested = TRUE]
  <2>1. Move(c, new)
    BY <1>5 DEF Before, NestedStart
  <2>2. Own(c, r.req) /\ Marks(r.req)
    BY <1>3, <1>5
  <2>3. r.req \in AnyRequest
    BY <2>2 DEF Own
  <2> HIDE DEF k, r
  <2>4. IsCall(new) /\ new.pc = "before" /\ new.req = r.req /\ new.nested = TRUE /\ new.id = None
    BY <1>2, <2>3 DEF IsCall, Phases
  <2> HIDE DEF new
  <2>5. RequestInv(c, new)
    BY <2>2, <2>4 DEF RequestInv, Updates, Marks
  <2>6. CallInv(c, new, used, present, wild)
    BY <2>4, <2>5 DEF CallInv
  <2> QED
    BY <1>1, <2>1, <2>6, ReadStep
<1> QED
  BY <1>4, <1>5

LEMMA NotStarted ==
  ASSUME IInv, NEW c \in Clients, call[c].pc \notin {"idle", "before"}
  PROVE  LET k == call[c] IN
         /\ CallInv(c, k, used, present, wild) /\ IsCall(k) /\ RequestInv(c, k) /\ Own(c, k.req)
         /\ Stamped(c, k.req) /\ Filled(k.req)
         /\ c \in SoftClients /\ ~Inserts(k.req) => k.req.live \subseteq {TRUE}
         /\ k.req \in AnyRequest /\ k.req.rec \in Rec
BY DEF IInv, CallInv, RequestInv, Done, Own, AnyRequest

(* Of a call that inserts nothing there is little to know. *)
LEMMA NoInsertion ==
  ASSUME NEW c \in Clients, NEW k, NEW n, NEW P, NEW W, CallInv(c, k, n, P, W),
         k.pc \notin {"idle", "before"}, ~Inserts(k.req),
         NEW new, IsCall(new), new.req = k.req, new.nested = k.nested, new.id = k.id,
         new.pc \in {"second", "log", "done"}, NEW n2, NEW P2, NEW W2
  PROVE  CallInv(c, new, n2, P2, W2)
<1>1. k.id = None
  BY DEF CallInv
<1>2. None \notin Ids
  BY NoneApart DEF Ids
<1>3. RequestInv(c, k)
  BY DEF CallInv
<1>4. RequestInv(c, new)
  BY <1>3, SameRequest
<1> QED
  BY <1>1, <1>2, <1>4 DEF CallInv

LEMMA RefuseStep ==
  ASSUME IInv, NEW c \in Clients, RefuseOperation(c), chain' = chain
  PROVE  IInv'
<1> DEFINE k == call[c]
           new == [k EXCEPT !.pc = "log", !.outcome = "failed"]
<1>1. k.pc = "statement" /\ Unsupported(k.req) /\ Move(c, new) /\ Reads
  BY DEF RefuseOperation, Answer
<1>2. CallInv(c, k, used, present, wild) /\ IsCall(k)
  BY <1>1, NotStarted
<1>3. ~Inserts(k.req)
  BY <1>1 DEF Unsupported, Inserts
<1> HIDE DEF k
<1>4. IsCall(new) /\ new.req = k.req /\ new.nested = k.nested /\ new.id = k.id /\ new.pc = "log"
  BY <1>2 DEF IsCall, Phases
<1> HIDE DEF new
<1>5. CallInv(c, new, used, present, wild)
  BY <1>1, <1>2, <1>3, <1>4, NoInsertion
<1> QED
  BY <1>1, <1>5, ReadStep

LEMMA PageStep ==
  ASSUME IInv, NEW c \in Clients, PageFirst(c) \/ PageSecond(c), chain' = chain
  PROVE  IInv'
<1> DEFINE k == call[c]
<1>1. k.pc \in {"statement", "second"} /\ k.req.op = "findPage" /\ Reads
  BY DEF PageFirst, PageSecond
<1>2. CallInv(c, k, used, present, wild) /\ IsCall(k)
  BY <1>1, NotStarted
<1>3. ~Inserts(k.req)
  BY <1>1 DEF Inserts
<1> DEFINE Later(t, s) == [k EXCEPT !.pc = "second", !.total = t, !.records = s]
           Now(t, s) == [k EXCEPT !.pc = "log", !.outcome = "ok", !.total = t, !.records = s]
<1>4. /\ \A t : [k EXCEPT !.pc = "second", !.total = t] = Later(t, k.records)
      /\ \A s : [[k EXCEPT !.pc = "second"] EXCEPT !.records = s] = Later(k.total, s)
      /\ \A t : [Answer(c, "ok") EXCEPT !.total = t] = Now(t, k.records)
      /\ \A s : [Answer(c, "ok") EXCEPT !.records = s] = Now(k.total, s)
  BY <1>2 DEF IsCall, Answer
<1>5. PICK new : Move(c, new) /\ \E t, s : new = Later(t, s) \/ new = Now(t, s)
  <2>1. \/ Records(c, [k EXCEPT !.pc = "second"])
        \/ Records(c, Answer(c, "ok"))
        \/ \E t : Move(c, [Answer(c, "ok") EXCEPT !.total = t])
        \/ \E t : Move(c, [k EXCEPT !.pc = "second", !.total = t])
    BY DEF PageFirst, PageSecond
  <2>2. CASE Records(c, [k EXCEPT !.pc = "second"])
    <3>1. PICK s : Move(c, [[k EXCEPT !.pc = "second"] EXCEPT !.records = s])
      BY <2>2 DEF Records
    <3>2. Move(c, Later(k.total, s))
      BY <1>4, <3>1
    <3> HIDE DEF Later, Now, k
    <3> QED
      BY <3>2
  <2>3. CASE Records(c, Answer(c, "ok"))
    <3>1. PICK s : Move(c, [Answer(c, "ok") EXCEPT !.records = s])
      BY <2>3 DEF Records
    <3>2. Move(c, Now(k.total, s))
      BY <1>4, <3>1
    <3> HIDE DEF Later, Now, k
    <3> QED
      BY <3>2
  <2>4. CASE \E t : Move(c, [Answer(c, "ok") EXCEPT !.total = t])
    <3>1. PICK t : Move(c, [Answer(c, "ok") EXCEPT !.total = t])
      BY <2>4
    <3>2. Move(c, Now(t, k.records))
      BY <1>4, <3>1
    <3> HIDE DEF Later, Now, k
    <3> QED
      BY <3>2
  <2>5. CASE \E t : Move(c, [k EXCEPT !.pc = "second", !.total = t])
    <3>1. PICK t : Move(c, [k EXCEPT !.pc = "second", !.total = t])
      BY <2>5
    <3>2. Move(c, Later(t, k.records))
      BY <1>4, <3>1
    <3> HIDE DEF Later, Now, k
    <3> QED
      BY <3>2
  <2> QED
    BY <2>1, <2>2, <2>3, <2>4, <2>5
<1> HIDE DEF k
<1>6. /\ IsCall(new) /\ new.req = k.req /\ new.nested = k.nested /\ new.id = k.id
      /\ new.pc \in {"second", "log"}
  BY <1>2, <1>5 DEF IsCall, Phases
<1>7. CallInv(c, new, used, present, wild)
  BY <1>1, <1>2, <1>3, <1>6, NoInsertion
<1> QED
  BY <1>1, <1>5, <1>7, ReadStep

LEMMA FailStep ==
  ASSUME IInv, NEW c \in Clients, Fail(c), chain' = chain
  PROVE  IInv'
<1> DEFINE k == call[c]
           new == [k EXCEPT !.pc = "log", !.outcome = "failed", !.errors = TRUE]
<1>1. k.pc \in {"statement", "second", "reread"} /\ Reads
  BY DEF Fail
<1>2. CallInv(c, k, used, present, wild) /\ IsCall(k) /\ RequestInv(c, k)
  BY <1>1, NotStarted
<1>3. Move(c, new)
  <2>1. [Answer(c, "failed") EXCEPT !.errors = TRUE] = new
    BY <1>2 DEF IsCall, Answer
  <2> QED
    BY <2>1 DEF Fail
<1> HIDE DEF k
<1>4. /\ IsCall(new) /\ new.req = k.req /\ new.nested = k.nested /\ new.id = k.id
      /\ new.pc = "log" /\ new.errors
  BY <1>2 DEF IsCall, Phases
<1> HIDE DEF new
<1>5. RequestInv(c, new)
  BY <1>1, <1>2, <1>4, SameRequest
<1>6. CallInv(c, new, used, present, wild)
  BY <1>2, <1>4, <1>5 DEF CallInv
<1> QED
  BY <1>1, <1>3, <1>6, ReadStep

LEMMA LogStep ==
  ASSUME IInv, NEW c \in Clients, Log(c), chain' = chain
  PROVE  IInv'
<1> DEFINE k == call[c]
           inserted == k.req.op = "create" /\ k.outcome = "ok"
           new == IF ~inserted THEN [k EXCEPT !.pc = "done"]
                  ELSE IF k.rec # None THEN [k EXCEPT !.pc = "reread"]
                  ELSE [k EXCEPT !.pc = "done", !.outcome = "failed"]
<1>1. k.pc = "log" /\ Reads /\ Move(c, new)
  BY DEF Log
<1>2. CallInv(c, k, used, present, wild) /\ IsCall(k) /\ RequestInv(c, k)
  BY <1>1, NotStarted
<1> HIDE DEF k
<1>3. /\ IsCall(new) /\ new.req = k.req /\ new.nested = k.nested /\ new.id = k.id /\ new.rec = k.rec
      /\ new.errors = k.errors /\ new.pc \in {"reread", "done"}
      /\ new.pc = "reread" => inserted /\ k.rec # None
      /\ new.pc = "done" => ~inserted \/ k.rec = None
      /\ new.outcome = (IF inserted /\ k.rec = None THEN "failed" ELSE k.outcome)
  BY <1>2 DEF IsCall, Phases
<1> HIDE DEF new
<1>4. RequestInv(c, new)
  BY <1>1, <1>2, <1>3, SameRequest
<1>5. k.id \in Ids \ wild /\ ~k.errors => InsertedInv(c, k, present)
  BY <1>1, <1>2 DEF CallInv
<1>6. new.id \in Ids \ wild /\ ~new.errors => InsertedInv(c, new, present)
  BY <1>1, <1>3, <1>5 DEF InsertedInv
<1>7. CallInv(c, new, used, present, wild)
  BY <1>2, <1>3, <1>4, <1>6 DEF CallInv
<1> QED
  BY <1>1, <1>7, ReadStep

LEMMA InsertRereadStep ==
  ASSUME IInv, NEW c \in Clients, InsertReread(c), chain' = chain
  PROVE  IInv'
<1> DEFINE k == call[c]
           rec == store[k.id]
           outcome == IF rec = None /\ driver = "mongo" THEN "failed" ELSE "ok"
           new == [k EXCEPT !.pc = "log", !.outcome = outcome, !.rec = rec]
<1>1. k.pc = "second" /\ Inserts(k.req) /\ Reads
  BY DEF InsertReread
<1>2. CallInv(c, k, used, present, wild) /\ IsCall(k) /\ RequestInv(c, k)
  BY <1>1, NotStarted
<1>3. Move(c, new)
  <2>1. [Answer(c, outcome) EXCEPT !.rec = rec] = new
    BY <1>2 DEF IsCall, Answer
  <2> QED
    BY <2>1 DEF InsertReread
<1> HIDE DEF k
<1>4. /\ IsCall(new) /\ new.req = k.req /\ new.nested = k.nested /\ new.id = k.id
      /\ new.pc = "log" /\ new.rec = rec /\ (rec # None => new.outcome = "ok")
  BY <1>2 DEF IsCall, Phases
<1> HIDE DEF new
<1>5. RequestInv(c, new)
  BY <1>1, <1>2, <1>4, SameRequest
<1>6. new.id \in Ids \ wild => InsertedInv(c, new, present)
  BY <1>4 DEF InsertedInv, IInv, RecordsInv
<1>7. CallInv(c, new, used, present, wild)
  BY <1>2, <1>4, <1>5, <1>6 DEF CallInv
<1> QED
  BY <1>1, <1>3, <1>7, ReadStep

(* The resolver finds a record that is present: its middlewares narrow the *)
(* filter to the live records at most.                                     *)
LEMMA CreateRereadStep ==
  ASSUME IInv, FullChains, NEW c \in Clients, CreateReread(c), chain' = chain
  PROVE  IInv'
<1> DEFINE k == call[c]
           asked == [k.req EXCEPT !.op = "findPage", !.ids = {k.id}]
           r == BeforeMiddlewares(c, asked)
           new == IF Targets(r.req) = {}
                  THEN [k EXCEPT !.pc = "done", !.outcome = "failed", !.rec = None]
                  ELSE [k EXCEPT !.pc = "done", !.rec = store[k.id]]
<1>1. k.pc = "reread" /\ Reads /\ Move(c, new)
  BY DEF CreateReread
<1>2. /\ CallInv(c, k, used, present, wild) /\ IsCall(k) /\ RequestInv(c, k) /\ Own(c, k.req)
      /\ k.req \in AnyRequest
  BY <1>1, NotStarted
<1>3. k.req.op = "create" /\ k.outcome = "ok" /\ TRUE \in k.req.live
  BY <1>1, <1>2 DEF CallInv, RequestInv
<1> HIDE DEF k, r
<1>4. /\ IsCall(new) /\ new.req = k.req /\ new.nested = k.nested /\ new.id = k.id
      /\ new.pc = "done" /\ new.errors = k.errors
      /\ Targets(r.req) = {} => new.outcome = "failed"
      /\ Targets(r.req) # {} => new.outcome = "ok" /\ new.rec = store[k.id]
  BY <1>2, <1>3 DEF IsCall, Phases
<1> HIDE DEF new
<1>5. RequestInv(c, new)
  BY <1>1, <1>2, <1>4, SameRequest
<1>6. ASSUME k.id \in Ids \ wild PROVE InsertedInv(c, new, present)
  <2>1. k.id \in Nat
    BY <1>6, NoneApart DEF Ids
  <2>2. /\ asked \in AnyRequest /\ asked.op = "findPage" /\ asked.ids = {k.id}
        /\ asked.live = k.req.live /\ asked.rec = k.req.rec /\ asked.raw = k.req.raw
    BY <1>2, <2>1 DEF AnyRequest, Operations
  <2> HIDE DEF asked
  <2>3. Own(c, asked) /\ ~Deletes(asked) /\ ~Inserts(asked)
    BY <1>2, <1>3, <2>2 DEF Own, Inserts, Updates, Deletes
  <2>4. /\ r.next = "go" /\ Own(c, r.req) /\ Passes(asked, r.req)
        /\ Done({"default", "audit", "soft"}, c, r.req)
    <3>1. chain \in Seq({"default", "audit", "soft"})
      BY CallsAssumption DEF IInv
    <3>2. {chain[i] : i \in DOMAIN chain} = {"default", "audit", "soft"}
      BY DEF IInv, FullChains
    <3> QED
      BY <2>3, <3>1, <3>2, Prepared DEF r
  <2>5. r.req.ids = {k.id} /\ TRUE \in r.req.live /\ ~Inserts(r.req)
    BY <1>3, <2>2, <2>3, <2>4 DEF Passes, Inserts
  <2>6. c \in SoftClients => r.req.live \subseteq {TRUE}
    BY <2>4, <2>5 DEF Done
  <2>7. CASE Targets(r.req) = {}
    <3>1. k.id \in Stored => store[k.id].live \notin r.req.live
      BY <2>5, <2>7 DEF Targets
    <3>2. k.id \notin present
      BY <1>6, <2>5, <3>1 DEF IInv, RecordsInv, Stored
    <3> QED
      BY <1>4, <2>7, <3>2 DEF InsertedInv
  <2>8. CASE Targets(r.req) # {}
    <3>1. k.id \in Stored /\ store[k.id].live \in r.req.live
      BY <2>5, <2>8 DEF Targets
    <3>2. store[k.id].creator # None
      BY <1>6, <3>1 DEF IInv, RecordsInv, Stored
    <3>3. store[k.id] # None
      BY <3>1 DEF Stored
    <3> QED
      BY <1>4, <2>6, <2>8, <3>1, <3>2, <3>3 DEF InsertedInv
  <2> QED
    BY <2>7, <2>8
<1>7. CallInv(c, new, used, present, wild)
  BY <1>2, <1>4, <1>5, <1>6 DEF CallInv
<1> QED
  BY <1>1, <1>7, ReadStep

(* A call whose statement has written, and that inserted nothing, answers. *)
LEMMA AnswerWrite ==
  ASSUME IInv, NEW c \in Clients, call[c].pc = "statement", ~Inserts(call[c].req),
         Move(c, Answer(c, "ok")), chain' = chain, used' = used, present' \subseteq present,
         RecordsInv', wild \subseteq wild'
  PROVE  IInv'
<1> DEFINE k == call[c]
           new == [k EXCEPT !.pc = "log", !.outcome = "ok"]
<1>1. CallInv(c, k, used, present, wild) /\ IsCall(k) /\ k.pc = "statement" /\ ~Inserts(k.req)
  BY NotStarted
<1>2. Move(c, new)
  BY DEF Answer
<1>3. /\ call'[c] = new /\ DOMAIN call' = Clients
      /\ \A d \in Clients \ {c} : call'[d] = call[d]
  BY <1>2, Moved DEF IInv
<1> HIDE DEF k
<1>4. IsCall(new) /\ new.req = k.req /\ new.nested = k.nested /\ new.id = k.id /\ new.pc = "log"
  BY <1>1 DEF IsCall, Phases
<1> HIDE DEF new
<1>5. CallInv(c, new, used', present', wild')
  BY <1>1, <1>4, NoInsertion
<1>6. CallInv(c, call'[c], used', present', wild')
  BY <1>3, <1>5
<1>7. used \in Nat /\ used' \in Nat /\ used <= used' /\ present' \cap (1..used) \subseteq present
  BY DEF IInv, RecordsInv
<1> QED
  BY <1>3, <1>6, <1>7, OneMoves

(* An update bears the stamp of the client, and marks a record as deleted  *)
(* only in place of a deletion.                                            *)
LEMMA UpdateStep ==
  ASSUME IInv, NEW c \in Clients, Update(c), chain' = chain
  PROVE  IInv'
<1> DEFINE k == call[c]
           change == k.req.rec
<1>1. k.pc = "statement" /\ Updates(k.req) /\ Move(c, Answer(c, "ok")) /\ used' = used
  BY DEF Update
<1>2. RequestInv(c, k) /\ Own(c, k.req) /\ Stamped(c, k.req) /\ k.req \in AnyRequest /\ change \in Rec
  BY <1>1, NotStarted
<1> DEFINE Past(T) == IF k.req.raw THEN T ELSE BroughtBack(k.req, T)
<1>3. PICK S \in Affected(k.req) :
        /\ Writes(c, S, [x \in S |-> Changed(store[x], change)], Past(S))
        /\ present' = IF k.nested THEN present \ S ELSE present
  BY DEF Update
<1> DEFINE new == [x \in S |-> Changed(store[x], change)]
           past == Past(S)
<1>4. S \subseteq Stored
  BY <1>3, AffectedStored
<1>5. past \in SUBSET S /\ ~Inserts(k.req)
  BY <1>1 DEF BroughtBack, Inserts, Updates
<1>6. present' \subseteq present /\ present' \ S = present \ S /\ present \subseteq 1..used /\ used \in Nat
  BY <1>3 DEF IInv, RecordsInv
<1>7. ASSUME NEW x \in S \cap Ids
      PROVE  /\ new[x] \in Rec
             /\ x \notin wild \cup past =>
                  /\ Stamp(new[x]) = c /\ new[x].creator # None
                  /\ x \in present' <=> new[x].live = TRUE
  <2>1. store[x] \in Rec /\ store[x] # None
    BY <1>4 DEF IInv, RecordsInv, Stored
  <2>2. new[x] = Changed(store[x], change)
    OBVIOUS
  <2>3. x \notin past => ~k.req.raw /\ x \notin BroughtBack(k.req, S)
    OBVIOUS
  <2> HIDE DEF new, change, past
  <2>4. /\ new[x] \in Rec
        /\ new[x].creator = IF change.creator = None THEN store[x].creator ELSE change.creator
        /\ new[x].modifier = IF change.modifier = None THEN store[x].modifier ELSE change.modifier
        /\ new[x].live = IF change.live = None THEN store[x].live ELSE change.live
    BY <1>2, <2>1, <2>2, ChangedRec
  <2>5. ASSUME x \notin past, x \notin wild
        PROVE  Stamp(new[x]) = c /\ new[x].creator # None
    <3>1. change.modifier = c
      BY <1>1, <1>2, <2>3, <2>5 DEF Stamped, change
    <3>2. store[x].creator # None
      BY <2>1, <2>5 DEF IInv, RecordsInv
    <3> QED
      BY <2>4, <3>1, <3>2, NoneApart DEF Stamp
  <2>6. ASSUME x \notin past, x \notin wild
        PROVE  x \in present' <=> new[x].live = TRUE
    <3>1. x \in present <=> store[x].live = TRUE
      BY <2>1, <2>6 DEF IInv, RecordsInv
    <3>2. CASE k.nested
      <4>1. change.live = FALSE /\ x \notin present'
        BY <1>2, <1>3, <3>2 DEF RequestInv, Marks, change
      <4> QED
        BY <2>4, <4>1, NoneApart
    <3>3. CASE ~k.nested
      <4>1. change.live \in {TRUE, None} /\ present' = present
        BY <1>2, <1>3, <3>3 DEF RequestInv, Rec, change
      <4>2. change.live = TRUE => x \in present
        BY <2>3, <2>6 DEF BroughtBack, change
      <4> QED
        BY <2>4, <3>1, <4>1, <4>2, NoneApart
    <3> QED
      BY <3>2, <3>3
  <2> QED
    BY <2>4, <2>5, <2>6
<1>8. \A x \in S \cap Ids : new[x] # None
  BY <1>7, NoneApart
<1> HIDE DEF new, past, k
<1>9. Writes(c, S, new, past)
  BY <1>3 DEF new, past
<1>10. RecordsInv' /\ wild \subseteq wild'
  <2>1. RecordsInv /\ used' \in Nat /\ present' \subseteq 1..used' /\ present' \ S = present \ S
    BY <1>1, <1>6 DEF IInv
  <2> QED
    BY <1>5, <1>7, <1>8, <1>9, <2>1, WritesInv
<1> QED
  BY <1>1, <1>5, <1>6, <1>10, AnswerWrite DEF k

(* A replacement that goes past no middleware is a complete record, with   *)
(* the stamp of the client.                                                *)
LEMMA ReplaceStep ==
  ASSUME IInv, NEW c \in Clients, Replace(c), chain' = chain
  PROVE  IInv'
<1> DEFINE k == call[c]
           rec == k.req.rec
           Past(T) == IF driver = "memory" \/ rec.live = None THEN T ELSE BroughtBack(k.req, T)
<1>1. k.pc = "statement" /\ k.req.op = "replaceOne" /\ Move(c, Answer(c, "ok")) /\ used' = used /\ present' = present
  BY DEF Replace
<1>2. RequestInv(c, k) /\ Own(c, k.req) /\ Stamped(c, k.req) /\ k.req \in AnyRequest /\ rec \in Rec
  BY <1>1, NotStarted
<1> DEFINE hit == IF driver = "memory" THEN {{x} : x \in Stored} \cup {{}} ELSE Affected(k.req)
<1>3. PICK S \in hit :
        Writes(c, S, [x \in S |-> IF driver = "memory" THEN Changed(store[x], rec) ELSE rec], Past(S))
  BY DEF Replace
<1> DEFINE new == [x \in S |-> IF driver = "memory" THEN Changed(store[x], rec) ELSE rec]
           past == Past(S)
<1>4. S \subseteq Stored
  <2>1. CASE driver = "memory"
    BY <2>1
  <2>2. CASE driver # "memory"
    <3>1. S \in Affected(k.req)
      BY <2>2
    <3> QED
      BY <3>1, AffectedStored
  <2> QED
    BY <2>1, <2>2
<1>5. past \in SUBSET S /\ ~Inserts(k.req)
  BY <1>1 DEF BroughtBack, Inserts
<1>6. present \subseteq 1..used /\ used \in Nat
  BY DEF IInv, RecordsInv
<1>7. ASSUME NEW x \in S \cap Ids
      PROVE  /\ new[x] \in Rec
             /\ x \notin wild \cup past =>
                  Stamp(new[x]) = c /\ new[x].creator # None /\ new[x].live = TRUE /\ x \in present
  <2>1. store[x] \in Rec
    BY <1>4 DEF IInv, RecordsInv, Stored
  <2>2. new[x] = IF driver = "memory" THEN Changed(store[x], rec) ELSE rec
    OBVIOUS
  <2>3. x \notin past => driver # "memory" /\ rec.live # None /\ x \notin BroughtBack(k.req, S)
    OBVIOUS
  <2> HIDE DEF new, past
  <2>4. new[x] \in Rec
    BY <1>2, <2>1, <2>2, ChangedRec
  <2>5. ASSUME x \notin past
        PROVE  Stamp(new[x]) = c /\ new[x].creator # None /\ new[x].live = TRUE /\ x \in present
    <3>1. new[x] = rec /\ rec.live # None /\ x \notin BroughtBack(k.req, S)
      BY <2>2, <2>3, <2>5
    <3>2. rec.modifier = None /\ rec.creator = c /\ ~k.nested
      BY <1>1, <1>2 DEF Own, Stamped, RequestInv, Marks, Updates
    <3>3. rec.live \in BOOLEAN \cup {None} /\ rec.live # FALSE
      BY <1>2, <3>2 DEF RequestInv, Rec
    <3>4. rec.live = TRUE /\ x \in present
      BY <3>1, <3>3 DEF BroughtBack
    <3> HIDE DEF rec
    <3> QED
      BY <3>1, <3>2, <3>4, NoneApart DEF Stamp
  <2> QED
    BY <2>4, <2>5
<1>8. \A x \in S \cap Ids : new[x] # None
  BY <1>7, NoneApart
<1> HIDE DEF new, past, k
<1>9. Writes(c, S, new, past)
  BY <1>3 DEF new, past
<1>10. RecordsInv' /\ wild \subseteq wild'
  <2>1. RecordsInv /\ used' \in Nat /\ present' \subseteq 1..used' /\ present' \ S = present \ S
    BY <1>1, <1>6 DEF IInv
  <2>2. /\ past \in SUBSET S /\ \A x \in S \cap Ids : new[x] \in Rec \cup {None}
        /\ \A x \in (S \cap Ids) \ (wild \cup past) :
             /\ new[x] # None => Stamp(new[x]) = c /\ new[x].creator # None
             /\ x \in present' <=> new[x] # None /\ new[x].live = TRUE
    BY <1>1, <1>5, <1>7, <1>8
  <2> HIDE DEF rec, hit, Past
  <2> QED
    BY <1>9, <2>1, <2>2, WritesInv
<1> QED
  BY <1>1, <1>5, <1>10, AnswerWrite DEF k

LEMMA DeleteStep ==
  ASSUME IInv, NEW c \in Clients, Delete(c), chain' = chain
  PROVE  IInv'
<1> DEFINE k == call[c]
<1>1. k.pc = "statement" /\ Deletes(k.req) /\ Move(c, Answer(c, "ok")) /\ used' = used
  BY DEF Delete
<1>2. PICK S \in Affected(k.req) :
        Writes(c, S, [x \in S |-> None], {}) /\ present' = present \ S
  BY DEF Delete
<1> DEFINE new == [x \in S |-> None]
<1>3. ~Inserts(k.req)
  BY <1>1 DEF Inserts, Deletes
<1>4. present' \subseteq present /\ present \subseteq 1..used /\ used \in Nat
  BY <1>2 DEF IInv, RecordsInv
<1>5. \A x \in S : new[x] = None /\ x \notin present'
  BY <1>2
<1> HIDE DEF new, k
<1>6. Writes(c, S, new, {})
  BY <1>2 DEF new
<1>7. RecordsInv' /\ wild \subseteq wild'
  <2>1. RecordsInv /\ used' \in Nat /\ present' \subseteq 1..used' /\ present' \ S = present \ S
    BY <1>1, <1>2, <1>4 DEF IInv
  <2>2. /\ {} \in SUBSET S /\ \A x \in S \cap Ids : new[x] \in Rec \cup {None}
        /\ \A x \in (S \cap Ids) \ (wild \cup {}) :
             /\ new[x] # None => Stamp(new[x]) = c /\ new[x].creator # None
             /\ x \in present' <=> new[x] # None /\ new[x].live = TRUE
    BY <1>5
  <2> QED
    BY <1>6, <2>1, <2>2, WritesInv
<1> QED
  BY <1>1, <1>3, <1>4, <1>7, AnswerWrite DEF k

(* The record of an insertion is stamped, complete and live. *)
LEMMA InsertStep ==
  ASSUME IInv, NEW c \in Clients, Insert(c), chain' = chain
  PROVE  IInv'
<1> DEFINE k == call[c]
           rec == k.req.rec
           S == {used'}
           new == [x \in S |-> rec]
           answered == [k EXCEPT !.pc = "log", !.outcome = "ok", !.id = used', !.rec = rec]
           second == [k EXCEPT !.pc = "second", !.id = used']
<1>1. /\ k.pc = "statement" /\ Inserts(k.req) /\ used' = used + 1 /\ present' = present \cup S
      /\ Writes(c, S, new, {})
  BY DEF Insert
<1>2. /\ CallInv(c, k, used, present, wild) /\ IsCall(k) /\ RequestInv(c, k) /\ Own(c, k.req)
      /\ Stamped(c, k.req) /\ Filled(k.req) /\ rec \in Rec
  BY <1>1, NotStarted
<1>3. present \subseteq 1..used /\ used \in Nat
  BY DEF IInv, RecordsInv
<1>4. used' \in Nat /\ used <= used' /\ used' \in 1..used' /\ present' \subseteq 1..used' /\ used' \notin 1..used
  BY <1>1, <1>3
<1>5. rec.modifier = None /\ rec.creator = c /\ rec.live = TRUE /\ ~k.nested /\ rec # None
  <2>1. ~k.nested
    BY <1>1, <1>2 DEF RequestInv, Inserts, Updates, Marks
  <2>2. rec.live # FALSE /\ rec.live # None /\ rec.live \in BOOLEAN \cup {None}
    BY <1>1, <1>2, <2>1 DEF RequestInv, Filled, Rec
  <2>3. rec.modifier = None /\ rec.creator = c
    BY <1>1, <1>2 DEF Own, Stamped
  <2>4. rec # None
    BY <1>2, NoneApart
  <2> HIDE DEF rec, k
  <2> QED
    BY <2>1, <2>2, <2>3, <2>4
<1>6. Move(c, answered) \/ Move(c, second)
  <2>1. [Answer(c, "ok") EXCEPT !.id = used', !.rec = rec] = answered
    BY <1>2 DEF IsCall, Answer
  <2> QED
    BY <2>1 DEF Insert
<1>7. RecordsInv' /\ wild \subseteq wild'
  <2>1. \A x \in S \cap Ids : new[x] = rec
    OBVIOUS
  <2>2. Stamp(rec) = c /\ rec.creator # None
    BY <1>5, NoneApart DEF Stamp
  <2>3. RecordsInv /\ present' \ S = present \ S /\ S \subseteq present'
    BY <1>1 DEF IInv
  <2>4. Writes(c, S, new, {}) /\ rec \in Rec /\ rec # None /\ rec.live = TRUE
    BY <1>1, <1>2, <1>5
  <2> HIDE DEF new, S, rec, k, answered, second
  <2>5. \A x \in S \cap Ids : /\ new[x] \in Rec \cup {None}
                              /\ Stamp(new[x]) = c /\ new[x].creator # None
                              /\ new[x] # None /\ new[x].live = TRUE
    BY <2>1, <2>2, <2>4
  <2>6. \A x \in (S \cap Ids) \ (wild \cup {}) :
           /\ new[x] # None => Stamp(new[x]) = c /\ new[x].creator # None
           /\ x \in present' <=> new[x] # None /\ new[x].live = TRUE
    BY <2>3, <2>5
  <2>7. {} \in SUBSET S /\ \A x \in S \cap Ids : new[x] \in Rec \cup {None}
    BY <2>5
  <2> QED
    BY <1>4, <2>3, <2>4, <2>6, <2>7, WritesInv
<1> HIDE DEF k, rec
<1>8. /\ IsCall(answered) /\ answered.req = k.req /\ answered.nested = k.nested /\ answered.id = used'
      /\ answered.pc = "log" /\ answered.rec = rec /\ answered.outcome = "ok"
  BY <1>2, <1>4 DEF IsCall, Phases
<1>9. /\ IsCall(second) /\ second.req = k.req /\ second.nested = k.nested /\ second.id = used'
      /\ second.pc = "second"
  BY <1>2, <1>4 DEF IsCall, Phases
<1> HIDE DEF answered, second
<1>10. CallInv(c, answered, used', present', wild')
  <2>1. RequestInv(c, answered)
    BY <1>1, <1>2, <1>8, SameRequest
  <2>2. InsertedInv(c, answered, present')
    BY <1>5, <1>8, NoneApart DEF InsertedInv
  <2> QED
    BY <1>1, <1>4, <1>8, <2>1, <2>2 DEF CallInv
<1>11. CallInv(c, second, used', present', wild')
  <2>1. RequestInv(c, second)
    BY <1>1, <1>2, <1>9, SameRequest
  <2> QED
    BY <1>1, <1>4, <1>9, <2>1 DEF CallInv
<1>12. present' \cap (1..used) \subseteq present
  BY <1>1, <1>4
<1>13. ASSUME NEW next, Move(c, next), CallInv(c, next, used', present', wild')
       PROVE  IInv'
  <2>1. /\ call'[c] = next /\ DOMAIN call' = Clients
        /\ \A d \in Clients \ {c} : call'[d] = call[d]
    BY <1>13, Moved DEF IInv
  <2>2. CallInv(c, call'[c], used', present', wild')
    BY <1>13, <2>1
  <2> QED
    BY <1>4, <1>7, <1>12, <2>1, <2>2, OneMoves
<1> QED
  BY <1>6, <1>10, <1>11, <1>13

-----------------------------------------------------------------------------
(* The theorems *)

LEMMA InitialState ==
  ASSUME Init
  PROVE  IInv
<1>1. RecordsInv
  BY DEF Init, RecordsInv
<1>2. ASSUME NEW c \in Clients PROVE CallInv(c, call[c], used, present, wild)
  <2>1. call[c] = Idle
    BY DEF Init
  <2>2. IsCall(Idle) /\ Idle.pc = "idle" /\ Idle.id = None
    BY DEF IsCall, Phases, Idle
  <2> QED
    BY <2>1, <2>2 DEF CallInv
<1> QED
  BY <1>1, <1>2 DEF Init, IInv

LEMMA NextStep ==
  ASSUME FullChains, OrdinaryRequests, IInv, [Next]_vars
  PROVE  IInv'
<1>1. ASSUME NEW c \in Clients, Start(c) PROVE IInv'
  BY <1>1, StartStep
<1>2. ASSUME NEW c \in Clients, Step(c) PROVE IInv'
  <2>1. chain' = chain
    BY <1>2 DEF Step
  <2>2. CASE Before(c)
    BY <2>1, <2>2, BeforeStep
  <2>3. CASE RefuseOperation(c)
    BY <2>1, <2>3, RefuseStep
  <2>4. CASE Log(c)
    BY <2>1, <2>4, LogStep
  <2>5. CASE Insert(c)
    BY <2>1, <2>5, InsertStep
  <2>6. CASE InsertReread(c)
    BY <2>1, <2>6, InsertRereadStep
  <2>7. CASE CreateReread(c)
    BY <2>1, <2>7, CreateRereadStep
  <2>8. CASE Update(c)
    BY <2>1, <2>8, UpdateStep
  <2>9. CASE Replace(c)
    BY <2>1, <2>9, ReplaceStep
  <2>10. CASE Delete(c)
    BY <2>1, <2>10, DeleteStep
  <2>11. CASE PageFirst(c) \/ PageSecond(c)
    BY <2>1, <2>11, PageStep
  <2> QED
    BY <1>2, <2>2, <2>3, <2>4, <2>5, <2>6, <2>7, <2>8, <2>9, <2>10, <2>11 DEF Step
<1>3. ASSUME NEW c \in Clients, Fail(c), chain' = chain PROVE IInv'
  BY <1>3, FailStep
<1>4. CASE UNCHANGED vars
  <2>1. /\ chain' = chain /\ store' = store /\ call' = call /\ used' = used
        /\ present' = present /\ author' = author /\ wild' = wild
    BY <1>4 DEF vars, history
  <2>2. RecordsInv'
    BY <2>1 DEF IInv, RecordsInv, Stamp, Ids
  <2>3. \A c \in Clients : CallInv(c, call'[c], used', present', wild')
    BY <2>1 DEF IInv
  <2>4. used \in Nat
    BY DEF IInv, RecordsInv
  <2>5. CASE Clients = {}
    BY <2>1, <2>2, <2>5 DEF IInv
  <2>6. CASE Clients # {}
    <3>1. PICK c : c \in Clients
      BY <2>6
    <3> QED
      BY <2>1, <2>2, <2>3, <2>4, <3>1, OneMoves DEF IInv
  <2> QED
    BY <2>5, <2>6
<1> QED
  BY <1>1, <1>2, <1>3, <1>4 DEF Next

(* In each phase of a call its request is what the middlewares have to make *)
(* of it, and the records are stamped, complete and live, as IInv says.     *)
THEOREM DriverInvariant == FullChains /\ OrdinaryRequests => (Spec => []IInv)
<1> SUFFICES ASSUME FullChains, OrdinaryRequests PROVE Spec => []IInv
  OBVIOUS
<1>1. Init => IInv
  BY InitialState
<1>2. IInv /\ [Next]_vars => IInv'
  BY NextStep
<1> QED
  BY <1>1, <1>2, PTL DEF Spec

(* For ordinary requests, however many clients interleave and in whatever  *)
(* order the three middlewares are configured, the audit fields of a record *)
(* name the client that wrote it last, unless a write went past audit.     *)
THEOREM AuditNamesAuthor == FullChains /\ OrdinaryRequests => (Spec => []AuditTrail)
<1> SUFFICES ASSUME FullChains, OrdinaryRequests PROVE Spec => []AuditTrail
  OBVIOUS
<1>1. IInv => AuditTrail
  BY DEF IInv, RecordsInv, AuditTrail, Stored, Tame
<1>2. Spec => []IInv
  BY DriverInvariant
<1> QED
  BY <1>1, <1>2, PTL

(* A client that inserts is answered with its own record, stamped and live, *)
(* unless a statement failed or another client has deleted the record.     *)
THEOREM InsertionsAnswered == FullChains /\ OrdinaryRequests => (Spec => []InsertAnswersOwn)
<1> SUFFICES ASSUME FullChains, OrdinaryRequests PROVE Spec => []InsertAnswersOwn
  OBVIOUS
<1>1. IInv => InsertAnswersOwn
  <2> SUFFICES ASSUME IInv, NEW c \in Clients, call[c].pc = "done", call[c].id \in Tame, ~call[c].errors
               PROVE  IF call[c].outcome = "ok" /\ call[c].rec # None
                      THEN call[c].rec.creator # None /\ (call[c].req.op = "create" /\ c \in SoftClients => call[c].rec.live = TRUE)
                      ELSE call[c].id \notin present
    BY DEF InsertAnswersOwn
  <2>1. CallInv(c, call[c], used, present, wild)
    BY DEF IInv
  <2>2. InsertedInv(c, call[c], present)
    BY <2>1 DEF CallInv, Tame
  <2> QED
    BY <2>2 DEF InsertedInv
<1>2. Spec => []IInv
  BY DriverInvariant
<1> QED
  BY <1>1, <1>2, PTL
-----------------------------------------------------------------------------
(* Pages *)

TotalSeen(k, Seen) == \E S \in Seen : k.total = Cardinality(S)

(* The records are a page of one of the sets in Seen, by driver D. *)
RecordsSeen(k, Seen, D) ==
  \E S \in Seen :
    /\ k.records \subseteq S
    /\ \/ Cardinality(k.records) = Cardinality(S)
       \/ k.req.limit # None /\ Cardinality(k.records) = Smaller(k.req.limit, Cardinality(S))
       \/ D # "memory" /\ k.req.limit = None /\ Cardinality(k.records) = PageSize

(* After its first statement a page has its records in memory, its total   *)
(* from a database; after the second it has both.  W are the wild ids.     *)
PageInv(k, Seen, D, W) ==
  k.pc # "idle" /\ k.req.op = "findPage" =>
    /\ k.req.ids \subseteq Ids
    /\ k.pc \in {"before", "statement"} => k.records = {}
    /\ W = {} =>
         LET answered == k.pc \in {"log", "done"} /\ k.outcome = "ok" IN
         /\ answered \/ (k.pc = "second" /\ D # "memory") => TotalSeen(k, Seen)
         /\ answered \/ (k.pc = "second" /\ D = "memory") => RecordsSeen(k, Seen, D)

PagesInv == DOMAIN seen = Clients /\ \A c \in Clients : PageInv(call[c], seen[c], driver, wild)

LEMMA PageKept ==
  ASSUME NEW k, NEW Seen, NEW D, NEW W, PageInv(k, Seen, D, W),
         NEW More, Seen \subseteq More, NEW W2, W \subseteq W2
  PROVE  PageInv(k, More, D, W2)
<1>1. W2 = {} => W = {}
  OBVIOUS
<1>2. TotalSeen(k, Seen) => TotalSeen(k, More)
  BY DEF TotalSeen
<1>3. RecordsSeen(k, Seen, D) => RecordsSeen(k, More, D)
  BY DEF RecordsSeen
<1> QED
  BY <1>1, <1>2, <1>3 DEF PageInv

(* What a page finds in the database is what its client's filter selects. *)
LEMMA TargetsSelected ==
  ASSUME IInv, wild = {}, NEW c \in Clients, call[c].pc \notin {"idle", "before"},
         call[c].req.op = "findPage", call[c].req.ids \subseteq Ids
  PROVE  Targets(call[c].req) = Selected(c, call[c].req)
<1> DEFINE req == call[c].req
<1>1. c \in SoftClients => req.live \subseteq {TRUE}
  BY NotStarted DEF Inserts
<1>2. \A x \in Ids : x \in present <=> store[x] # None /\ store[x].live = TRUE
  BY DEF IInv, RecordsInv
<1> HIDE DEF req
<1>3. Targets(req) = Selected(c, req)
  <2>1. CASE c \in SoftClients
    BY <1>1, <1>2, <2>1 DEF Targets, Selected, Stored, req
  <2>2. CASE c \notin SoftClients
    BY <2>2 DEF Targets, Selected, Stored
  <2> QED
    BY <2>1, <2>2
<1> QED
  BY <1>3 DEF req

(* The sets seen by the others, and by c, only grow. *)
LEMMA LookGrows ==
  ASSUME DOMAIN seen = Clients, Look
  PROVE  DOMAIN seen' = Clients /\ \A d \in Clients : seen[d] \subseteq seen'[d]
BY DEF Look

(* One client moves; the others have seen at least what they had. *)
LEMMA OthersPages ==
  ASSUME PagesInv, NEW c \in Clients, driver' = driver, wild \subseteq wild',
         DOMAIN seen' = Clients, \A d \in Clients \ {c} : seen[d] \subseteq seen'[d],
         \A d \in Clients \ {c} : call'[d] = call[d],
         PageInv(call'[c], seen'[c], driver, wild')
  PROVE  PagesInv'
<1>1. ASSUME NEW d \in Clients PROVE PageInv(call'[d], seen'[d], driver', wild')
  <2>1. CASE d = c
    BY <2>1
  <2>2. CASE d # c
    <3>1. PageInv(call[d], seen[d], driver, wild)
      BY DEF PagesInv
    <3>2. PageInv(call[d], seen'[d], driver, wild')
      BY <2>2, <3>1, PageKept
    <3> QED
      BY <2>2, <3>2
  <2> QED
    BY <2>1, <2>2
<1>2. (\A d \in Clients : PageInv(call[d], seen[d], driver, wild))'
  BY <1>1 DEF PageInv, TotalSeen, RecordsSeen, Smaller, Ids
<1> QED
  BY <1>2 DEF PagesInv

(* A call that is not about a page. *)
LEMMA NoPage ==
  ASSUME NEW k, k.req.op # "findPage", NEW Seen, NEW D, NEW W
  PROVE  PageInv(k, Seen, D, W)
BY DEF PageInv

LEMMA StartPage ==
  ASSUME IInv, PagesInv, NEW c \in Clients, Start(c)
  PROVE  PagesInv'
<1>1. PICK req \in Requests : Move(c, [Idle EXCEPT !.pc = "before", !.req = req])
  BY DEF Start
<1> DEFINE new == [Idle EXCEPT !.pc = "before", !.req = req]
<1>2. req.ids \subseteq Ids
  BY NoneApart DEF Request
<1>3. new.pc = "before" /\ new.req = req /\ new.records = {}
  BY DEF Idle
<1> HIDE DEF new
<1>4. PageInv(new, seen'[c], driver, wild')
  BY <1>2, <1>3 DEF PageInv
<1>5. call'[c] = new /\ \A d \in Clients \ {c} : call'[d] = call[d]
  BY <1>1, Moved DEF IInv, new
<1>6. driver' = driver /\ wild' = wild /\ seen' = [seen EXCEPT ![c] = {}]
  BY DEF Start, Reads
<1> QED
  BY <1>4, <1>5, <1>6, OthersPages DEF PagesInv

LEMMA BeforePage ==
  ASSUME IInv, PagesInv, FullChains, NEW c \in Clients, Before(c), Look, driver' = driver
  PROVE  PagesInv'
<1> DEFINE k == call[c]
           r == BeforeMiddlewares(c, k.req)
<1>1. /\ CallInv(c, k, used, present, wild) /\ k.pc = "before" /\ Reads
      /\ PageInv(k, seen[c], driver, wild)
  BY DEF IInv, Before, PagesInv
<1>2. IsCall(k) /\ Own(c, k.req)
  BY <1>1 DEF CallInv, RequestInv
<1>3. (r.next = "go" /\ Passes(k.req, r.req)) \/ (r.next = "instead" /\ Updates(r.req))
  <2>1. chain \in Seq({"default", "audit", "soft"})
    BY CallsAssumption DEF IInv
  <2>2. {chain[i] : i \in DOMAIN chain} = {"default", "audit", "soft"}
    BY DEF IInv, FullChains
  <2> HIDE DEF k
  <2> QED
    BY <1>2, <2>1, <2>2, Prepared DEF Marks
<1>4. PICK new : /\ Move(c, new) /\ new.req = r.req /\ new.records = k.records
                 /\ new.pc \in {"before", "statement"}
                 /\ r.next = "instead" \/ Passes(k.req, r.req)
  <2>1. CASE r.next = "go"
    <3>1. Move(c, [k EXCEPT !.pc = "statement", !.req = r.req])
      BY <2>1 DEF Before
    <3> HIDE DEF r
    <3>2. /\ [k EXCEPT !.pc = "statement", !.req = r.req].req = r.req
          /\ [k EXCEPT !.pc = "statement", !.req = r.req].records = k.records
          /\ [k EXCEPT !.pc = "statement", !.req = r.req].pc = "statement"
      BY <1>2 DEF IsCall
    <3> QED
      BY <1>3, <2>1, <3>1, <3>2
  <2>2. CASE r.next # "go"
    <3>1. Move(c, [k EXCEPT !.pc = "before", !.req = r.req, !.nested = TRUE])
      BY <2>2 DEF Before, NestedStart
    <3> HIDE DEF r
    <3>2. /\ [k EXCEPT !.pc = "before", !.req = r.req, !.nested = TRUE].req = r.req
          /\ [k EXCEPT !.pc = "before", !.req = r.req, !.nested = TRUE].records = k.records
          /\ [k EXCEPT !.pc = "before", !.req = r.req, !.nested = TRUE].pc = "before"
      BY <1>2 DEF IsCall
    <3> QED
      BY <1>3, <2>2, <3>1, <3>2
  <2> QED
    BY <2>1, <2>2
<1> HIDE DEF k, r
<1>5. PageInv(new, seen'[c], driver, wild')
  BY <1>1, <1>3, <1>4 DEF PageInv, Passes, Updates
<1>6. call'[c] = new /\ \A d \in Clients \ {c} : call'[d] = call[d]
  BY <1>4, Moved DEF IInv
<1>7. wild' = wild
  BY <1>1 DEF Reads
<1> QED
  BY <1>5, <1>6, <1>7, LookGrows, OthersPages DEF PagesInv

(* A step of a call that reads no page. *)
LEMMA NoPageStep ==
  ASSUME IInv, PagesInv, NEW c \in Clients, call[c].req.op # "findPage",
         NEW new, Move(c, new), new.req = call[c].req,
         Look, driver' = driver, wild \subseteq wild'
  PROVE  PagesInv'
<1>1. call'[c] = new /\ \A d \in Clients \ {c} : call'[d] = call[d]
  BY Moved DEF IInv
<1>2. PageInv(call'[c], seen'[c], driver, wild')
  BY <1>1, NoPage
<1> QED
  BY <1>1, <1>2, LookGrows, OthersPages DEF PagesInv

LEMMA AnswerPage ==
  ASSUME IInv, PagesInv, NEW c \in Clients, call[c].pc \notin {"idle", "before"},
         call[c].req.op # "findPage", Move(c, Answer(c, "ok")),
         Look, driver' = driver, wild \subseteq wild'
  PROVE  PagesInv'
<1> DEFINE k == call[c]
           new == [k EXCEPT !.pc = "log", !.outcome = "ok"]
<1>1. Move(c, new)
  BY DEF Answer
<1>2. IsCall(k)
  BY NotStarted
<1> HIDE DEF k
<1>3. new.req = k.req
  BY <1>2 DEF IsCall
<1> HIDE DEF new
<1> QED
  BY <1>1, <1>3, NoPageStep DEF k

LEMMA WritesWild ==
  ASSUME NEW c, NEW S, NEW new, NEW past, Writes(c, S, new, past)
  PROVE  wild \subseteq wild'
BY DEF Writes

LEMMA WriteStepPage ==
  ASSUME IInv, PagesInv, NEW c \in Clients, Update(c) \/ Replace(c) \/ Delete(c),
         Look, driver' = driver
  PROVE  PagesInv'
<1>1. CASE Update(c)
  <2>1. call[c].pc = "statement" /\ Updates(call[c].req) /\ Move(c, Answer(c, "ok"))
    BY <1>1 DEF Update
  <2>2. wild \subseteq wild'
    BY <1>1, WritesWild DEF Update
  <2> QED
    BY <2>1, <2>2, AnswerPage DEF Updates
<1>2. CASE Replace(c)
  <2>1. call[c].pc = "statement" /\ call[c].req.op = "replaceOne" /\ Move(c, Answer(c, "ok"))
    BY <1>2 DEF Replace
  <2>2. wild \subseteq wild'
    BY <1>2, WritesWild DEF Replace
  <2> QED
    BY <2>1, <2>2, AnswerPage
<1>3. CASE Delete(c)
  <2>1. call[c].pc = "statement" /\ Deletes(call[c].req) /\ Move(c, Answer(c, "ok"))
    BY <1>3 DEF Delete
  <2>2. wild \subseteq wild'
    BY <1>3, WritesWild DEF Delete
  <2> QED
    BY <2>1, <2>2, AnswerPage DEF Deletes
<1> QED
  BY <1>1, <1>2, <1>3

LEMMA InsertPage ==
  ASSUME IInv, PagesInv, NEW c \in Clients, Insert(c) \/ InsertReread(c) \/ CreateReread(c) \/ RefuseOperation(c),
         Look, driver' = driver
  PROVE  PagesInv'
<1> DEFINE k == call[c]
<1>1. call[c].pc \notin {"idle", "before"}
  BY DEF Insert, InsertReread, CreateReread, RefuseOperation
<1>2. IsCall(k) /\ CallInv(c, k, used, present, wild)
  BY <1>1, NotStarted
<1>3. k.req.op # "findPage"
  <2>1. CASE Insert(c) \/ InsertReread(c)
    BY <2>1 DEF Insert, InsertReread, Inserts
  <2>2. CASE CreateReread(c)
    BY <1>2, <2>2 DEF CreateReread, CallInv
  <2>3. CASE RefuseOperation(c)
    BY <2>3 DEF RefuseOperation, Unsupported
  <2> QED
    BY <2>1, <2>2, <2>3
<1>4. wild \subseteq wild'
  <2>1. CASE Insert(c)
    BY <2>1, WritesWild DEF Insert
  <2>2. CASE ~Insert(c)
    BY <2>2 DEF InsertReread, CreateReread, RefuseOperation, Reads
  <2> QED
    BY <2>1, <2>2
<1>5. PICK new : Move(c, new) /\ new.req = k.req
  <2>1. CASE Insert(c)
    <3>1. \/ Move(c, [Answer(c, "ok") EXCEPT !.id = used', !.rec = k.req.rec])
          \/ Move(c, [k EXCEPT !.pc = "second", !.id = used'])
      BY <2>1 DEF Insert
    <3>2. Answer(c, "ok") = [k EXCEPT !.pc = "log", !.outcome = "ok"]
      BY DEF Answer
    <3>3. /\ [Answer(c, "ok") EXCEPT !.id = used', !.rec = k.req.rec].req = k.req
          /\ [k EXCEPT !.pc = "second", !.id = used'].req = k.req
      BY <1>2, <3>2 DEF IsCall
    <3> QED
      BY <3>1, <3>3
  <2>2. CASE InsertReread(c)
    <3> DEFINE outcome == IF store[k.id] = None /\ driver = "mongo" THEN "failed" ELSE "ok"
    <3>1. Move(c, [Answer(c, outcome) EXCEPT !.rec = store[k.id]])
      BY <2>2 DEF InsertReread
    <3> HIDE DEF outcome
    <3>2. [Answer(c, outcome) EXCEPT !.rec = store[k.id]].req = k.req
      BY <1>2 DEF IsCall, Answer
    <3> QED
      BY <3>1, <3>2
  <2>3. CASE CreateReread(c)
    <3>1. \/ Move(c, [k EXCEPT !.pc = "done", !.outcome = "failed", !.rec = None])
          \/ Move(c, [k EXCEPT !.pc = "done", !.rec = store[k.id]])
      BY <2>3 DEF CreateReread
    <3>2. /\ [k EXCEPT !.pc = "done", !.outcome = "failed", !.rec = None].req = k.req
          /\ [k EXCEPT !.pc = "done", !.rec = store[k.id]].req = k.req
      BY <1>2 DEF IsCall
    <3> QED
      BY <3>1, <3>2
  <2>4. CASE RefuseOperation(c)
    <3>1. Move(c, Answer(c, "failed"))
      BY <2>4 DEF RefuseOperation
    <3>2. Answer(c, "failed").req = k.req
      BY <1>2 DEF IsCall, Answer
    <3> QED
      BY <3>1, <3>2
  <2> QED
    BY <2>1, <2>2, <2>3, <2>4
<1> QED
  BY <1>3, <1>4, <1>5, NoPageStep

(* Failing, and being logged, changes nothing of what has been read. *)
LEMMA EndPage ==
  ASSUME IInv, PagesInv, NEW c \in Clients, Log(c) \/ Fail(c), Look, driver' = driver
  PROVE  PagesInv'
<1> DEFINE k == call[c]
<1>1. call[c].pc \notin {"idle", "before"} /\ Reads
  BY DEF Log, Fail
<1>2. IsCall(k) /\ PageInv(k, seen[c], driver, wild)
  BY <1>1, NotStarted DEF PagesInv
<1>3. PICK new : /\ Move(c, new) /\ new.req = k.req
                 /\ k.req.op = "findPage" =>
                      /\ new.records = k.records /\ new.total = k.total
                      /\ new.pc \in {"log", "done"}
                      /\ new.outcome = "failed" \/ (new.outcome = k.outcome /\ k.pc = "log")
  <2>1. CASE Log(c)
    <3>1. \/ Move(c, [k EXCEPT !.pc = "done"])
          \/ k.req.op # "findPage" /\ Move(c, [k EXCEPT !.pc = "reread"])
          \/ k.req.op # "findPage" /\ Move(c, [k EXCEPT !.pc = "done", !.outcome = "failed"])
      BY <2>1 DEF Log
    <3>2. k.pc = "log"
      BY <2>1 DEF Log
    <3> HIDE DEF k
    <3>3. /\ [k EXCEPT !.pc = "reread"].req = k.req
          /\ [k EXCEPT !.pc = "done", !.outcome = "failed"].req = k.req
          /\ [k EXCEPT !.pc = "done"].req = k.req
          /\ [k EXCEPT !.pc = "done"].records = k.records
          /\ [k EXCEPT !.pc = "done"].total = k.total
          /\ [k EXCEPT !.pc = "done"].outcome = k.outcome
          /\ [k EXCEPT !.pc = "done"].pc = "done"
      BY <1>2 DEF IsCall
    <3> QED
      BY <3>1, <3>2, <3>3
  <2>2. CASE Fail(c)
    <3> DEFINE new == [k EXCEPT !.pc = "log", !.outcome = "failed", !.errors = TRUE]
    <3>1. [Answer(c, "failed") EXCEPT !.errors = TRUE] = new
      BY <1>2 DEF IsCall, Answer
    <3>2. Move(c, new)
      BY <2>2, <3>1 DEF Fail
    <3> HIDE DEF k
    <3>3. /\ new.req = k.req /\ new.records = k.records /\ new.total = k.total
          /\ new.pc = "log" /\ new.outcome = "failed"
      BY <1>2 DEF IsCall
    <3> HIDE DEF new
    <3> QED
      BY <3>2, <3>3
  <2> QED
    BY <2>1, <2>2
<1> HIDE DEF k
<1>4. PageInv(new, seen[c], driver, wild)
  <2>1. SUFFICES ASSUME k.req.op = "findPage" PROVE PageInv(new, seen[c], driver, wild)
    BY <1>3, NoPage
  <2>2. k.pc # "idle" /\ k.req.ids \subseteq Ids
    BY <1>1, <1>2, <2>1 DEF PageInv, k
  <2>3. new.outcome = "ok" => k.outcome = "ok" /\ k.pc = "log"
    BY <1>3, <2>1
  <2>4. wild = {} /\ new.outcome = "ok" => TotalSeen(k, seen[c]) /\ RecordsSeen(k, seen[c], driver)
    BY <1>2, <2>1, <2>2, <2>3 DEF PageInv
  <2>5. /\ TotalSeen(k, seen[c]) => TotalSeen(new, seen[c])
        /\ RecordsSeen(k, seen[c], driver) => RecordsSeen(new, seen[c], driver)
    BY <1>3, <2>1 DEF TotalSeen, RecordsSeen
  <2> QED
    BY <1>3, <2>1, <2>2, <2>4, <2>5 DEF PageInv
<1>5. call'[c] = new /\ \A d \in Clients \ {c} : call'[d] = call[d]
  BY <1>3, Moved DEF IInv
<1>6. wild' = wild
  BY <1>1 DEF Reads
<1>7. DOMAIN seen' = Clients /\ \A d \in Clients : seen[d] \subseteq seen'[d]
  BY LookGrows DEF PagesInv
<1>8. PageInv(new, seen'[c], driver, wild')
  BY <1>4, <1>6, <1>7, PageKept
<1> QED
  BY <1>5, <1>6, <1>7, <1>8, OthersPages

(* The statements of a page.                                               *)
LEMMA CountPage ==
  ASSUME NEW k, NEW T, NEW Seen, T \in Seen, k.total = Cardinality(T)
  PROVE  TotalSeen(k, Seen)
BY DEF TotalSeen

LEMMA ReadPage ==
  ASSUME NEW k, NEW Seen, Targets(k.req) \in Seen, k.records \subseteq Targets(k.req),
         Cardinality(k.records) = PageLength(k.req)
  PROVE  RecordsSeen(k, Seen, driver)
BY DEF RecordsSeen, PageLength, Smaller

LEMMA PageStatement ==
  ASSUME IInv, PagesInv, NEW c \in Clients, PageFirst(c) \/ PageSecond(c), Look, driver' = driver
  PROVE  PagesInv'
<1> DEFINE k == call[c]
           T == Targets(k.req)
<1>1. /\ call[c].pc \in {"statement", "second"} /\ k.req.op = "findPage" /\ Reads
      /\ PageFirst(c) => k.pc = "statement"
      /\ PageSecond(c) => k.pc = "second"
  BY DEF PageFirst, PageSecond
<1>2. IsCall(k) /\ PageInv(k, seen[c], driver, wild)
  BY <1>1, NotStarted DEF PagesInv
<1>3. k.req.ids \subseteq Ids /\ (k.pc = "statement" => k.records = {})
  BY <1>1, <1>2 DEF PageInv
<1> DEFINE Counted(new) == new.total = Cardinality(T)
           Listed(new) == new.records \subseteq T /\ Cardinality(new.records) = PageLength(k.req)
           Same(new) == new.total = k.total /\ new.records = k.records
<1>4. PICK new : /\ Move(c, new) /\ new.req = k.req
                 /\ \/ PageFirst(c) /\ driver = "memory" /\ new.pc = "second" /\ Listed(new)
                    \/ PageFirst(c) /\ driver # "memory" /\ new.pc = "second" /\ Counted(new)
                    \/ PageFirst(c) /\ driver # "memory" /\ new.pc = "log" /\ Counted(new) /\ Cardinality(T) = 0
                         /\ new.records = {}
                    \/ PageSecond(c) /\ driver = "memory" /\ new.pc = "log" /\ Counted(new) /\ new.records = k.records
                    \/ PageSecond(c) /\ driver # "memory" /\ new.pc = "log" /\ Listed(new) /\ new.total = k.total
  <2>1. CASE PageFirst(c) /\ driver = "memory"
    <3>1. Records(c, [k EXCEPT !.pc = "second"])
      BY <2>1 DEF PageFirst
    <3>2. PICK S : /\ S \subseteq T /\ Cardinality(S) = PageLength(k.req)
                   /\ Move(c, [[k EXCEPT !.pc = "second"] EXCEPT !.records = S])
      BY <3>1 DEF Records
    <3> HIDE DEF k
    <3>3. /\ [[k EXCEPT !.pc = "second"] EXCEPT !.records = S].req = k.req
          /\ [[k EXCEPT !.pc = "second"] EXCEPT !.records = S].records = S
          /\ [[k EXCEPT !.pc = "second"] EXCEPT !.records = S].pc = "second"
      BY <1>2 DEF IsCall
    <3> QED
      BY <2>1, <3>2, <3>3
  <2>2. CASE PageFirst(c) /\ driver # "memory"
    <3>1. \/ Move(c, [k EXCEPT !.pc = "second", !.total = Cardinality(T)])
          \/ Cardinality(T) = 0 /\ Move(c, [Answer(c, "ok") EXCEPT !.total = Cardinality(T)])
      BY <2>2 DEF PageFirst, Count
    <3>2. Answer(c, "ok") = [k EXCEPT !.pc = "log", !.outcome = "ok"]
      BY DEF Answer
    <3>3. k.records = {}
      BY <1>1, <1>3, <2>2
    <3> DEFINE n == Cardinality(T)
    <3> HIDE DEF k, n
    <3>4. /\ [k EXCEPT !.pc = "second", !.total = n].req = k.req
          /\ [k EXCEPT !.pc = "second", !.total = n].total = n
          /\ [k EXCEPT !.pc = "second", !.total = n].pc = "second"
      BY <1>2 DEF IsCall
    <3>5. /\ [Answer(c, "ok") EXCEPT !.total = n].req = k.req
          /\ [Answer(c, "ok") EXCEPT !.total = n].total = n
          /\ [Answer(c, "ok") EXCEPT !.total = n].pc = "log"
          /\ [Answer(c, "ok") EXCEPT !.total = n].records = {}
      BY <1>2, <3>2, <3>3 DEF IsCall
    <3>6. n = Cardinality(T)
      BY DEF n
    <3> QED
      BY <2>2, <3>1, <3>4, <3>5, <3>6
  <2>3. CASE PageSecond(c) /\ driver = "memory"
    <3> DEFINE n == Cardinality(T)
    <3>1. Move(c, [Answer(c, "ok") EXCEPT !.total = n])
      BY <2>3 DEF PageSecond, Count
    <3>2. Answer(c, "ok") = [k EXCEPT !.pc = "log", !.outcome = "ok"]
      BY DEF Answer
    <3> HIDE DEF k, n
    <3>3. /\ [Answer(c, "ok") EXCEPT !.total = n].req = k.req
          /\ [Answer(c, "ok") EXCEPT !.total = n].total = n
          /\ [Answer(c, "ok") EXCEPT !.total = n].pc = "log"
          /\ [Answer(c, "ok") EXCEPT !.total = n].records = k.records
      BY <1>2, <3>2 DEF IsCall
    <3>4. n = Cardinality(T)
      BY DEF n
    <3> QED
      BY <2>3, <3>1, <3>3, <3>4
  <2>4. CASE PageSecond(c) /\ driver # "memory"
    <3>1. Records(c, Answer(c, "ok"))
      BY <2>4 DEF PageSecond
    <3>2. PICK S : /\ S \subseteq T /\ Cardinality(S) = PageLength(k.req)
                   /\ Move(c, [Answer(c, "ok") EXCEPT !.records = S])
      BY <3>1 DEF Records
    <3>3. Answer(c, "ok") = [k EXCEPT !.pc = "log", !.outcome = "ok"]
      BY DEF Answer
    <3> HIDE DEF k
    <3>4. /\ [Answer(c, "ok") EXCEPT !.records = S].req = k.req
          /\ [Answer(c, "ok") EXCEPT !.records = S].records = S
          /\ [Answer(c, "ok") EXCEPT !.records = S].pc = "log"
          /\ [Answer(c, "ok") EXCEPT !.records = S].total = k.total
      BY <1>2, <3>3 DEF IsCall
    <3> QED
      BY <2>4, <3>2, <3>4
  <2> QED
    BY <2>1, <2>2, <2>3, <2>4
<1>5. call'[c] = new /\ \A d \in Clients \ {c} : call'[d] = call[d]
  BY <1>4, Moved DEF IInv
<1>6. wild' = wild /\ store' = store /\ present' = present
  BY <1>1 DEF Reads
<1>7. DOMAIN seen' = Clients /\ \A d \in Clients : seen[d] \subseteq seen'[d]
  BY LookGrows DEF PagesInv
<1>8. wild = {} => T \in seen'[c]
  <2>1. SUFFICES ASSUME wild = {} PROVE T \in seen'[c]
    OBVIOUS
  <2>2. T = Selected(c, k.req)
    BY <1>1, <1>3, <2>1, TargetsSelected
  <2>3. Selected(c, call[c].req)' = Selected(c, k.req)
    BY <1>4, <1>5, <1>6 DEF Selected, Stored, Ids
  <2>4. seen'[c] = seen[c] \cup {Selected(c, call[c].req)'}
    BY <1>1, <1>4, <1>5 DEF Look
  <2> QED
    BY <2>2, <2>3, <2>4
<1>9. wild = {} => \/ new.pc = "second" /\ driver = "memory" /\ RecordsSeen(new, seen'[c], driver)
                   \/ new.pc = "second" /\ driver # "memory" /\ TotalSeen(new, seen'[c])
                   \/ new.pc = "log" /\ TotalSeen(new, seen'[c]) /\ RecordsSeen(new, seen'[c], driver)
  <2> SUFFICES ASSUME wild = {}
               PROVE  \/ new.pc = "second" /\ driver = "memory" /\ RecordsSeen(new, seen'[c], driver)
                      \/ new.pc = "second" /\ driver # "memory" /\ TotalSeen(new, seen'[c])
                      \/ new.pc = "log" /\ TotalSeen(new, seen'[c]) /\ RecordsSeen(new, seen'[c], driver)
    OBVIOUS
  <2>1. T \in seen'[c] /\ new.req = k.req
    BY <1>4, <1>8
  <2>2. Counted(new) => TotalSeen(new, seen'[c])
    BY <2>1, CountPage
  <2>3. Listed(new) => RecordsSeen(new, seen'[c], driver)
    BY <2>1, ReadPage
  <2>4. PageSecond(c) /\ driver = "memory" /\ new.records = k.records => RecordsSeen(new, seen'[c], driver)
    BY <1>1, <1>2, <1>7, <2>1 DEF PageInv, RecordsSeen
  <2>5. PageSecond(c) /\ driver # "memory" /\ new.total = k.total => TotalSeen(new, seen'[c])
    BY <1>1, <1>2, <1>7, <2>1 DEF PageInv, TotalSeen
  <2>6. new.records = {} /\ Cardinality(T) = 0 => RecordsSeen(new, seen'[c], driver)
    <3>1. Cardinality({}) = 0
      BY FS_EmptySet
    <3> QED
      BY <2>1, <3>1 DEF RecordsSeen
  <2> HIDE DEF k, T, Counted, Listed
  <2> QED
    BY <1>4, <2>2, <2>3, <2>4, <2>5, <2>6
<1>10. PageInv(new, seen'[c], driver, wild')
  <2>1. new.pc \in {"second", "log"} /\ new.req = k.req
    BY <1>4
  <2> QED
    BY <1>1, <1>3, <1>6, <1>9, <2>1 DEF PageInv
<1> QED
  BY <1>5, <1>6, <1>7, <1>10, OthersPages

LEMMA NextPages ==
  ASSUME FullChains, IInv, PagesInv, [Next]_vars
  PROVE  PagesInv'
<1>1. ASSUME NEW c \in Clients, Start(c) PROVE PagesInv'
  BY <1>1, StartPage
<1>2. ASSUME NEW c \in Clients, Step(c) PROVE PagesInv'
  <2>1. Look /\ driver' = driver
    BY <1>2 DEF Step
  <2>2. CASE Before(c)
    BY <2>1, <2>2, BeforePage
  <2>3. CASE RefuseOperation(c) \/ Insert(c) \/ InsertReread(c) \/ CreateReread(c)
    BY <2>1, <2>3, InsertPage
  <2>4. CASE Update(c) \/ Replace(c) \/ Delete(c)
    BY <2>1, <2>4, WriteStepPage
  <2>5. CASE PageFirst(c) \/ PageSecond(c)
    BY <2>1, <2>5, PageStatement
  <2>6. CASE Log(c)
    BY <2>1, <2>6, EndPage
  <2> QED
    BY <1>2, <2>2, <2>3, <2>4, <2>5, <2>6 DEF Step
<1>3. ASSUME NEW c \in Clients, Fail(c), Look, driver' = driver PROVE PagesInv'
  BY <1>3, EndPage
<1>4. CASE UNCHANGED vars
  <2>1. driver' = driver /\ call' = call /\ seen' = seen /\ wild' = wild
    BY <1>4 DEF vars, history
  <2> QED
    BY <2>1 DEF PagesInv, PageInv, TotalSeen, RecordsSeen, Smaller, Ids
<1> QED
  BY <1>1, <1>2, <1>3, <1>4 DEF Next

(* A page that a client is given, of any driver and length, and its total  *)
(* are each what the client's filter selected at some moment of the call,  *)
(* as long as no write has gone past the middlewares.                      *)
THEOREM PagesAlwaysCurrent == FullChains /\ OrdinaryRequests => (Spec => []PagesCurrent)
<1> SUFFICES ASSUME FullChains, OrdinaryRequests PROVE Spec => []PagesCurrent
  OBVIOUS
<1>1. Init => PagesInv
  BY DEF Init, PagesInv, PageInv, Idle
<1>2. IInv /\ PagesInv /\ [Next]_vars => PagesInv'
  BY NextPages
<1>3. PagesInv => PagesCurrent
  BY DEF PagesInv, PageInv, TotalSeen, RecordsSeen, PagesCurrent
<1>4. Spec => []IInv
  BY DriverInvariant
<1> QED
  BY <1>1, <1>2, <1>3, <1>4, PTL DEF Spec
=============================================================================
