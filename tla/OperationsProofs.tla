-------------------------- MODULE OperationsProofs --------------------------
(***************************************************************************)
(* Proofs about Operations, for any number of the user's middlewares with  *)
(* any hooks, any transactions, sessions, datasources and operations.      *)
(*                                                                         *)
(* The argument: an operation is known by itself, whatever the others do,  *)
(* but for one thing: while an operation that is awaited runs, the         *)
(* transaction it was called in is open.  CallInv says what is known in    *)
(* each phase; the session it was given when its first middleware ran      *)
(* never changes, the last middleware completes the record, and the after  *)
(* functions that have run are the upper part of those to be run.          *)
(***************************************************************************)
EXTENDS Operations, TLAPS, WellFoundedInduction

(* A nonempty set of natural numbers has a least element. *)
LEMMA Least ==
  ASSUME NEW S, S \subseteq Nat, S # {}
  PROVE  \E x \in S : \A y \in S : x <= y
<1> DEFINE Less == {p \in Nat \X Nat : p[1] < p[2]}
<1>1. IsWellFoundedOn(Less, Nat)
  BY NatLessThanWellFounded DEF OpToRel
<1>2. PICK x \in S : \A y \in S : <<y, x>> \notin Less
  <2> HIDE DEF Less
  <2> QED
    BY <1>1, WFMin
<1>3. \A y \in S : ~(y < x)
  BY <1>2
<1> QED
  BY <1>3

Ended == {"done", "failed"}

Given == {Null} \cup {Sessions[t][ds] : t \in Txs, ds \in Datasources}

Input == [session : Given, hasId : BOOLEAN, hasField : BOOLEAN, changes : BOOLEAN, tooDeep : BOOLEAN]

Complete(input) == input.hasId /\ input.hasField

CallRec ==
  [manager : Managers, ds : Datasources, kind : {"find", "insert", "update", "delete"},
   input : Input, awaited : BOOLEAN, inside : BOOLEAN, parent : Calls \cup {Null},
   phase : {"before", "driver", "relations", "nested", "after", "done", "failed"},
   idx : Middlewares, stop : Middlewares \cup {Null}, executed : Input \cup {Null},
   nested : Calls \cup {Null}, ran : Seq(Middlewares), cut : BOOLEAN]

OfTransaction(c) == c.manager \in Txs /\ c.input.session = Sessions[c.manager][c.ds]

(* What an operation is given, and what of it reaches the driver. *)
InputInv(c) ==
  /\ c.input.session # Null => OfTransaction(c)
  /\ c.inside /\ (c.awaited \/ c.parent = Null) => OfTransaction(c)
  /\ c.phase \in {"before", "driver"} => c.executed = Null
  /\ c.phase = "driver" => Complete(c.input)
  /\ c.executed # Null => c.executed = c.input /\ Complete(c.input)

(* The middlewares behind it. *)
Reached(c) == {i \in 0..LastAfter(c) : HasAfter(i)}

OrderInv(c) ==
  /\ c.phase = "before" => c.idx # 0 /\ HasBefore(c.idx) /\ c.stop = Null
  /\ c.stop = Null \/ c.stop # 0
  /\ c.phase \in {"before", "driver", "relations", "nested"} => c.ran = <<>>
  /\ \A k \in DOMAIN c.ran : c.ran[k] \in Reached(c)
  /\ \A k, m \in DOMAIN c.ran : k < m => c.ran[k] > c.ran[m]
  /\ \A i \in Reached(c) : (\E k \in DOMAIN c.ran : c.ran[k] = i) \/ i \in LeftAfter(c)
  /\ c.phase = "done" /\ ~c.cut => LeftAfter(c) = {}

CallInv(c) == c \in CallRec /\ InputInv(c) /\ OrderInv(c)

(* The transaction an operation was called in, if somebody waits for it. *)
AwaitedInside(c) ==
  c.awaited => c.inside /\ (c.phase \notin Ended => IsTransacting(c.manager))

IInv ==
  /\ txs \in [Txs -> {"new", "open", "ended"}]
  /\ DOMAIN calls \subseteq Calls
  /\ \A x \in DOMAIN calls : CallInv(calls[x]) /\ AwaitedInside(calls[x])

-----------------------------------------------------------------------------

LEMMA Numbers ==
  /\ Check \in Nat /\ Check >= 5 /\ Check \in Middlewares /\ 0 \in Middlewares
  /\ Middlewares \subseteq Nat
  /\ HasBefore(0) /\ HasBefore(1) /\ HasBefore(Check)
  /\ ~HasAfter(0)
BY OperationsAssumption DEF Check, FirstUser, Middlewares, HasBefore, HasAfter

-----------------------------------------------------------------------------
(* The hooks. *)

LEMMA SessionType ==
  ASSUME NEW m \in Managers, NEW ds \in Datasources
  PROVE  /\ SessionOf(m, ds) \in Given
         /\ SessionOf(m, ds) # Null => m \in Txs /\ SessionOf(m, ds) = Sessions[m][ds]
         /\ IsTransacting(m) => m \in Txs /\ SessionOf(m, ds) = Sessions[m][ds]
BY DEF SessionOf, IsTransacting, Given

(* After the first hook, hooks leave the session alone; the last one does  *)
(* not let an incomplete record pass.                                      *)
LEMMA HookAnswers ==
  ASSUME NEW c \in CallRec, NEW i \in Middlewares, i # 0, NEW a \in Before(i, c)
  PROVE  /\ a.next \in {"go", "stop", "throw"}
         /\ a.input \in Input /\ a.input.session = c.input.session
         /\ i = Check /\ a.next = "go" => Complete(a.input)
<1> USE DEF Go, Stop, Throw, Complete, Input
<1>0. c.input \in Input /\ Check \in Int /\ i \in Int
  BY Numbers DEF CallRec, Middlewares
<1>1. CASE i \in FirstUser..(Check - 1)
  <2>1. a \in UserBefore(i, c) /\ i # Check
    BY <1>0, <1>1 DEF Before, FirstUser
  <2>2. \/ a = Go(c.input) \/ a = Stop(c.input) \/ a = Throw(c.input)
        \/ a = Go([c.input EXCEPT !.hasField = TRUE])
        \/ a = Go([c.input EXCEPT !.hasId = (c.kind # "insert"), !.hasField = (c.kind # "insert")])
    BY <2>1 DEF UserBefore
  <2>3. Check \in Middlewares /\ i # Check
    BY <2>1, Numbers
  <2>4. CASE a = Go(c.input) \/ a = Stop(c.input) \/ a = Throw(c.input)
    BY <1>0, <2>3, <2>4
  <2>5. CASE a = Go([c.input EXCEPT !.hasField = TRUE])
    BY <1>0, <2>3, <2>5
  <2>6. CASE a = Go([c.input EXCEPT !.hasId = (c.kind # "insert"), !.hasField = (c.kind # "insert")])
    <3>1. [c.input EXCEPT !.hasId = (c.kind # "insert"), !.hasField = (c.kind # "insert")] \in Input
      BY <1>0
    <3>2. a.input.session = c.input.session
      BY <1>0, <2>6
    <3> QED
      BY <2>3, <2>6, <3>1, <3>2
  <2> QED
    BY <2>2, <2>4, <2>5, <2>6
<1>2. CASE i \notin FirstUser..(Check - 1)
  <2>1. a = LibraryBefore(i, c)
    BY <1>2 DEF Before
  <2>2. CASE i = Check
    <3>1. LibraryBefore(i, c) = CheckGenerated(c)
      BY <2>2, Numbers DEF LibraryBefore, Injector
    <3>2. CASE c.input.hasField
      <4>1. a = Go([c.input EXCEPT !.hasId = TRUE])
        BY <2>1, <3>1, <3>2 DEF CheckGenerated
      <4> QED
        BY <1>0, <3>2, <4>1
    <3>3. CASE ~c.input.hasField
      <4>1. a = Throw(c.input)
        BY <2>1, <3>1, <3>3 DEF CheckGenerated
      <4> QED
        BY <1>0, <4>1
    <3> QED
      BY <3>2, <3>3
  <2>3. CASE i # Check
    <3>1. \/ a = Go(c.input) \/ a = Stop(c.input) \/ a = Throw(c.input)
          \/ a = Go([c.input EXCEPT !.hasId = TRUE])
      BY <2>1, <2>3 DEF LibraryBefore, Injector
    <3>2. CASE a = Go(c.input) \/ a = Stop(c.input) \/ a = Throw(c.input)
      BY <1>0, <2>3, <3>2
    <3>3. CASE a = Go([c.input EXCEPT !.hasId = TRUE])
      BY <1>0, <2>3, <3>3
    <3> QED
      BY <3>1, <3>2, <3>3
  <2> QED
    BY <2>2, <2>3
<1> QED
  BY <1>1, <1>2

(* The first hook hands over the session of the manager. *)
LEMMA InjectorAnswers ==
  ASSUME NEW c \in CallRec
  PROVE  Before(0, c) = {Go([c.input EXCEPT !.session = SessionOf(c.manager, c.ds)])}
BY Numbers DEF Before, LibraryBefore, Injector, FirstUser

SameCall(c, d) ==
  /\ d.manager = c.manager /\ d.ds = c.ds /\ d.awaited = c.awaited /\ d.inside = c.inside
  /\ d.parent = c.parent /\ d.executed = c.executed /\ d.ran = c.ran /\ d.cut = c.cut

(* What an answer makes of an operation. *)
LEMMA Answered ==
  ASSUME NEW c \in CallRec, c.phase = "before", HasBefore(c.idx), c.stop = Null,
         NEW a, a.next \in {"go", "stop", "throw"}, a.input \in Input,
         c.idx = Check /\ a.next = "go" => Complete(a.input)
  PROVE  LET d == Answer(c, a) IN
         /\ d \in CallRec
         /\ d.input = IF a.next = "throw" THEN c.input ELSE a.input
         /\ d.phase = "before" => d.idx # 0 /\ HasBefore(d.idx)
         /\ d.phase = "driver" => Complete(d.input)
         /\ d.phase \in {"before", "driver", "relations", "failed"}
         /\ d.stop = IF a.next = "stop" THEN c.idx ELSE Null
         /\ a.next = "go" => d.phase \in {"before", "driver"}
         /\ SameCall(c, d)
<1> USE DEF SameCall
<1> DEFINE d == Answer(c, a)
           later == {i \in Middlewares : i > c.idx /\ HasBefore(i)}
<1>0. c.idx \in Middlewares /\ c.idx \in Nat
  BY Numbers DEF CallRec
<1>1. CASE a.next = "throw"
  <2>1. d = [c EXCEPT !.phase = "failed"]
    BY <1>1 DEF Answer
  <2> QED
    BY <1>1, <2>1 DEF CallRec
<1>2. CASE a.next = "stop"
  <2>1. d = [c EXCEPT !.input = a.input, !.phase = "relations", !.stop = c.idx]
    BY <1>2 DEF Answer
  <2> QED
    BY <1>0, <1>2, <2>1 DEF CallRec
<1>3. CASE a.next = "go" /\ later = {}
  <2>1. d = [c EXCEPT !.input = a.input, !.phase = "driver"]
    BY <1>3 DEF Answer
  <2>2. c.idx = Check
    BY <1>0, <1>3, Numbers DEF Middlewares
  <2> QED
    BY <1>3, <2>1, <2>2 DEF CallRec
<1>4. CASE a.next = "go" /\ later # {}
  <2> DEFINE next == CHOOSE i \in later : \A j \in later : i <= j
  <2>1. d = [c EXCEPT !.input = a.input, !.idx = next]
    BY <1>4 DEF Answer
  <2>2. later \subseteq Nat
    BY Numbers
  <2>3. \E i \in later : \A j \in later : i <= j
    BY <1>4, <2>2, Least
  <2>4. next \in later
    BY <2>3
  <2> HIDE DEF next
  <2>5. next \in Middlewares /\ next # 0 /\ HasBefore(next)
    BY <1>0, <2>2, <2>4
  <2> HIDE DEF later
  <2>6. d \in CallRec /\ SameCall(c, d)
    BY <2>1, <2>5 DEF CallRec
  <2>7. /\ d.input = a.input /\ d.phase = "before" /\ d.idx = next /\ d.stop = Null
    BY <2>1, <2>5 DEF CallRec
  <2> QED
    BY <1>4, <2>5, <2>6, <2>7
<1> QED
  BY <1>1, <1>2, <1>3, <1>4

-----------------------------------------------------------------------------
(* Each step of an operation keeps what is known of it. *)

(* From the call to the second middleware, for a call in manager m. *)
LEMMA StartedInv ==
  ASSUME NEW m \in Managers, NEW ds \in Datasources,
         NEW kind \in {"find", "insert", "update", "delete"}, NEW input \in Inputs(kind),
         NEW awaited \in BOOLEAN, NEW inside \in BOOLEAN, NEW parent \in Calls \cup {Null},
         inside /\ (awaited \/ parent = Null) => IsTransacting(m),
         NEW d \in Started(NewCall(m, ds, kind, input, awaited, inside, parent))
  PROVE  /\ CallInv(d)
         /\ d.manager = m /\ d.awaited = awaited /\ d.inside = inside
<1> DEFINE c == NewCall(m, ds, kind, input, awaited, inside, parent)
           a == Go([c.input EXCEPT !.session = SessionOf(c.manager, c.ds)])
<1>1. input \in Input /\ input.session = Null
  <2> DEFINE I == IF kind = "insert" THEN BOOLEAN ELSE {TRUE}
             U == IF kind = "update" THEN BOOLEAN ELSE {TRUE}
             F == IF kind = "find" THEN BOOLEAN ELSE {FALSE}
  <2>1. I \subseteq BOOLEAN /\ U \subseteq BOOLEAN /\ F \subseteq BOOLEAN
    OBVIOUS
  <2>2. input \in [session : {Null}, hasId : I, hasField : I, changes : U, tooDeep : F]
    BY DEF Inputs
  <2> HIDE DEF I, U, F
  <2> QED
    BY <2>1, <2>2 DEF Input, Given
<1>2. c \in CallRec
  BY <1>1, Numbers DEF NewCall, CallRec
<1>3. /\ c.manager = m /\ c.ds = ds /\ c.input = input /\ c.awaited = awaited
      /\ c.inside = inside /\ c.parent = parent /\ c.phase = "before" /\ c.idx = 0
      /\ c.stop = Null /\ c.executed = Null /\ c.ran = <<>>
  BY DEF NewCall
<1>4. a.next = "go" /\ a.input \in Input /\ a.input.session = SessionOf(m, ds)
  BY <1>1, <1>3, SessionType DEF Go, Input
<1>5. d = Answer(c, a)
  <2>1. Before(0, c) = {a}
    BY <1>2, InjectorAnswers
  <2> HIDE DEF c, a
  <2>2. d \in {Answer(c, b) : b \in Before(0, c)}
    BY DEF Started, c
  <2> QED
    BY <2>1, <2>2
<1> HIDE DEF c, a
<1>6. /\ d \in CallRec /\ d.input = a.input /\ d.stop = Null
      /\ d.phase \in {"before", "driver"}
      /\ d.phase = "before" => d.idx # 0 /\ HasBefore(d.idx)
      /\ d.phase = "driver" => Complete(d.input)
      /\ SameCall(c, d)
  BY <1>2, <1>3, <1>4, <1>5, Answered, Numbers
<1>7. /\ d.manager = m /\ d.ds = ds /\ d.awaited = awaited /\ d.inside = inside
      /\ d.parent = parent /\ d.executed = Null /\ d.ran = <<>>
  BY <1>3, <1>6 DEF SameCall
<1>8. InputInv(d)
  BY <1>4, <1>6, <1>7, SessionType DEF InputInv, OfTransaction
<1>9. OrderInv(d)
  BY <1>6, <1>7 DEF OrderInv, Reached, LeftAfter
<1> QED
  BY <1>6, <1>7, <1>8, <1>9 DEF CallInv

LEMMA BeforeInv ==
  ASSUME NEW c, CallInv(c), c.phase = "before", NEW a \in Before(c.idx, c)
  PROVE  CallInv(Answer(c, a)) /\ SameCall(c, Answer(c, a))
<1> DEFINE d == Answer(c, a)
<1>1. /\ c \in CallRec /\ c.idx \in Middlewares /\ c.idx # 0 /\ HasBefore(c.idx) /\ c.stop = Null
      /\ c.ran = <<>> /\ c.executed = Null
  BY DEF CallInv, OrderInv, InputInv, CallRec
<1>2. /\ a.next \in {"go", "stop", "throw"} /\ a.input \in Input
      /\ a.input.session = c.input.session
      /\ c.idx = Check /\ a.next = "go" => Complete(a.input)
  BY <1>1, HookAnswers
<1>3. /\ d \in CallRec /\ d.input = IF a.next = "throw" THEN c.input ELSE a.input
      /\ d.phase = "before" => d.idx # 0 /\ HasBefore(d.idx)
      /\ d.phase = "driver" => Complete(d.input)
      /\ d.phase \in {"before", "driver", "relations", "failed"}
      /\ d.stop = IF a.next = "stop" THEN c.idx ELSE Null
      /\ a.next = "go" => d.phase \in {"before", "driver"}
      /\ SameCall(c, d)
  BY <1>1, <1>2, Answered
<1>4. a.next = "stop" => d.phase = "relations"
  BY <1>1 DEF Answer, CallRec
<1> HIDE DEF d
<1>5. d.input.session = c.input.session /\ (OfTransaction(c) => OfTransaction(d))
  BY <1>2, <1>3 DEF OfTransaction, SameCall
<1>6. InputInv(d)
  <2>1. d.executed = Null /\ d.inside = c.inside /\ d.awaited = c.awaited /\ d.parent = c.parent
    BY <1>1, <1>3 DEF SameCall
  <2>2. d.input.session # Null => OfTransaction(d)
    BY <1>5 DEF CallInv, InputInv
  <2>3. d.inside /\ (d.awaited \/ d.parent = Null) => OfTransaction(d)
    BY <1>5, <2>1 DEF CallInv, InputInv
  <2> QED
    BY <1>3, <2>1, <2>2, <2>3 DEF InputInv
<1>7. OrderInv(d)
  <2>1. d.ran = <<>> /\ d.phase # "done"
    BY <1>1, <1>3 DEF SameCall
  <2>2. d.stop = Null \/ d.stop # 0
    BY <1>1, <1>3
  <2>3. d.phase = "before" => d.stop = Null
    BY <1>3, <1>4
  <2>4. LeftAfter(d) = Reached(d)
    BY <2>1 DEF LeftAfter, Reached
  <2> QED
    BY <1>3, <2>1, <2>2, <2>3, <2>4 DEF OrderInv
<1> QED
  BY <1>3, <1>6, <1>7 DEF CallInv, d

(* A step that neither changes the input nor goes back, and runs no after  *)
(* function.                                                               *)
LEMMA PhaseInv ==
  ASSUME NEW c, CallInv(c), NEW d, d \in CallRec, SameCall(c, d),
         d.input = c.input, d.stop = c.stop,
         d.phase \in {"relations", "nested", "after", "failed"},
         c.phase \in {"relations", "nested"}
  PROVE  CallInv(d)
<1>1. InputInv(d)
  BY DEF CallInv, InputInv, OfTransaction, SameCall
<1>2. c.ran = <<>> /\ d.ran = <<>> /\ (d.stop = Null \/ d.stop # 0)
  BY DEF CallInv, OrderInv, SameCall
<1>3. LeftAfter(d) = Reached(d)
  BY <1>2 DEF LeftAfter, Reached
<1>4. OrderInv(d)
  BY <1>2, <1>3 DEF OrderInv
<1> QED
  BY <1>1, <1>4 DEF CallInv

LEMMA DriverInv ==
  ASSUME NEW c, CallInv(c), c.phase = "driver", NEW phase \in {"relations", "failed"}
  PROVE  LET d == [c EXCEPT !.phase = phase, !.executed = c.input] IN
         CallInv(d) /\ d.manager = c.manager /\ d.awaited = c.awaited /\ d.inside = c.inside
<1> DEFINE d == [c EXCEPT !.phase = phase, !.executed = c.input]
<1>1. /\ d \in CallRec /\ d.manager = c.manager /\ d.awaited = c.awaited /\ d.inside = c.inside
      /\ d.parent = c.parent /\ d.ds = c.ds /\ d.input = c.input /\ d.executed = c.input
      /\ d.phase = phase /\ d.stop = c.stop /\ d.ran = c.ran
  BY DEF CallInv, CallRec
<1> HIDE DEF d
<1>2. InputInv(d)
  BY <1>1 DEF CallInv, InputInv, OfTransaction
<1>3. c.ran = <<>> /\ (d.stop = Null \/ d.stop # 0)
  BY <1>1 DEF CallInv, OrderInv
<1>4. LeftAfter(d) = Reached(d)
  BY <1>1, <1>3 DEF LeftAfter, Reached
<1>5. OrderInv(d)
  BY <1>1, <1>3, <1>4 DEF OrderInv
<1> QED
  BY <1>1, <1>2, <1>5 DEF CallInv, d

(* An after function is the greatest of those left, if any is left.        *)
LEMMA AfterInv ==
  ASSUME NEW c, CallInv(c), c.phase = "after", LeftAfter(c) # {},
         NEW next \in {"after", "done", "failed"}
  PROVE  LET i == CHOOSE j \in LeftAfter(c) : \A k \in LeftAfter(c) : k <= j
             d == [c EXCEPT !.ran = Append(@, i), !.phase = next, !.cut = (next = "done")]
         IN CallInv(d) /\ d.manager = c.manager /\ d.awaited = c.awaited /\ d.inside = c.inside
<1> DEFINE i == CHOOSE j \in LeftAfter(c) : \A k \in LeftAfter(c) : k <= j
           n == Len(c.ran)
           d == [c EXCEPT !.ran = Append(@, i), !.phase = next, !.cut = (next = "done")]
<1>1. c \in CallRec /\ c.ran \in Seq(Middlewares) /\ c.stop \in Middlewares \cup {Null}
  BY DEF CallInv, CallRec
<1>2. LastAfter(c) \in Nat /\ LastAfter(c) <= Check
  BY <1>1, Numbers DEF LastAfter, Middlewares
<1>3. LeftAfter(c) \subseteq 0..LastAfter(c) /\ LeftAfter(c) \subseteq Reached(c)
  BY DEF LeftAfter, Reached
<1>4. i \in LeftAfter(c) /\ \A k \in LeftAfter(c) : k <= i
  <2>1. \E j \in LeftAfter(c) : \A k \in LeftAfter(c) : k <= j
    <3> DEFINE last == LastAfter(c)
               Left == {last - j : j \in LeftAfter(c)}
    <3>1. last \in Nat /\ \A j \in LeftAfter(c) : j \in Nat /\ j <= last
      BY <1>2, <1>3
    <3> HIDE DEF last
    <3>2. Left \subseteq Nat /\ Left # {}
      BY <3>1
    <3>3. \A j \in LeftAfter(c) : last - j \in Left
      OBVIOUS
    <3>4. \A x \in Left : \E j \in LeftAfter(c) : x = last - j
      OBVIOUS
    <3> HIDE DEF Left
    <3>5. PICK x \in Left : \A y \in Left : x <= y
      BY <3>2, Least
    <3>6. PICK j \in LeftAfter(c) : x = last - j
      BY <3>4
    <3>7. ASSUME NEW k \in LeftAfter(c) PROVE k <= j
      <4>1. last - j <= last - k
        BY <3>3, <3>5, <3>6
      <4> QED
        BY <3>1, <4>1
    <3> QED
      BY <3>7
  <2> QED
    BY <2>1
<1> HIDE DEF i
<1>5. /\ i \in Middlewares /\ i \in Nat /\ i \in Reached(c)
      /\ \A k \in DOMAIN c.ran : i < c.ran[k] /\ c.ran[k] \in Nat
  BY <1>1, <1>2, <1>3, <1>4, Numbers DEF LeftAfter, Middlewares
<1>6. /\ d \in CallRec /\ d.manager = c.manager /\ d.awaited = c.awaited /\ d.inside = c.inside
      /\ d.parent = c.parent /\ d.ds = c.ds /\ d.input = c.input /\ d.executed = c.executed
      /\ d.phase = next /\ d.stop = c.stop /\ d.ran = Append(c.ran, i)
  <2> DEFINE cut == (next = "done")
             ran == Append(c.ran, i)
  <2>1. cut \in BOOLEAN /\ ran \in Seq(Middlewares)
    BY <1>1, <1>5
  <2>2. d = [c EXCEPT !.ran = ran, !.phase = next, !.cut = cut]
    OBVIOUS
  <2> HIDE DEF cut, ran, d
  <2>3. /\ d \in CallRec /\ d.manager = c.manager /\ d.awaited = c.awaited /\ d.inside = c.inside
        /\ d.parent = c.parent /\ d.ds = c.ds /\ d.input = c.input /\ d.executed = c.executed
        /\ d.phase = next /\ d.stop = c.stop /\ d.ran = ran /\ d.cut = cut
    BY <1>1, <2>1, <2>2 DEF CallRec
  <2> QED
    BY <2>3 DEF ran, cut
<1>12. next = "done" => d.cut
  BY <1>1 DEF CallRec
<1> HIDE DEF d
<1>7. /\ DOMAIN d.ran = 1..(n + 1) /\ DOMAIN c.ran = 1..n /\ n \in Nat
      /\ d.ran[n + 1] = i /\ \A k \in 1..n : d.ran[k] = c.ran[k]
  BY <1>1, <1>5, <1>6
<1>8. InputInv(d)
  BY <1>6 DEF CallInv, InputInv, OfTransaction
<1>9. LastAfter(d) = LastAfter(c) /\ Reached(d) = Reached(c)
  BY <1>6 DEF LastAfter, Reached
<1>10. LeftAfter(d) = LeftAfter(c) \ {i}
  <2>1. ASSUME NEW j \in LeftAfter(c), j # i PROVE j \in LeftAfter(d)
    <3>1. j < i
      BY <1>2, <1>3, <1>4, <1>5, <2>1
    <3> QED
      BY <1>7, <1>9, <2>1, <3>1 DEF LeftAfter
  <2>2. ASSUME NEW j \in LeftAfter(d) PROVE j \in LeftAfter(c) /\ j # i
    BY <1>5, <1>7, <1>9 DEF LeftAfter
  <2> QED
    BY <2>1, <2>2
<1>11. OrderInv(d)
  <2>1. \A k \in DOMAIN d.ran : d.ran[k] \in Reached(d)
    BY <1>5, <1>7, <1>9 DEF CallInv, OrderInv
  <2>2. \A k, m \in DOMAIN d.ran : k < m => d.ran[k] > d.ran[m]
    <3>1. \A k, m \in 1..n : k < m => c.ran[k] > c.ran[m]
      BY <1>7 DEF CallInv, OrderInv
    <3>2. ASSUME NEW k \in 1..(n + 1), NEW m \in 1..(n + 1), k < m PROVE d.ran[k] > d.ran[m]
      <4>1. k \in 1..n
        BY <1>7, <3>2
      <4>2. CASE m = n + 1
        BY <1>5, <1>7, <4>1, <4>2
      <4>3. CASE m # n + 1
        BY <1>7, <3>1, <3>2, <4>1, <4>3
      <4> QED
        BY <4>2, <4>3
    <3> QED
      BY <1>7, <3>2
  <2>3. \A j \in Reached(d) : (\E k \in DOMAIN d.ran : d.ran[k] = j) \/ j \in LeftAfter(d)
    BY <1>7, <1>9, <1>10 DEF CallInv, OrderInv
  <2>4. d.stop = Null \/ d.stop # 0
    BY <1>6 DEF CallInv, OrderInv
  <2> QED
    BY <1>6, <1>12, <2>1, <2>2, <2>3, <2>4 DEF OrderInv
<1> QED
  BY <1>6, <1>8, <1>11 DEF CallInv, d, i

LEMMA ReturnInv ==
  ASSUME NEW c, CallInv(c), c.phase = "after", LeftAfter(c) = {}
  PROVE  LET d == [c EXCEPT !.phase = "done"] IN
         CallInv(d) /\ d.manager = c.manager /\ d.awaited = c.awaited /\ d.inside = c.inside
<1> DEFINE d == [c EXCEPT !.phase = "done"]
<1>1. /\ d \in CallRec /\ d.manager = c.manager /\ d.awaited = c.awaited /\ d.inside = c.inside
      /\ d.parent = c.parent /\ d.ds = c.ds /\ d.input = c.input /\ d.executed = c.executed
      /\ d.phase = "done" /\ d.stop = c.stop /\ d.ran = c.ran
  BY DEF CallInv, CallRec
<1> HIDE DEF d
<1>2. InputInv(d)
  BY <1>1 DEF CallInv, InputInv, OfTransaction
<1>3. LastAfter(d) = LastAfter(c) /\ Reached(d) = Reached(c) /\ LeftAfter(d) = {}
  BY <1>1 DEF LastAfter, Reached, LeftAfter
<1>4. OrderInv(d)
  BY <1>1, <1>3 DEF CallInv, OrderInv
<1> QED
  BY <1>1, <1>2, <1>4 DEF CallInv, d

-----------------------------------------------------------------------------
(* The steps of the system. *)

(* A step of operation x leaves the others and the transactions alone.     *)
LEMMA OneCall ==
  ASSUME IInv, NEW x \in DOMAIN calls, NEW d, CallInv(d),
         d.manager = calls[x].manager, d.awaited = calls[x].awaited, d.inside = calls[x].inside,
         calls[x].phase \notin Ended,
         DOMAIN calls' = DOMAIN calls, calls'[x] = d,
         \A y \in DOMAIN calls \ {x} : calls'[y] = calls[y],
         UNCHANGED txs
  PROVE  IInv'
<1>1. \A y \in DOMAIN calls : CallInv(calls[y]) /\ AwaitedInside(calls[y])
  BY DEF IInv
<1>2. ASSUME NEW y \in DOMAIN calls' PROVE (CallInv(calls[y]) /\ AwaitedInside(calls[y]))'
  <2>1. CASE y = x
    BY <1>1, <2>1 DEF AwaitedInside, IsTransacting
  <2>2. CASE y # x
    BY <1>1, <2>2 DEF AwaitedInside, IsTransacting
  <2> QED
    BY <2>1, <2>2
<1>3. txs' \in [Txs -> {"new", "open", "ended"}] /\ DOMAIN calls' \subseteq Calls
  BY DEF IInv
<1> QED
  BY <1>2, <1>3 DEF IInv

(* A new operation joins them. *)
LEMMA NewCallInv ==
  ASSUME IInv, NEW x \in Calls \ DOMAIN calls, NEW d, CallInv(d), AwaitedInside(d),
         DOMAIN calls' = DOMAIN calls \cup {x}, calls'[x] = d,
         \A y \in DOMAIN calls : calls'[y] = calls[y],
         UNCHANGED txs
  PROVE  IInv'
<1>1. \A y \in DOMAIN calls : CallInv(calls[y]) /\ AwaitedInside(calls[y])
  BY DEF IInv
<1>2. ASSUME NEW y \in DOMAIN calls' PROVE (CallInv(calls[y]) /\ AwaitedInside(calls[y]))'
  <2>1. CASE y = x
    BY <2>1 DEF AwaitedInside, IsTransacting
  <2>2. CASE y # x
    BY <1>1, <2>2 DEF AwaitedInside, IsTransacting
  <2> QED
    BY <2>1, <2>2
<1>3. txs' \in [Txs -> {"new", "open", "ended"}] /\ DOMAIN calls' \subseteq Calls
  BY DEF IInv
<1> QED
  BY <1>2, <1>3 DEF IInv

THEOREM InitialState == Init => IInv
BY DEF Init, IInv

LEMMA CallStep == ASSUME IInv, NEW x \in Calls, Call(x) PROVE IInv'
<1>1. PICK m \in Managers, ds \in Datasources, kind \in Kinds, awaited \in BOOLEAN :
        \E input \in Inputs(kind) :
          /\ x \notin DOMAIN calls
          /\ awaited => IsTransacting(m)
          /\ \E c \in Started(NewCall(m, ds, kind, input, awaited, IsTransacting(m), Null)) :
               calls' = [y \in DOMAIN calls \cup {x} |-> IF y = x THEN c ELSE calls[y]]
          /\ UNCHANGED txs
  BY DEF Call
<1>2. PICK input \in Inputs(kind) :
          /\ x \notin DOMAIN calls
          /\ awaited => IsTransacting(m)
          /\ \E c \in Started(NewCall(m, ds, kind, input, awaited, IsTransacting(m), Null)) :
               calls' = [y \in DOMAIN calls \cup {x} |-> IF y = x THEN c ELSE calls[y]]
          /\ UNCHANGED txs
  BY <1>1
<1>3. PICK d \in Started(NewCall(m, ds, kind, input, awaited, IsTransacting(m), Null)) :
        calls' = [y \in DOMAIN calls \cup {x} |-> IF y = x THEN d ELSE calls[y]]
  BY <1>2
<1>4. kind \in {"find", "insert", "update", "delete"} /\ IsTransacting(m) \in BOOLEAN
  BY OperationsAssumption DEF IsTransacting
<1>5. CallInv(d) /\ d.manager = m /\ d.awaited = awaited /\ d.inside = IsTransacting(m)
  BY <1>4, StartedInv
<1>6. AwaitedInside(d)
  BY <1>2, <1>5 DEF AwaitedInside
<1>7. /\ DOMAIN calls' = DOMAIN calls \cup {x} /\ calls'[x] = d
      /\ \A y \in DOMAIN calls : calls'[y] = calls[y]
  BY <1>2, <1>3
<1> QED
  BY <1>2, <1>5, <1>6, <1>7, NewCallInv

LEMMA BeforeStep == ASSUME IInv, NEW x \in DOMAIN calls, RunBefore(x) PROVE IInv'
<1>1. PICK a \in Before(calls[x].idx, calls[x]) : calls' = [calls EXCEPT ![x] = Answer(@, a)]
  BY DEF RunBefore
<1>2. CallInv(calls[x]) /\ calls[x].phase = "before" /\ UNCHANGED txs
  BY DEF IInv, RunBefore
<1>3. CallInv(Answer(calls[x], a)) /\ SameCall(calls[x], Answer(calls[x], a))
  BY <1>2, BeforeInv
<1> DEFINE d == Answer(calls[x], a)
<1>4. /\ DOMAIN calls' = DOMAIN calls /\ calls'[x] = d
      /\ \A y \in DOMAIN calls \ {x} : calls'[y] = calls[y]
  BY <1>1
<1> HIDE DEF d
<1>5. /\ CallInv(d) /\ d.manager = calls[x].manager /\ d.awaited = calls[x].awaited
      /\ d.inside = calls[x].inside
  BY <1>3 DEF SameCall, d
<1> QED
  BY <1>2, <1>4, <1>5, OneCall DEF Ended

LEMMA DriverStep == ASSUME IInv, NEW x \in DOMAIN calls, RunDriver(x) PROVE IInv'
<1>1. PICK phase \in {"relations", "failed"} :
        calls' = [calls EXCEPT ![x].phase = phase, ![x].executed = calls[x].input]
  BY DEF RunDriver
<1>2. CallInv(calls[x]) /\ calls[x].phase = "driver" /\ UNCHANGED txs
  BY DEF IInv, RunDriver
<1> DEFINE d == [calls[x] EXCEPT !.phase = phase, !.executed = calls[x].input]
<1>3. /\ CallInv(d) /\ d.manager = calls[x].manager /\ d.awaited = calls[x].awaited
      /\ d.inside = calls[x].inside
  BY <1>2, DriverInv
<1>4. /\ DOMAIN calls' = DOMAIN calls /\ calls'[x] = d
      /\ \A y \in DOMAIN calls \ {x} : calls'[y] = calls[y]
  BY <1>1
<1> HIDE DEF d
<1> QED
  BY <1>2, <1>3, <1>4, OneCall DEF Ended

LEMMA NestedStep == ASSUME IInv, NEW x \in DOMAIN calls, RunNested(x) PROVE IInv'
<1>1. PICK phase \in {"after", "failed"} : calls' = [calls EXCEPT ![x].phase = phase]
  BY DEF RunNested
<1>2. CallInv(calls[x]) /\ calls[x].phase = "nested" /\ UNCHANGED txs
  BY DEF IInv, RunNested
<1> DEFINE d == [calls[x] EXCEPT !.phase = phase]
<1>3. d \in CallRec /\ SameCall(calls[x], d) /\ d.input = calls[x].input /\ d.stop = calls[x].stop
      /\ d.phase = phase
  BY <1>2 DEF CallInv, CallRec, SameCall
<1>4. /\ DOMAIN calls' = DOMAIN calls /\ calls'[x] = d
      /\ \A y \in DOMAIN calls \ {x} : calls'[y] = calls[y]
  BY <1>1
<1> HIDE DEF d
<1>5. CallInv(d)
  BY <1>2, <1>3, PhaseInv
<1>6. d.manager = calls[x].manager /\ d.awaited = calls[x].awaited /\ d.inside = calls[x].inside
  BY <1>3 DEF SameCall
<1> QED
  BY <1>2, <1>4, <1>5, <1>6, OneCall DEF Ended

LEMMA AfterStep == ASSUME IInv, NEW x \in DOMAIN calls, RunAfter(x) PROVE IInv'
<1>1. CallInv(calls[x]) /\ calls[x].phase = "after" /\ UNCHANGED txs
  BY DEF IInv, RunAfter
<1>2. CASE LeftAfter(calls[x]) = {}
  <2> DEFINE d == [calls[x] EXCEPT !.phase = "done"]
  <2>1. /\ CallInv(d) /\ d.manager = calls[x].manager /\ d.awaited = calls[x].awaited
        /\ d.inside = calls[x].inside
    BY <1>1, <1>2, ReturnInv
  <2>2. calls' = [calls EXCEPT ![x].phase = "done"]
    BY <1>2 DEF RunAfter
  <2>3. /\ DOMAIN calls' = DOMAIN calls /\ calls'[x] = d
        /\ \A y \in DOMAIN calls \ {x} : calls'[y] = calls[y]
    BY <2>2
  <2> HIDE DEF d
  <2> QED
    BY <1>1, <2>1, <2>3, OneCall DEF Ended
<1>3. CASE LeftAfter(calls[x]) # {}
  <2> DEFINE left == LeftAfter(calls[x])
             i == CHOOSE j \in left : \A k \in left : k <= j
  <2>1. PICK next \in {"after", "done", "failed"} :
          calls' = [calls EXCEPT ![x].ran = Append(@, i), ![x].phase = next,
                                 ![x].cut = (next = "done")]
    BY <1>3 DEF RunAfter
  <2> DEFINE d == [calls[x] EXCEPT !.ran = Append(@, i), !.phase = next, !.cut = (next = "done")]
  <2>2. /\ CallInv(d) /\ d.manager = calls[x].manager /\ d.awaited = calls[x].awaited
        /\ d.inside = calls[x].inside
    BY <1>1, <1>3, AfterInv
  <2> HIDE DEF i
  <2>3. /\ DOMAIN calls' = DOMAIN calls /\ calls'[x] = d
        /\ \A y \in DOMAIN calls \ {x} : calls'[y] = calls[y]
    BY <2>1
  <2> HIDE DEF d
  <2> QED
    BY <1>1, <2>2, <2>3, OneCall DEF Ended
<1> QED
  BY <1>2, <1>3

(* A nested find runs on the manager of the operation it belongs to, whose *)
(* transaction is open if somebody waits for that operation.               *)
LEMMA RelationsStep == ASSUME IInv, NEW x \in DOMAIN calls, RunRelations(x) PROVE IInv'
<1> DEFINE c == calls[x]
<1>1. /\ CallInv(c) /\ AwaitedInside(c) /\ c.phase = "relations" /\ UNCHANGED txs
      /\ c \in CallRec /\ x \in Calls
  BY DEF IInv, RunRelations, CallInv
<1>2. CASE calls' = [calls EXCEPT ![x].phase = "after"]
  <2> DEFINE d == [c EXCEPT !.phase = "after"]
  <2>1. d \in CallRec /\ SameCall(c, d) /\ d.input = c.input /\ d.stop = c.stop /\ d.phase = "after"
    BY <1>1 DEF CallRec, SameCall
  <2>2. /\ DOMAIN calls' = DOMAIN calls /\ calls'[x] = d
        /\ \A y \in DOMAIN calls \ {x} : calls'[y] = calls[y]
    BY <1>2
  <2> HIDE DEF d
  <2>3. CallInv(d)
    BY <1>1, <2>1, PhaseInv
  <2> QED
    BY <1>1, <2>1, <2>2, <2>3, OneCall DEF Ended, SameCall
<1>3. ASSUME NEW y \in Calls \ DOMAIN calls, NEW ds \in Datasources, NEW input \in Inputs("find"),
             NEW d \in Started(NewCall(c.manager, ds, "find", input, c.awaited, c.inside, x)),
             calls' = [z \in DOMAIN calls \cup {y} |->
                         CASE z = y -> d
                           [] z = x -> [c EXCEPT !.phase = "nested", !.nested = y]
                           [] OTHER -> calls[z]]
      PROVE  IInv'
  <2> DEFINE e == [c EXCEPT !.phase = "nested", !.nested = y]
  <2>1. c.manager \in Managers /\ c.awaited \in BOOLEAN /\ c.inside \in BOOLEAN /\ x # Null
    BY <1>1, OperationsAssumption DEF CallRec
  <2>2. c.awaited => c.inside /\ IsTransacting(c.manager)
    BY <1>1 DEF AwaitedInside, Ended
  <2>3. CallInv(d) /\ d.manager = c.manager /\ d.awaited = c.awaited /\ d.inside = c.inside
    <3> HIDE DEF c
    <3> QED
      BY <1>1, <2>1, <2>2, StartedInv
  <2>4. e \in CallRec /\ SameCall(c, e) /\ e.input = c.input /\ e.stop = c.stop /\ e.phase = "nested"
    BY <1>1 DEF CallRec, SameCall
  <2>5. /\ DOMAIN calls' = DOMAIN calls \cup {y} /\ calls'[y] = d /\ calls'[x] = e
        /\ \A z \in DOMAIN calls \ {x} : calls'[z] = calls[z]
    BY <1>3
  <2> HIDE DEF e
  <2>6. CallInv(e)
    BY <1>1, <2>4, PhaseInv
  <2>7. ASSUME NEW z \in DOMAIN calls' PROVE (CallInv(calls[z]) /\ AwaitedInside(calls[z]))'
    <3>1. CASE z = y
      BY <1>1, <2>2, <2>3, <2>5, <3>1 DEF AwaitedInside, IsTransacting
    <3>2. CASE z = x
      BY <1>1, <2>2, <2>4, <2>5, <2>6, <3>2 DEF AwaitedInside, IsTransacting, SameCall
    <3>3. CASE z # y /\ z # x
      BY <1>1, <2>5, <3>3 DEF IInv, AwaitedInside, IsTransacting
    <3> QED
      BY <3>1, <3>2, <3>3
  <2> QED
    BY <1>1, <2>5, <2>7 DEF IInv
<1> QED
  BY <1>1, <1>2, <1>3 DEF RunRelations

(* Nobody who still awaits an operation is left when a transaction ends.   *)
LEMMA TransactionStep == ASSUME IInv, NEW t \in Txs, Begin(t) \/ End(t) PROVE IInv'
<1>1. txs' \in [Txs -> {"new", "open", "ended"}] /\ UNCHANGED calls
  BY DEF IInv, Begin, End
<1>2. ASSUME NEW x \in DOMAIN calls, AwaitedInside(calls[x]) PROVE AwaitedInside(calls[x])'
  <2>1. CASE Begin(t)
    BY <1>1, <1>2, <2>1 DEF Begin, AwaitedInside, IsTransacting, IInv
  <2>2. CASE End(t)
    BY <1>1, <1>2, <2>2 DEF End, AwaitedInside, IsTransacting, IInv, Ended
  <2> QED
    BY <2>1, <2>2
<1>3. ASSUME NEW x \in DOMAIN calls PROVE (CallInv(calls[x]) /\ AwaitedInside(calls[x]))'
  BY <1>1, <1>2 DEF IInv
<1> QED
  BY <1>1, <1>3 DEF IInv

(* What is known of every operation in every reachable state.              *)
THEOREM OperationInvariant == Spec => []IInv
<1>1. IInv /\ [Next]_vars => IInv'
  <2> SUFFICES ASSUME IInv, [Next]_vars PROVE IInv'
    OBVIOUS
  <2>1. CASE UNCHANGED vars
    <3>1. calls' = calls /\ txs' = txs
      BY <2>1 DEF vars
    <3>2. ASSUME NEW x \in DOMAIN calls PROVE (CallInv(calls[x]) /\ AwaitedInside(calls[x]))'
      BY <3>1 DEF IInv, AwaitedInside, IsTransacting
    <3> QED
      BY <3>1, <3>2 DEF IInv
  <2>2. CASE \E x \in Calls : Call(x)
    BY <2>2, CallStep
  <2>3. ASSUME NEW x \in DOMAIN calls,
               RunBefore(x) \/ RunDriver(x) \/ RunRelations(x) \/ RunNested(x) \/ RunAfter(x)
        PROVE  IInv'
    BY <2>3, BeforeStep, DriverStep, RelationsStep, NestedStep, AfterStep
  <2>4. CASE \E t \in Txs : Begin(t) \/ End(t)
    BY <2>4, TransactionStep
  <2> QED
    BY <2>1, <2>2, <2>3, <2>4 DEF Next
<1> QED
  BY <1>1, InitialState, PTL DEF Spec

-----------------------------------------------------------------------------
(* The properties. *)

(* The after functions mirror the before functions, for every number of    *)
(* middlewares and every choice of hooks.                                  *)
THEOREM AfterAlwaysMirrors == Spec => []AfterMirrorsBefore
<1>1. IInv => AfterMirrorsBefore
  <2> SUFFICES ASSUME IInv, NEW x \in DOMAIN calls
               PROVE  LET c == calls[x]
                          reached == {i \in 0..(IF c.stop = Null THEN Check ELSE c.stop) : HasAfter(i)}
                          ran == {c.ran[k] : k \in DOMAIN c.ran}
                      IN /\ ran \subseteq reached
                         /\ \A k, m \in DOMAIN c.ran : k < m => c.ran[k] > c.ran[m]
                         /\ c.phase = "done" /\ ~c.cut => ran = reached
    BY DEF AfterMirrorsBefore
  <2> DEFINE c == calls[x]
             reached == {i \in 0..(IF c.stop = Null THEN Check ELSE c.stop) : HasAfter(i)}
  <2>1. CallInv(c)
    BY DEF IInv
  <2> HIDE DEF c
  <2>2. reached = Reached(c)
    BY <2>1 DEF CallInv, OrderInv, Reached, LastAfter
  <2> HIDE DEF reached
  <2> QED
    BY <2>1, <2>2 DEF CallInv, OrderInv, c, reached
<1> QED
  BY <1>1, OperationInvariant, PTL

(* No incomplete record reaches a driver.                                  *)
THEOREM InsertsAlwaysComplete == Spec => []InsertsComplete
<1>1. IInv => InsertsComplete
  BY DEF IInv, InsertsComplete, CallInv, InputInv, Complete
<1> QED
  BY <1>1, OperationInvariant, PTL

(* What is called inside a transaction runs in it, however late.           *)
THEOREM AlwaysInsideTransaction == Spec => []InsideTransaction
<1>1. IInv => InsideTransaction
  BY DEF IInv, InsideTransaction, CallInv, InputInv, OfTransaction
<1> QED
  BY <1>1, OperationInvariant, PTL

(* No operation runs in a transaction it was not called in.                *)
THEOREM SessionsIsolated == Spec => []SessionIsolation
<1>1. IInv => SessionIsolation
  BY DEF IInv, SessionIsolation, CallInv, InputInv, OfTransaction
<1> QED
  BY <1>1, OperationInvariant, PTL
=============================================================================
