----------------------------- MODULE Operations -----------------------------
(***************************************************************************)
(* The life of an AbstractDAO operation from its call to its result: the   *)
(* before functions of the middlewares, the driver, the relations of a     *)
(* find, the after functions in reverse; and the transactions of entity    *)
(* managers, whose sessions the first middleware hands to the driver.      *)
(* Operations interleave at every await, that is between two middlewares,  *)
(* around the driver and at the nested finds of the relations.             *)
(*                                                                         *)
(* Middlewares are numbered from 0, as in the code's array: five of the    *)
(* library, the user's, and the check of generated fields.                 *)
(***************************************************************************)
EXTENDS Integers, Sequences, FiniteSets

CONSTANTS
  UserCount,      \* number of middlewares of the user
  UserHooks,      \* [1..UserCount -> subset of {"before", "after"}]
  Txs,            \* the calls of transaction(); each has an entity manager
  Sessions,       \* [Txs -> [Datasources -> session or Null]]
  Outer,          \* the entity manager the transactions are started from
  Datasources,
  Calls,          \* names for the operations, nested finds included
  Kinds,          \* the operations called: find, insert, update, delete
  Null

FirstUser == 5
Check == FirstUser + UserCount
Middlewares == 0..Check
Managers == Txs \cup {Outer}

ASSUME OperationsAssumption ==
  /\ UserCount \in Nat
  /\ UserHooks \in [1..UserCount -> SUBSET {"before", "after"}]
  /\ Outer \notin Txs
  /\ Kinds \subseteq {"find", "insert", "update", "delete"}
  /\ Null \notin Calls

VARIABLES
  txs,    \* [Txs -> "new", "open" while transactionData is set, or "ended"]
  calls   \* the operations: a function from some of Calls to records

vars == <<txs, calls>>

IsTransacting(m) == m \in Txs /\ txs[m] = "open"

(* Mutant: transactionData is set on the manager all transactions share. *)
SessionOfShared(m, ds) ==
  IF \E t \in Txs : txs[t] = "open"
  THEN Sessions[CHOOSE t \in Txs : txs[t] = "open"][ds] ELSE Null

(* getMongoSession, getKenxTransaction *)
SessionOf(m, ds) == IF IsTransacting(m) THEN Sessions[m][ds] ELSE Null

(* The input of an operation as far as the library's middlewares look at   *)
(* it: an insert may lack its id and a required field a middleware has to  *)
(* provide, an update may set nothing, a find may be too deep.             *)
Inputs(kind) ==
  [session   : {Null},
   hasId     : IF kind = "insert" THEN BOOLEAN ELSE {TRUE},
   hasField  : IF kind = "insert" THEN BOOLEAN ELSE {TRUE},
   changes   : IF kind = "update" THEN BOOLEAN ELSE {TRUE},
   tooDeep   : IF kind = "find" THEN BOOLEAN ELSE {FALSE}]

-----------------------------------------------------------------------------
(* Middlewares.  A hook answers with what becomes of the operation: the    *)
(* input for the next hook, a stop, or an error.                           *)

Go(input) == [next |-> "go", input |-> input]
Stop(input) == [next |-> "stop", input |-> input]
Throw(input) == [next |-> "throw", input |-> input]

HasBefore(i) ==
  \/ i < FirstUser \/ i = Check
  \/ i \in FirstUser..(Check - 1) /\ "before" \in UserHooks[i - FirstUser + 1]

HasAfter(i) == i \in FirstUser..(Check - 1) /\ "after" \in UserHooks[i - FirstUser + 1]

(* A user's before function edits the input, to the better or to the       *)
(* worse, stops the operation, or throws, as it does when it answers for   *)
(* another operation.                                                      *)
UserBefore(i, c) ==
  {Go(c.input), Go([c.input EXCEPT !.hasField = TRUE]),
   Go([c.input EXCEPT !.hasId = (c.kind # "insert"), !.hasField = (c.kind # "insert")]),
   Stop(c.input), Throw(c.input)}

(* Mutant: the transaction injector comes second. *)
InjectorSecond == 1

(* The place of the transaction injector. *)
Injector == 0

(* Mutant: an id that was taken away is not generated again. *)
CheckFieldOnly(c) == IF c.input.hasField THEN Go(c.input) ELSE Throw(c.input)

(* Generated fields that are missing are filled in, the id among them; a   *)
(* field a middleware should have provided makes the insert fail.          *)
CheckGenerated(c) ==
  IF c.input.hasField THEN Go([c.input EXCEPT !.hasId = TRUE]) ELSE Throw(c.input)

(* Transaction injector, ignore nulls, max depth, id generator, check.     *)
LibraryBefore(i, c) ==
  CASE i = Injector -> Go([c.input EXCEPT !.session = SessionOf(c.manager, c.ds)])
    [] i = 2 /\ c.kind = "update" /\ ~c.input.changes -> Stop(c.input)
    [] i = 3 /\ c.input.tooDeep -> Throw(c.input)
    [] i = 4 -> Go([c.input EXCEPT !.hasId = TRUE])
    [] i = Check -> CheckGenerated(c)
    [] OTHER -> Go(c.input)

Before(i, c) == IF i \in FirstUser..(Check - 1) THEN UserBefore(i, c) ELSE {LibraryBefore(i, c)}

-----------------------------------------------------------------------------
(* Operations. *)

(* executeBeforeMiddlewares goes on to the next middleware that has a      *)
(* before function, or to the driver.                                      *)
Answer(c, a) ==
  CASE a.next = "throw" -> [c EXCEPT !.phase = "failed"]
    [] a.next = "stop"  -> [c EXCEPT !.input = a.input, !.phase = "relations", !.stop = c.idx]
    [] a.next = "go"    ->
         LET later == {i \in Middlewares : i > c.idx /\ HasBefore(i)} IN
         IF later = {} THEN [c EXCEPT !.input = a.input, !.phase = "driver"]
         ELSE [c EXCEPT !.input = a.input, !.idx = CHOOSE i \in later : \A j \in later : i <= j]

NewCall(m, ds, kind, input, awaited, inside, parent) ==
  [manager |-> m, ds |-> ds, kind |-> kind, input |-> input, awaited |-> awaited,
   inside |-> inside, parent |-> parent, phase |-> "before", idx |-> 0,
   stop |-> Null, executed |-> Null, nested |-> Null, ran |-> <<>>, cut |-> FALSE]

(* The first before function runs with the call itself, before any await.  *)
Started(c) == {Answer(c, a) : a \in Before(0, c)}

(* A client calls an operation: on the outer manager at any time, inside a *)
(* transaction on its manager, awaited or not, and even on the manager of  *)
(* a transaction that has ended.                                           *)
Call(x) ==
  \E m \in Managers, ds \in Datasources, kind \in Kinds, awaited \in BOOLEAN :
  \E input \in Inputs(kind) :
     /\ x \notin DOMAIN calls
     /\ m \in Txs => txs[m] # "new"
     /\ awaited => IsTransacting(m)
     /\ \E c \in Started(NewCall(m, ds, kind, input, awaited, IsTransacting(m), Null)) :
          calls' = [y \in DOMAIN calls \cup {x} |-> IF y = x THEN c ELSE calls[y]]
     /\ UNCHANGED txs

RunBefore(x) ==
  /\ calls[x].phase = "before"
  /\ \E a \in Before(calls[x].idx, calls[x]) : calls' = [calls EXCEPT ![x] = Answer(@, a)]
  /\ UNCHANGED txs

(* The driver executes the operation, or rejects it. *)
RunDriver(x) ==
  /\ calls[x].phase = "driver"
  /\ \E phase \in {"relations", "failed"} :
       calls' = [calls EXCEPT ![x].phase = phase, ![x].executed = calls[x].input]
  /\ UNCHANGED txs

(* resolveRelations: a find of a related DAO of the same manager, called   *)
(* when this one has its records, or nothing.  The bound on nested finds   *)
(* is the number of names in Calls.                                        *)
RunRelations(x) ==
  /\ calls[x].phase = "relations"
  /\ UNCHANGED txs
  /\ \/ calls' = [calls EXCEPT ![x].phase = "after"]
     \/ \E y \in Calls \ DOMAIN calls, ds \in Datasources, input \in Inputs("find") :
        LET c == calls[x] IN
        /\ c.kind = "find"
        /\ \E d \in Started(NewCall(c.manager, ds, "find", input, c.awaited, c.inside, x)) :
             calls' = [z \in DOMAIN calls \cup {y} |->
                         CASE z = y -> d
                           [] z = x -> [c EXCEPT !.phase = "nested", !.nested = y]
                           [] OTHER -> calls[z]]

RunNested(x) ==
  /\ calls[x].phase = "nested"
  /\ calls[calls[x].nested].phase \in {"done", "failed"}
  /\ calls' = [calls EXCEPT ![x].phase =
                 IF calls[calls[x].nested].phase = "done" THEN "after" ELSE "failed"]
  /\ UNCHANGED txs

(* Mutant: slice(0, middlewareIndex). *)
LastAfterShort(c) == IF c.stop \in {Null, 0} THEN Check ELSE c.stop - 1

(* middlewareIndex ? slice(0, middlewareIndex + 1) : all of them; an index *)
(* of 0 is taken for no index.                                             *)
LastAfter(c) == IF c.stop \in {Null, 0} THEN Check ELSE c.stop

LeftAfter(c) == {i \in 0..LastAfter(c) : HasAfter(i) /\ \A k \in DOMAIN c.ran : i < c.ran[k]}

RunAfter(x) ==
  LET c == calls[x]
      i == CHOOSE j \in LeftAfter(c) : \A k \in LeftAfter(c) : k <= j
  IN
  /\ c.phase = "after"
  /\ IF LeftAfter(c) = {} THEN calls' = [calls EXCEPT ![x].phase = "done"]
     ELSE \E next \in {"after", "done", "failed"} :
            calls' = [calls EXCEPT ![x].ran = Append(@, i), ![x].phase = next,
                                   ![x].cut = (next = "done")]
  /\ UNCHANGED txs

-----------------------------------------------------------------------------
(* transaction(data, f): a clone of the entity manager carries the data    *)
(* until f has returned or thrown, that is until all it awaits has ended.  *)
(* A transaction inside another starts from a clone as well.               *)

Begin(t) ==
  /\ txs[t] = "new"
  /\ txs' = [txs EXCEPT ![t] = "open"]
  /\ UNCHANGED calls

End(t) ==
  /\ txs[t] = "open"
  /\ \A x \in DOMAIN calls :
       calls[x].manager = t /\ calls[x].awaited => calls[x].phase \in {"done", "failed"}
  /\ txs' = [txs EXCEPT ![t] = "ended"]
  /\ UNCHANGED calls

Init ==
  /\ txs = [t \in Txs |-> "new"]
  /\ calls = [x \in {} |-> Null]

Next ==
  \/ \E x \in Calls : Call(x)
  \/ \E x \in DOMAIN calls : RunBefore(x) \/ RunDriver(x) \/ RunRelations(x)
                             \/ RunNested(x) \/ RunAfter(x)
  \/ \E t \in Txs : Begin(t) \/ End(t)

Spec == Init /\ [][Next]_vars

-----------------------------------------------------------------------------
(* Correctness. *)

(* The after functions mirror the before functions: they run in reverse    *)
(* order, only for middlewares whose turn had come before the operation    *)
(* was stopped, the one that stopped it included, and for all of these     *)
(* unless one of them ends the operation.                                  *)
AfterMirrorsBefore ==
  \A x \in DOMAIN calls :
     LET c == calls[x]
         reached == {i \in 0..(IF c.stop = Null THEN Check ELSE c.stop) : HasAfter(i)}
         ran == {c.ran[k] : k \in DOMAIN c.ran}
     IN
     /\ ran \subseteq reached
     /\ \A k, m \in DOMAIN c.ran : k < m => c.ran[k] > c.ran[m]
     /\ c.phase = "done" /\ ~c.cut => ran = reached

(* A record that reaches the driver has its id and its required fields,    *)
(* whatever the user's middlewares have taken away or failed to provide.   *)
InsertsComplete ==
  \A x \in DOMAIN calls :
     calls[x].executed # Null => calls[x].executed.hasId /\ calls[x].executed.hasField

(* What is called inside a transaction reaches the driver with the session *)
(* of the transaction for its datasource: when f awaits it, with all its   *)
(* nested finds, when f does not, at least the operation itself, however   *)
(* late its middlewares let it run.                                        *)
InsideTransaction ==
  \A x \in DOMAIN calls :
     LET c == calls[x] IN
     c.executed # Null /\ c.inside /\ (c.awaited \/ c.parent = Null) =>
       c.executed.session = Sessions[c.manager][c.ds]

(* No operation is given the session of a transaction other than the one   *)
(* on whose manager it was called.                                         *)
SessionIsolation ==
  \A x \in DOMAIN calls :
     LET c == calls[x] IN
     c.executed # Null /\ c.executed.session # Null =>
       /\ c.manager \in Txs
       /\ c.executed.session = Sessions[c.manager][c.ds]
=============================================================================
