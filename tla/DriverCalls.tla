---------------------------- MODULE DriverCalls -----------------------------
(***************************************************************************)
(* Calls of several clients to one DAO over a database, from the call to   *)
(* its answer: the middlewares audit, softDelete and defaultValue prepare  *)
(* the request, the driver sends one or two statements, the resolver of a  *)
(* creation reads the record once more, the logger is awaited.  A          *)
(* statement is one step of the database; the clients interleave between   *)
(* the steps.  Of a record there are the fields the middlewares write:     *)
(* who created it, who modified it last, and whether it is live.           *)
(***************************************************************************)
EXTENDS FiniteSets, Naturals, Sequences

CONSTANTS
  Clients,      \* users of the DAO; audit writes their name into records
  SoftClients,  \* those for whom selectMiddleware selects softDelete
  None,         \* a missing value
  Drivers,      \* subset of {"memory", "knex", "mongo"}
  Chains,       \* orders of the middlewares
  PageSize,     \* the page size of the database drivers
  Requests,     \* what clients ask for
  MaxIds,       \* bound: the number of ids generated
  MaxCalls      \* bound: the number of calls

Ids == 1..MaxIds

Rec == [creator : Clients \cup {None}, modifier : Clients \cup {None}, live : BOOLEAN \cup {None}]

Operations == {"insert", "create", "updateOne", "updateAll", "replaceOne",
               "deleteOne", "deleteAll", "findPage"}

(* ids and live are the filter, rec is the record or the replacement, or,  *)
(* where a field is not None, a change; raw says that the changes are a    *)
(* function; limit is None when there is none.                             *)
Request ==
  [op : Operations, ids : SUBSET Ids, live : SUBSET {TRUE, FALSE, None},
   rec : Rec, raw : BOOLEAN, limit : Nat \cup {None}]

ASSUME CallsAssumption ==
  /\ None \notin Clients \cup Rec \cup BOOLEAN \cup Nat
  /\ SoftClients \subseteq Clients
  /\ {PageSize, MaxIds, MaxCalls} \subseteq Nat
  /\ Drivers \subseteq {"memory", "knex", "mongo"}
  /\ Chains \subseteq Seq({"default", "audit", "soft"})
  /\ Requests \subseteq Request

VARIABLES
  driver,   \* never changes
  chain,    \* the configured middlewares, in order; never changes
  store,    \* id -> record, None when there is none
  call,     \* the current or last call of each client
  used,     \* number of ids generated so far
  calls,    \* number of calls so far
  \* auxiliary
  present,  \* ids inserted and not deleted, as a client thinks of them
  author,   \* id -> the client whose statement wrote the record last
  wild,     \* ids that a write reached past the middlewares: raw changes,
            \* replacements in memory or without the default values, and the
            \* mark with which a client brings a deleted record back
  seen      \* the ids each client's filter selected at the moments of its call

history == <<present, author, wild, seen>>
vars == <<driver, chain, store, call, used, calls, history>>

-----------------------------------------------------------------------------
(* Middlewares *)

Go(req) == [next |-> "go", req |-> req]
Instead(req) == [next |-> "instead", req |-> req]

Inserts(req) == req.op \in {"insert", "create"}
Updates(req) == req.op \in {"updateOne", "updateAll"}
Deletes(req) == req.op \in {"deleteOne", "deleteAll"}

(* Mutant: a value is computed but not passed on. *)
DefaultForgotten(c, req) == Go(req)

DefaultBefore(c, req) ==
  IF Inserts(req) /\ req.rec.live = None THEN Go([req EXCEPT !.rec.live = TRUE]) ELSE Go(req)

(* What the caller names wins over audit; a function of changes is no      *)
(* plain object, so nothing is merged into it.                             *)
Unless(value, stamp) == IF value = None THEN stamp ELSE value

AuditBefore(c, req) ==
  CASE Inserts(req) \/ req.op = "replaceOne" ->
         Go([req EXCEPT !.rec.creator = Unless(@, c)])
    [] Updates(req) /\ ~req.raw -> Go([req EXCEPT !.rec.modifier = Unless(@, c)])
    [] OTHER -> Go(req)

NoChanges == [creator |-> None, modifier |-> None, live |-> None]

(* Mutant: the middleware calls the deletion it is replacing. *)
SoftDeletesAgain(c, req) ==
  CASE c \notin SoftClients \/ Inserts(req) -> Go(req)
    [] c \in SoftClients /\ Deletes(req) -> Instead(req)
    [] OTHER -> Go([req EXCEPT !.live = @ \cap {TRUE}])

(* Mutant: reads are not filtered. *)
SoftWrites(c, req) ==
  CASE c \notin SoftClients \/ Inserts(req) \/ req.op = "findPage" -> Go(req)
    [] c \in SoftClients /\ Deletes(req) ->
         Instead([req EXCEPT !.op = IF req.op = "deleteAll" THEN "updateAll" ELSE "updateOne",
                             !.rec = [NoChanges EXCEPT !.live = FALSE]])
    [] OTHER -> Go([req EXCEPT !.live = @ \cap {TRUE}])

SoftBefore(c, req) ==
  CASE c \notin SoftClients \/ Inserts(req) -> Go(req)
    [] c \in SoftClients /\ Deletes(req) ->
         Instead([req EXCEPT !.op = IF req.op = "deleteAll" THEN "updateAll" ELSE "updateOne",
                             !.rec = [NoChanges EXCEPT !.live = FALSE]])
    [] OTHER -> Go([req EXCEPT !.live = @ \cap {TRUE}])

Hook(m, c, req) ==
  CASE m = "default" -> DefaultBefore(c, req)
    [] m = "audit" -> AuditBefore(c, req)
    [] m = "soft" -> SoftBefore(c, req)

(* executeBeforeMiddlewares *)
BeforeMiddlewares(c, req) ==
  LET run[k \in 0..Len(chain)] ==
        IF k = 0 THEN Go(req)
        ELSE IF run[k - 1].next = "go" THEN Hook(chain[k], c, run[k - 1].req)
        ELSE run[k - 1]
  IN run[Len(chain)]

-----------------------------------------------------------------------------
(* The database *)

Stored == {x \in Ids : store[x] # None}
Targets(req) == {x \in Stored \cap req.ids : store[x].live \in req.live}

Changed(rec, change) ==
  [f \in DOMAIN rec |-> IF change[f] = None THEN rec[f] ELSE change[f]]

(* What the filters of a client's middlewares and its own select, were     *)
(* records deleted for good.                                               *)
Selected(c, req) ==
  {x \in req.ids \cap (IF c \in SoftClients THEN present ELSE Stored) : store[x].live \in req.live}

Idle == [pc |-> "idle", req |-> None, id |-> None, nested |-> FALSE,
         total |-> None, records |-> {}, rec |-> None, outcome |-> None, errors |-> FALSE]

Running(c) == call[c].pc \notin {"idle", "done"}

(* The moments at which a client could have been answered.                 *)
Look ==
  seen' = [c \in Clients |->
             IF call'[c].pc \notin {"idle", "done"} /\ call'[c].req.op = "findPage"
             THEN seen[c] \cup {Selected(c, call[c].req)'} ELSE seen[c]]

Move(c, new) == call' = [call EXCEPT ![c] = new]

Reads == UNCHANGED <<store, used, present, author, wild>>

(* A statement of c writes the records of S, those of past in a way that   *)
(* the middlewares do not see.                                             *)
Writes(c, S, new, past) ==
  /\ store' = [x \in Ids |-> IF x \in S THEN new[x] ELSE store[x]]
  /\ author' = [x \in Ids |-> IF x \in S THEN c ELSE author[x]]
  /\ wild' = wild \cup past

(* Whoever sees deleted records may bring them back. *)
BroughtBack(req, S) == IF req.rec.live = TRUE THEN S \ present ELSE {}

Answer(c, outcome) == [call[c] EXCEPT !.pc = "log", !.outcome = outcome]

-----------------------------------------------------------------------------
(* A client calls the DAO. *)

Start(c) ==
  /\ ~Running(c) /\ calls < MaxCalls
  /\ \E req \in Requests :
       /\ req.raw => driver # "memory"
       /\ Inserts(req) =>
            used + Cardinality({d \in Clients : Running(d) /\ Inserts(call[d].req)}) < MaxIds
       /\ Move(c, [Idle EXCEPT !.pc = "before", !.req = req])
  /\ calls' = calls + 1
  /\ Reads
  /\ seen' = [seen EXCEPT ![c] = {}]
  /\ UNCHANGED <<driver, chain>>

(* Mutant: the update replacing a deletion goes straight to the driver. *)
NestedAtDriver == "statement"

(* Where the operation softDelete calls in place of a deletion begins. *)
NestedStart == "before"

Before(c) ==
  /\ call[c].pc = "before"
  /\ LET result == BeforeMiddlewares(c, call[c].req) IN
     IF result.next = "go"
     THEN Move(c, [call[c] EXCEPT !.pc = "statement", !.req = result.req])
     ELSE Move(c, [call[c] EXCEPT !.pc = NestedStart, !.req = result.req, !.nested = TRUE])
  /\ Reads

(* Knex has no operations on one record. *)
Unsupported(req) == driver = "knex" /\ req.op \in {"updateOne", "replaceOne", "deleteOne"}

RefuseOperation(c) ==
  /\ call[c].pc = "statement" /\ Unsupported(call[c].req)
  /\ Move(c, Answer(c, "failed"))
  /\ Reads

(* MongoDB answers with the id only, and so do some SQL databases. *)
Insert(c) ==
  LET req == call[c].req IN
  /\ call[c].pc = "statement" /\ Inserts(req)
  /\ used' = used + 1
  /\ present' = present \cup {used'}
  /\ Writes(c, {used'}, [x \in {used'} |-> req.rec], {})
  /\ \/ driver # "mongo" /\ Move(c, [Answer(c, "ok") EXCEPT !.id = used', !.rec = req.rec])
     \/ driver # "memory" /\ Move(c, [call[c] EXCEPT !.pc = "second", !.id = used'])

InsertReread(c) ==
  /\ call[c].pc = "second" /\ Inserts(call[c].req)
  /\ LET rec == store[call[c].id] IN
     Move(c, [Answer(c, IF rec = None /\ driver = "mongo" THEN "failed" ELSE "ok") EXCEPT !.rec = rec])
  /\ Reads

(* updateOne, replaceOne and deleteOne take any record the filter selects. *)
Affected(req) ==
  IF req.op \in {"updateAll", "deleteAll"} THEN {Targets(req)}
  ELSE IF Targets(req) = {} THEN {{}}
  ELSE {{x} : x \in Targets(req)}

Update(c) ==
  LET req == call[c].req IN
  /\ call[c].pc = "statement" /\ Updates(req) /\ ~Unsupported(req)
  /\ \E S \in Affected(req) :
       /\ Writes(c, S, [x \in S |-> Changed(store[x], req.rec)],
                 IF req.raw THEN S ELSE BroughtBack(req, S))
       /\ present' = IF call[c].nested THEN present \ S ELSE present
  /\ Move(c, Answer(c, "ok"))
  /\ UNCHANGED used

(* In memory any record may be hit, and what the replacement leaves out    *)
(* stays (see InMemoryReplace); a database loses the default values the    *)
(* replacement leaves out.                                                 *)
Replace(c) ==
  LET req == call[c].req
      hit == IF driver = "memory" THEN {{x} : x \in Stored} \cup {{}} ELSE Affected(req)
  IN
  /\ call[c].pc = "statement" /\ req.op = "replaceOne" /\ ~Unsupported(req)
  /\ \E S \in hit :
       Writes(c, S, [x \in S |-> IF driver = "memory" THEN Changed(store[x], req.rec) ELSE req.rec],
              IF driver = "memory" \/ req.rec.live = None THEN S ELSE BroughtBack(req, S))
  /\ Move(c, Answer(c, "ok"))
  /\ UNCHANGED <<used, present>>

Delete(c) ==
  LET req == call[c].req IN
  /\ call[c].pc = "statement" /\ Deletes(req) /\ ~Unsupported(req)
  /\ \E S \in Affected(req) :
       /\ Writes(c, S, [x \in S |-> None], {})
       /\ present' = present \ S
  /\ Move(c, Answer(c, "ok"))
  /\ UNCHANGED used

-----------------------------------------------------------------------------
(* findPage: memory reads and counts, the databases count and read. *)

Smaller(m, n) == IF m < n THEN m ELSE n

(* Without a limit the databases return a page, the memory everything.     *)
PageLength(req) ==
  LET n == Cardinality(Targets(req)) IN
  IF req.limit # None THEN Smaller(req.limit, n)
  ELSE IF driver = "memory" THEN n
  ELSE Smaller(PageSize, n)

Records(c, new) ==
  \E S \in SUBSET Targets(call[c].req) :
     /\ Cardinality(S) = PageLength(call[c].req)
     /\ Move(c, [new EXCEPT !.records = S])

Count(req) == Cardinality(Targets(req))

PageFirst(c) ==
  LET total == Count(call[c].req) IN
  /\ call[c].pc = "statement" /\ call[c].req.op = "findPage"
  /\ CASE driver = "memory" -> Records(c, [call[c] EXCEPT !.pc = "second"])
       [] driver = "knex" /\ total = 0 -> Move(c, [Answer(c, "ok") EXCEPT !.total = 0])
       [] OTHER -> Move(c, [call[c] EXCEPT !.pc = "second", !.total = total])
  /\ Reads

PageSecond(c) ==
  /\ call[c].pc = "second" /\ call[c].req.op = "findPage"
  /\ IF driver = "memory"
     THEN Move(c, [Answer(c, "ok") EXCEPT !.total = Count(call[c].req)])
     ELSE Records(c, Answer(c, "ok"))
  /\ Reads

-----------------------------------------------------------------------------
(* A statement may fail in the database, without effect. *)
Fail(c) ==
  /\ call[c].pc \in {"statement", "second", "reread"} /\ driver # "memory"
  /\ Move(c, [Answer(c, "failed") EXCEPT !.errors = TRUE])
  /\ Reads

(* The logger has been awaited, what it throws is dropped.  The resolver    *)
(* of a creation goes on, or stumbles over a record that is missing.       *)
Log(c) ==
  /\ call[c].pc = "log"
  /\ LET inserted == call[c].req.op = "create" /\ call[c].outcome = "ok" IN
     Move(c, IF ~inserted THEN [call[c] EXCEPT !.pc = "done"]
             ELSE IF call[c].rec # None THEN [call[c] EXCEPT !.pc = "reread"]
             ELSE [call[c] EXCEPT !.pc = "done", !.outcome = "failed"])
  /\ Reads

(* The resolver's findOne by id passes the middlewares.                    *)
CreateReread(c) ==
  /\ call[c].pc = "reread"
  /\ LET find == BeforeMiddlewares(c, [call[c].req EXCEPT !.op = "findPage", !.ids = {call[c].id}]).req
     IN Move(c, IF Targets(find) = {}
                THEN [call[c] EXCEPT !.pc = "done", !.outcome = "failed", !.rec = None]
                ELSE [call[c] EXCEPT !.pc = "done", !.rec = store[call[c].id]])
  /\ Reads

-----------------------------------------------------------------------------
Init ==
  /\ driver \in Drivers /\ chain \in Chains
  /\ store = [x \in Ids |-> None]
  /\ call = [c \in Clients |-> Idle]
  /\ used = 0 /\ calls = 0
  /\ present = {} /\ author = [x \in Ids |-> None] /\ wild = {}
  /\ seen = [c \in Clients |-> {}]

Step(c) ==
  /\ \/ Before(c) \/ RefuseOperation(c) \/ Log(c)
     \/ Insert(c) \/ InsertReread(c) \/ CreateReread(c)
     \/ Update(c) \/ Replace(c) \/ Delete(c)
     \/ PageFirst(c) \/ PageSecond(c)
  /\ Look /\ UNCHANGED <<driver, chain, calls>>

Next ==
  \E c \in Clients :
    \/ Start(c)
    \/ Step(c)
    \/ Fail(c) /\ Look /\ UNCHANGED <<driver, chain, calls>>

(* Statements and loggers are answered: the code waits for both without a  *)
(* timeout.                                                                *)
Spec == Init /\ [][Next]_vars /\ \A c \in Clients : WF_vars(Step(c))

-----------------------------------------------------------------------------
(* Properties *)

(* What clients and configurations have to keep to: the three middlewares  *)
(* are all configured, nobody claims to have created or modified a record  *)
(* or deletes it by setting its mark, functions of changes update.         *)
FullChains == \A ch \in Chains : {ch[i] : i \in DOMAIN ch} = {"default", "audit", "soft"}
OrdinaryRequests ==
  \A req \in Requests :
    /\ req.rec.creator = None /\ req.rec.modifier = None /\ req.rec.live # FALSE
    /\ req.raw => Updates(req)
    /\ req.op = "create" => TRUE \in req.live

Tame == Ids \ wild

Stamp(rec) == IF rec.modifier # None THEN rec.modifier ELSE rec.creator

(* audit names the client that wrote a record last, whether it inserted,   *)
(* updated, replaced or softly deleted it, alone or with many, and in      *)
(* whatever order the middlewares are configured.                          *)
AuditTrail == \A x \in Stored \cap Tame : Stamp(store[x]) = author[x]

(* An insertion that no statement failed answers with the record it has    *)
(* made, complete with the default values: that it fails, or that SQL      *)
(* answers with nothing, means that another client has deleted the record. *)
InsertAnswersOwn ==
  \A c \in Clients :
    LET k == call[c] IN
    k.pc = "done" /\ k.id \in Tame /\ ~k.errors =>
      IF k.outcome = "ok" /\ k.rec # None
      THEN k.rec.creator # None /\ (k.req.op = "create" /\ c \in SoftClients => k.rec.live = TRUE)
      ELSE k.id \notin present

(* The records of a page and its total are each what the client's filter   *)
(* selected at a moment of the call: nothing that was deleted before it    *)
(* began appears or is counted, by soft deletion either, and when nobody   *)
(* writes meanwhile the two agree.                                         *)
PagesCurrent ==
  \A c \in Clients :
    LET k == call[c] IN
    k.pc = "done" /\ k.req.op = "findPage" /\ k.outcome = "ok" /\ wild = {} =>
      /\ \E S \in seen[c] : k.total = Cardinality(S)
      /\ \E S \in seen[c] :
           /\ k.records \subseteq S
           /\ \/ Cardinality(k.records) = Cardinality(S)
              \/ k.req.limit # None /\ Cardinality(k.records) = Smaller(k.req.limit, Cardinality(S))
              \/ driver # "memory" /\ k.req.limit = None /\ Cardinality(k.records) = PageSize

(* Every call is answered, however many operations the middlewares make    *)
(* of it.                                                                  *)
CallsAnswered == \A c \in Clients : Running(c) ~> call[c].pc = "done"
=============================================================================
