--------------------------- MODULE ComputedFields ---------------------------
(***************************************************************************)
(* A find whose result has fields that middlewares compute: the relation   *)
(* projection injector and the projection dependencies extend what the     *)
(* driver is asked for, the driver answers, relations are resolved, and    *)
(* the computed fields are filled in on the way back.  Of a record only    *)
(* the leaves it has are kept, and which of them are flawed: computed      *)
(* though a field that computing them requires was missing or flawed.      *)
(* Every record of the answer takes the same way, so there is one.         *)
(***************************************************************************)
EXTENDS ProjectionPaths

CONSTANTS
  Leaves,       \* paths of all fields that hold values, of relations too
  Nodes,        \* these, their prefixes, and fields that nobody names
  Stored,       \* leaves that are columns or fields of the database
  Id,           \* the leaf that is the id
  Relations,    \* relations: their field and the key that must be selected
  Middlewares,
  FieldsOf,     \* fieldsProjection of each middleware
  RequiredOf,   \* requiredProjection of each middleware
  Computes,     \* the computed fields; the others are dependencies only
  Chains,       \* orders the middlewares may be configured in
  Asked,        \* projections callers ask for
  Containers    \* projections to compare others with

Relation == [field : Nodes \ {<<>>}, key : Stored]

(* The leaves a projection selects. *)
Selected(p) == {l \in Leaves : Selects(p, l)}

LeavesOf(r) == {l \in Leaves : r.field \in UpTo(l)}

Outputs == [m \in Middlewares |-> Selected(FieldsOf[m])]
Requires == [m \in Middlewares |-> Selected(RequiredOf[m])]

(* Fields lie below objects, leaves at the bottom; a value is stored, of a *)
(* related record, or computed.                                            *)
ASSUME FieldsAssumption ==
  /\ \A n \in Nodes : n \in Seq({n[i] : i \in DOMAIN n}) /\ Above(n) \subseteq Nodes
  /\ Leaves \subseteq Nodes /\ Stored \subseteq Leaves /\ Id \in Stored
  /\ \A l, k \in Leaves : l \notin Above(k)
  /\ Relations \subseteq Relation
  /\ \A r \in Relations : LeavesOf(r) \cap Stored = {}
  /\ Computes \subseteq Middlewares
  /\ \A l \in Leaves :
       \/ l \in Stored
       \/ \E r \in Relations : l \in LeavesOf(r)
       \/ \E m \in Computes : l \in Outputs[m]
  /\ \A m \in Computes : Outputs[m] \cap (Stored \cup UNION {LeavesOf(r) : r \in Relations}) = {}

(* Every middleware has its place in the chain. *)
ASSUME ChainsAssumption ==
  \A c \in Chains : c \in Seq(Middlewares) /\ \A m \in Middlewares : \E i \in DOMAIN c : c[i] = m

(* A projection of the fields there are. *)
IsProjectionOfFields(p) ==
  IsProjection(p) /\ DOMAIN p \subseteq Nodes /\ \A l \in Leaves \cap DOMAIN p : p[l] # Obj

(* It names every leaf it selects. *)
LeafByLeaf(p) ==
  \A n \in DOMAIN p :
    /\ p[n] = Yes => n \in Leaves
    /\ p[n] = Obj => \E l \in Leaves \cap DOMAIN p : p[l] = Yes /\ n \in Above(l)

(* What is asked for is never false; a permission may be.                  *)
ASSUME ProjectionsAssumption ==
  /\ \A p \in Asked \cup Containers : IsProjectionOfFields(p)
  /\ \A p \in Asked \cup {FieldsOf[m] : m \in Middlewares} \cup {RequiredOf[m] : m \in Middlewares} :
       p[<<>>] # No
  /\ \A m \in Middlewares :
       /\ IsProjectionOfFields(FieldsOf[m]) /\ LeafByLeaf(FieldsOf[m])
       /\ IsProjectionOfFields(RequiredOf[m])

(* No container names all fields of an object. *)
ASSUME ContainersAssumption ==
  \A c \in Containers : \A n \in DOMAIN c :
    c[n] = Obj => \E f \in Nodes \ DOMAIN c : Above(f) = UpTo(n)

VARIABLES
  chain,       \* the configured middlewares, in order
  asked,       \* the projection of the caller; Yes if there is none
  projection,  \* the projection of the operation so far
  pc,          \* "inject", "before", "relations", "after", "done"
  at,          \* the middleware of the chain whose turn it is
  record,      \* the leaves the record has so far
  flawed       \* those computed from an incomplete record

vars == <<chain, asked, projection, pc, at, record, flawed>>

-----------------------------------------------------------------------------
(* Before the driver *)

KeysFor(p) == {r.key : r \in {q \in Relations : Mentions(p, q.field)}}

AddNeededProjectionForRelations(p) ==
  IF IsTrue(p) THEN p ELSE WithAll(p, KeysFor(p))

(* Mutant: the middleware looks at the projection of the caller. *)
TriggeredByAsked(m) == Intersected(asked, FieldsOf[m])

Triggered(m) == Intersected(projection, FieldsOf[m])

(* The first middleware of every DAO. *)
Inject ==
  /\ pc = "inject"
  /\ projection' = AddNeededProjectionForRelations(projection)
  /\ pc' = "before" /\ at' = 1
  /\ UNCHANGED <<chain, asked, record, flawed>>

Before ==
  /\ pc = "before" /\ at <= Len(chain)
  /\ projection' = IF Triggered(chain[at]) THEN Merge(projection, RequiredOf[chain[at]])
                   ELSE projection
  /\ at' = at + 1
  /\ UNCHANGED <<chain, asked, pc, record, flawed>>

(* SQL selects the columns of the projection, MongoDB adds the id, the     *)
(* store in memory ignores the projection.                                 *)
RunDriver ==
  /\ pc = "before" /\ at > Len(chain)
  /\ LET columns == IF IsEmptyProjection(projection) THEN {Id}
                    ELSE Stored \cap Selected(projection)
     IN record' \in {columns, columns \cup {Id}, Stored}
  /\ pc' = "relations"
  /\ UNCHANGED <<chain, asked, projection, at, flawed>>

(* Without the key a relation stays empty. *)
ResolveRelations ==
  /\ pc = "relations"
  /\ record' = record \cup
       IF IsTrue(projection) THEN {}
       ELSE UNION {LeavesOf(r) \cap Selected(projection) : r \in {q \in Relations : q.key \in record}}
  /\ pc' = "after" /\ at' = Len(chain)
  /\ UNCHANGED <<chain, asked, projection, flawed>>

-----------------------------------------------------------------------------
(* On the way back *)

(* deepMerge(record, compute(record)) *)
Filled(m) == record \cup Outputs[m]

Complete(m) == Requires[m] \subseteq record \ flawed

After ==
  /\ pc = "after" /\ at > 0
  /\ LET m == chain[at] IN
     IF m \in Computes /\ Triggered(m)
     THEN /\ record' = Filled(m)
          /\ flawed' = IF Complete(m) THEN flawed \ Outputs[m] ELSE flawed \cup Outputs[m]
     ELSE UNCHANGED <<record, flawed>>
  /\ at' = at - 1
  /\ UNCHANGED <<chain, asked, projection, pc>>

Return ==
  /\ pc = "after" /\ at = 0
  /\ pc' = "done"
  /\ UNCHANGED <<chain, asked, projection, at, record, flawed>>

Init ==
  /\ chain \in Chains
  /\ asked \in Asked
  /\ projection = asked
  /\ pc = "inject" /\ at = 0
  /\ record = {} /\ flawed = {}

Next == Inject \/ Before \/ RunDriver \/ ResolveRelations \/ After \/ Return

Spec == Init /\ [][Next]_vars

-----------------------------------------------------------------------------
(* Properties *)

(* The order the library leaves to its user: a middleware is listed before *)
(* those that compute what it requires, and requires no relation.          *)
Sound ==
  /\ \A i, j \in DOMAIN chain :
       Requires[chain[j]] \cap Outputs[chain[i]] # {} => j < i
  /\ \A m \in Middlewares, r \in Relations : Requires[m] \cap LeavesOf(r) = {}

(* What the caller asked for, and the keys of the relations it mentions.   *)
(* An object it excludes stays excluded, with a key that lies in it.       *)
WithKeys == Selected(asked) \cup {k \in KeysFor(asked) : ~Excludes(asked, k)}

(* The middlewares an answer needs, the least set with those that have     *)
(* fields that were asked for, or that one of the set requires.            *)
HasAllNeeded(S, leaves) ==
  \A m \in Middlewares :
    Outputs[m] \cap (leaves \cup UNION {Requires[n] : n \in S}) # {} => m \in S

Needed ==
  LET leaves == WithKeys IN
  {m \in Middlewares : \A S \in SUBSET Middlewares : HasAllNeeded(S, leaves) => m \in S}

(* A field is computed from a record that has all that it requires, chains *)
(* of computed fields and partial projections of the caller included.      *)
ComputedFromComplete == Sound => flawed = {}

(* Relations must be asked for by name, true selects no relation; nor is   *)
(* one followed when an object with its key in it is excluded, or when a   *)
(* middleware requires true.                                               *)
Followed(r) == Mentions(asked, r.field) /\ ~Excludes(asked, r.key) /\ ~IsTrue(projection)

Answered(l) == l \in record \/ \E r \in Relations : l \in LeavesOf(r) /\ ~Followed(r)

(* The caller gets what it asked for: stored, computed and related fields. *)
AnswerComplete ==
  pc = "done" /\ Sound => \A l \in Selected(asked) : Answered(l)

(* The driver is asked for what the answer needs and for nothing else, and *)
(* only needed fields are computed.                                        *)
OnlyTheNeeded ==
  Sound =>
    /\ pc = "relations" =>
         Selected(projection) = WithKeys \cup UNION {Requires[m] : m \in Needed}
    /\ record \cap UNION {Outputs[m] : m \in Computes}
         \subseteq UNION {Outputs[m] : m \in Needed}

(* The nodes of the tree of fields that a projection selects. *)
NodesOf(p) == {n \in Nodes : Selects(p, n)}

NoExclusion(p) == \A n \in DOMAIN p : p[n] # No

(* Permissions compare projections: the operators on trees are inclusion,  *)
(* union and intersection of the nodes they select, however partial the    *)
(* trees are, unless a field is excluded by an explicit false.             *)
TreesAreSets ==
  NoExclusion(projection) =>
    \A c \in Containers :
      /\ Contained(c, projection) <=> NodesOf(projection) \subseteq NodesOf(c)
      /\ NodesOf(Merge(c, projection)) = NodesOf(c) \cup NodesOf(projection)
      /\ NodesOf(Intersect(c, projection)) = NodesOf(c) \cap NodesOf(projection)
=============================================================================
