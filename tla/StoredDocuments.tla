-------------------------- MODULE StoredDocuments ---------------------------
(***************************************************************************)
(* One record with embedded entities, written through each of the three    *)
(* drivers and read back: in memory and in MongoDB it is a document, in    *)
(* SQL a row with a column for every scalar field, however deep.           *)
(*                                                                         *)
(* A field is the path of names that leads to it.  An object is a function *)
(* from the paths it has: a scalar's value, Obj for an embedded object     *)
(* whose fields are then the longer paths, or NoValue, the null.  The      *)
(* database has the aliases in the place of names, and values the adapters *)
(* have converted.                                                         *)
(***************************************************************************)
EXTENDS Integers, Sequences

CONSTANTS
  Leaves, Embeddeds,     \* paths of the scalar and of the embedded fields
  Order,                 \* the scalar fields in the order of the schema
  Required,              \* the fields that are required
  Alias,                 \* the alias of a field, or its name
  Scalars,
  Records,               \* objects that are inserted or replace the record
  Updates,               \* changes that updates make: [keys, to]
  Selectable,            \* projections: [paths -> {Obj, Whole}]
  MaxWrites,             \* bound on the writes
  NoValue, Obj, Whole, Absent, Failed

VARIABLES
  memory,      \* the record in the in-memory driver
  collection,  \* the document in MongoDB
  row,         \* the row in the SQL table
  written,     \* the values of the fields as the caller has written them
  faithful,    \* the drivers that were only asked for what they do as documented
  writes

stores == <<memory, collection, row, written, faithful, writes>>

SchemaFields == Leaves \cup Embeddeds
Above(p) == {SubSeq(p, 1, i) : i \in 1..(Len(p) - 1)}
Within(k) == {p \in SchemaFields : p = k \/ k \in Above(p)}

ASSUME DocumentsAssumption ==
  /\ Leaves \cap Embeddeds = {} /\ \A p \in SchemaFields : Above(p) \subseteq Embeddeds
  /\ {Order[i] : i \in DOMAIN Order} = Leaves
  /\ Required \subseteq SchemaFields
  /\ {NoValue, Obj} \cap Scalars = {}
  /\ MaxWrites \in Nat

Restricted(f, S) == [x \in DOMAIN f \cap S |-> f[x]]

(* The weak function where the strong one has nothing. *)
Over(strong, weak) ==
  [x \in DOMAIN strong \cup DOMAIN weak |-> IF x \in DOMAIN strong THEN strong[x] ELSE weak[x]]

-----------------------------------------------------------------------------
(* Names and values on both sides *)

DbPath(p) == [i \in DOMAIN p |-> Alias[SubSeq(p, 1, i)]]
FieldAt(q) == CHOOSE p \in SchemaFields : DbPath(p) = q

(* No two fields share a column; a field is a sequence of names. *)
ASSUME PathsAssumption ==
  /\ \A p \in SchemaFields : p # <<>> /\ p \in Seq({p[i] : i \in DOMAIN p})
  /\ \A p, q \in SchemaFields : DbPath(p) = DbPath(q) => p = q

(* Adapters convert scalars; nulls and objects are not theirs. *)
ModelToDB(v) == IF v \in Scalars THEN <<v>> ELSE v
DbToModel(w) == IF \E v \in Scalars : w = <<v>> THEN w[1] ELSE IF w \in {NoValue, Obj} THEN w ELSE Failed

(* Nulls, objects and converted scalars are told apart, and an answer from a failure. *)
ASSUME ValuesAssumption ==
  /\ \A v \in Scalars : <<v>> \notin {NoValue, Obj}
  /\ NoValue # Obj
  /\ \A S \in SUBSET SchemaFields : {Absent, Failed} \cap [S -> Scalars \cup {NoValue, Obj}] = {}
  /\ Absent \notin [{DbPath(l) : l \in Leaves} -> {<<v>> : v \in Scalars} \cup {NoValue}]

(* transformObject, in both directions: what is not in the schema is left out. *)
Encode(obj) == [q \in {DbPath(p) : p \in DOMAIN obj} |-> ModelToDB(obj[FieldAt(q)])]
Decode(doc) == [p \in {x \in SchemaFields : DbPath(x) \in DOMAIN doc} |-> DbToModel(doc[DbPath(p)])]

(* What a caller finds at a field of an answer: null and missing are the same to it. *)
ValueAt(obj, l) == IF l \in DOMAIN obj THEN obj[l] ELSE NoValue

-----------------------------------------------------------------------------
(* In memory *)

(* Mutant: nulls in changes are as good as missing, as in the default of deepMerge. *)
MergeSkippingNulls(weak, strong) ==
  Over(Restricted(strong, {q \in DOMAIN strong : strong[q] # NoValue}), weak)

(* deepMerge(weak, strong, false): nulls replace what was there. *)
MergeInto(weak, strong) ==
  LET reachable == {q \in DOMAIN weak : \A r \in Above(q) \cap DOMAIN strong : strong[r] = Obj}
  IN Over(strong, Restricted(weak, reachable))

(* deepMerge(weak, strong): nulls are as good as missing. *)
MergeValues(weak, strong) ==
  MergeInto(weak, Restricted(strong, {q \in DOMAIN strong : strong[q] # NoValue \/ q \notin DOMAIN weak}))

(* setTraversing for every key: the objects on the way to it are made. *)
ChangesObject(c) == Over(c.to, [p \in UNION {Above(k) : k \in c.keys} |-> Obj])

MemoryUpdate(c) == MergeInto(memory, Encode(ChangesObject(c)))

(* The record as it was read, in names and values of the model, is merged  *)
(* with the replacement in those of the database.                          *)
MemoryReplace(r) == MergeValues(Decode(memory), Encode(r))

(* The in-memory driver returns whole records. *)
MemoryRead == Decode(memory)

-----------------------------------------------------------------------------
(* MongoDB *)

(* adaptUpdate: $set of the database's paths. *)
MongoSet(c) == [keys |-> {DbPath(k) : k \in c.keys}, to |-> Encode(c.to)]

(* MongoDB makes missing objects on the way to a key, and refuses a key inside of a null. *)
MongoRefuses(set) ==
  \E k \in set.keys : \E q \in Above(k) \cap DOMAIN collection : collection[q] # Obj

MongoUpdated(set) ==
  LET kept == {q \in DOMAIN collection : (Above(q) \cup {q}) \cap set.keys = {}}
      made == [q \in UNION {Above(k) : k \in set.keys} |-> Obj]
  IN Over(set.to, Over(made, Restricted(collection, kept)))

(* adaptProjection: the fields that are named and the embedded ones taken  *)
(* whole; one of which nothing is selected is left out.                    *)
AdaptProjection(p) == {DbPath(x) : x \in {y \in DOMAIN p : y \in Leaves \/ p[y] = Whole}}

MongoFind(names) ==
  Restricted(collection,
    {q \in DOMAIN collection : \E n \in names :
       q = n \/ n \in Above(q) \/ (q \in Above(n) /\ collection[q] = Obj)})

MongoRead(p) == Decode(MongoFind(AdaptProjection(p)))

-----------------------------------------------------------------------------
(* SQL *)

(* embeddedScalars, createTable: a column is named by the path of aliases. *)
Columns == {DbPath(l) : l \in Leaves}

(* flatEmbdeddedFields looks for fields in a nested null and fails; nulls  *)
(* at the top were filtered.  adaptUpdate fails at the entries of any null *)
(* in the place of an embedded object.                                     *)
HasNull(obj, depth) == \E p \in DOMAIN obj \cap Embeddeds : Len(p) >= depth /\ obj[p] = NoValue

Flatten(obj) == Restricted(Encode(obj), Columns)

SqlInserted(r) == Over(Flatten(r), [c \in Columns |-> NoValue])
SqlUpdated(c) == Over(Flatten(c.to), row)

(* buildSelect, embeddedColumns *)
SelectedLeaves(p) == {l \in Leaves : l \in DOMAIN p \/ \E x \in Above(l) \cap DOMAIN p : p[x] = Whole}
BuildSelect(p) == {DbPath(l) : l \in SelectedLeaves(p)}

Position(l) == CHOOSE i \in DOMAIN Order : Order[i] = l

(* unflatEmbdeddedFields: an embedded object is there if a column of it    *)
(* is, unless it is optional, at the top, and all its columns are null.    *)
(* One without a column comes out undefined as soon as a column before it  *)
(* was found in the same object; the conversion of a required one fails.   *)
Unflatten(answer) ==
  LET found == {l \in Leaves : DbPath(l) \in DOMAIN answer}
      In(e) == found \cap Within(e)
      Empty(e) == e \notin Required /\ \A l \in In(e) : answer[DbPath(l)] = NoValue
      tops == {e \in Embeddeds : Len(e) = 1 /\ In(e) # {} /\ ~Empty(e)}
      scalars == {l \in found : Len(l) = 1 \/ <<l[1]>> \in tops}
      objects == UNION {Above(l) : l \in scalars}
      undefined == {e \in Embeddeds \ objects :
                      /\ <<e[1]>> \in tops /\ Within(e) \cap Embeddeds = {e}
                      /\ \E l \in In(<<e[1]>>) : \A m \in Leaves \cap Within(e) : Position(l) < Position(m)}
  IN IF undefined \cap Required # {} THEN Failed
     ELSE Decode([q \in {DbPath(x) : x \in scalars \cup objects} |-> IF q \in Columns THEN answer[q] ELSE Obj])

SqlRead(p) == Unflatten(Restricted(row, BuildSelect(p)))

-----------------------------------------------------------------------------
(* What callers may write: the types that are generated from the schema.   *)

(* An object with fields of within: a field is inside of the objects       *)
(* around it, and each of these has its required fields.                   *)
Typed(obj, within, required) ==
  /\ DOMAIN obj \subseteq within
  /\ \A p \in DOMAIN obj :
       /\ obj[p] \in IF p \in Leaves THEN Scalars \cup {NoValue} ELSE {Obj, NoValue}
       /\ \A q \in Above(p) \cap within : q \in DOMAIN obj /\ obj[q] = Obj
  /\ \A p \in within \cap required :
       (\A q \in Above(p) \cap within : q \in DOMAIN obj /\ obj[q] = Obj) => p \in DOMAIN obj /\ obj[p] # NoValue

Touched(keys) == UNION {Within(k) : k \in keys}

(* Every key may be set to null.  No key is inside of another: MongoDB     *)
(* refuses that, and elsewhere the order of the keys would decide.         *)
IsUpdate(c) ==
  /\ c.keys \subseteq SchemaFields /\ \A k, l \in c.keys : k \notin Above(l)
  /\ c.keys \subseteq DOMAIN c.to
  /\ Typed(c.to, Touched(c.keys), Required \ c.keys)

ASSUME CallersAssumption ==
  /\ \A r \in Records : Typed(r, SchemaFields, Required)
  /\ \A c \in Updates : IsUpdate(c)

-----------------------------------------------------------------------------
(* Operations *)

Drivers == {"memory", "mongo", "sql"}

(* Every field of every object is listed, or inside of a null. *)
Lists(obj, within) ==
  \A p \in within : p \in DOMAIN obj \/ \E x \in Above(p) \cap DOMAIN obj : obj[x] = NoValue

(* Mutant: changes reach the driver as they are. *)
KeepNulls(c) == c

(* ignoreNullsWhenRequired *)
IgnoreNulls(c) ==
  LET keys == {k \in c.keys : c.to[k] # NoValue \/ k \notin Required}
  IN [keys |-> keys, to |-> Restricted(c.to, Touched(keys))]

InsertOne(r) ==
  /\ written = Absent
  /\ memory' = Encode(r)
  /\ collection' = Encode(r)
  /\ row' = IF HasNull(r, 2) THEN row ELSE SqlInserted(r)
  /\ written' = [l \in Leaves |-> ValueAt(r, l)]
  /\ faithful' = IF HasNull(r, 2) THEN Drivers \ {"sql"} ELSE Drivers

(* updateOne, updateAll *)
UpdateAll(changes) ==
  LET c == IgnoreNulls(changes)
      set == MongoSet(c)
      whole == \A k \in c.keys : Lists(c.to, Within(k))
  IN /\ written # Absent
     /\ c.keys # {}
     /\ memory' = MemoryUpdate(c)
     /\ collection' = IF MongoRefuses(set) THEN collection ELSE MongoUpdated(set)
     /\ row' = IF HasNull(c.to, 1) \/ row = Absent THEN row ELSE SqlUpdated(c)
     /\ written' = [l \in Leaves |-> IF \E k \in c.keys : l \in Within(k) THEN ValueAt(c.to, l) ELSE written[l]]
     /\ faithful' = faithful \ (  (IF whole THEN {} ELSE {"memory", "sql"})
                             \cup (IF MongoRefuses(set) THEN {"mongo"} ELSE {})
                             \cup (IF HasNull(c.to, 1) THEN {"sql"} ELSE {}))

(* The SQL driver has no replaceOne. *)
ReplaceOne(r) ==
  /\ written # Absent
  /\ memory' = MemoryReplace(r)
  /\ collection' = Encode(r)
  /\ UNCHANGED row
  /\ written' = [l \in Leaves |-> ValueAt(r, l)]
  /\ faithful' = faithful \ ({"sql"} \cup IF Lists(r, SchemaFields) /\ \A p \in DOMAIN r : r[p] # NoValue
                                          THEN {} ELSE {"memory"})

NothingStored ==
  /\ memory = Absent /\ collection = Absent /\ row = Absent
  /\ written = Absent
  /\ faithful = Drivers
  /\ writes = 0

Write ==
  /\ writes < MaxWrites
  /\ writes' = writes + 1
  /\ \/ \E r \in Records : InsertOne(r)
     \/ \E c \in Updates : UpdateAll(c)
     \/ \E r \in Records : ReplaceOne(r)

StoredSpec == NothingStored /\ [][Write]_stores
-----------------------------------------------------------------------------
(* Properties *)

(* Of a required object that an optional or another object holds, something is selected with the rest. *)
SelectsRequired(p) ==
  \A e \in Embeddeds \cap Required :
    Len(e) > 1 /\ SelectedLeaves(p) \cap Within(<<e[1]>>) # {} => SelectedLeaves(p) \cap Within(e) # {}

(* After any sequence of writes a driver returns what the caller last      *)
(* wrote to each field that a projection selects, whether it was written   *)
(* by itself, with the object around it or with the record: documents and  *)
(* columns are the same store.  The in-memory and the SQL driver merge an  *)
(* object into the stored one, so updates must list all its fields; the    *)
(* in-memory driver also merges replacements and skips nulls in them;      *)
(* MongoDB refuses to write into a null; and the SQL driver has no null    *)
(* objects and no replacements.                                            *)
StoredAsWritten ==
  written # Absent =>
    \A p \in Selectable :
      LET Returns(answer) == answer # Failed /\ \A l \in SelectedLeaves(p) : ValueAt(answer, l) = written[l]
      IN /\ "memory" \in faithful => Returns(MemoryRead)
         /\ "mongo" \in faithful => Returns(MongoRead(p))
         /\ "sql" \in faithful /\ SelectsRequired(p) => Returns(SqlRead(p))

(* A required field of the record has a value at all times, in each of the *)
(* databases, also in those that have refused a write or merged it.        *)
RequiredPresent ==
  written # Absent =>
    \A l \in {x \in Leaves \cap Required : Above(x) \subseteq Required} :
      /\ memory[DbPath(l)] # NoValue
      /\ collection[DbPath(l)] # NoValue
      /\ row # Absent => row[DbPath(l)] # NoValue
=============================================================================
