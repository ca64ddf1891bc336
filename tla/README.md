# A verification project for typetta

Typetta is a data access layer for TypeScript: from a GraphQL schema it
generates an entity manager with one DAO per entity, on top of MongoDB, SQL
(through Knex) or a store in memory. This directory holds TLA+ modules that
model its runtime, TLC configurations that check them on small instances, and
proofs for TLAPS. All paths below are relative to `src/src/` of the repository
unless they start with `docs/`.

    tlc -workers 2 -config InMemory.cfg MCInMemory     # one run
    tlapm InMemoryProofs.tla                           # proofs; also ThreeDriversProofs,
                                                       # ScopedProofs, PolicyProofs, OperationsProofs,
                                                       # DriverProofs, LoaderProofs and ComputedProofs

`PROJECT.json` lists the runs with their modules, the mutants each property is
tried against, the source lines behind every definition, and the hazards.

## Inventory

| Component | State it keeps | Operations | What makes it correct |
| --- | --- | --- | --- |
| In-memory driver (`dal/drivers/in-memory`) | per DAO name, global to the process: slots, free stack, id index | insert, update, replace, delete, reads, `mock.clearMemory` | no slot lost or shared; index reads agree with scans; it behaves as a map from ids to records |
| Data loaders and relations (`dal/dao/dao.ts` 219-517, `dal/dao/relations`) | `dataLoaders` and `dataLoaderRefs` of every DAO, promises and queues inside the loaders | find, resolve relations, load, clear | links are as fresh as the find that attaches them; operations do not disturb each other; nothing awaits itself |
| Operation pipeline (`dal/dao/dao.ts` 54-217, 519-651) | the middlewares of a DAO, per operation its input and position | before functions, driver, relations, after functions in reverse | order, interruption, what must hold of an input when it reaches the driver |
| Entity manager (`dal/entity-manager.ts`) | the transaction data of the manager or of a clone | `transaction`, the sessions for the drivers | an operation runs in the transaction it belongs to and in no other |
| Tenants and soft deletion (`dal/dao/middlewares/securityPolicy/tenant.middleware.ts`, `softdelete`) | none; they depend on stored fields | rewrite filters, changes and records, refuse, turn a delete into an update | deleted records and other tenants' records stay out of sight and out of reach; every tenant has a collection of its own |
| Computed fields and projection dependencies (`dal/dao/middlewares/computedFields`, `projection`) | none | extend the projection of a find, fill in fields of its result | fields are computed from complete records, the caller gets what it asked for |
| Other library middlewares (`dal/dao/middlewares`) | none | audit, default values, selectors | what they add is stored as configured |
| Security policies (`dal/dao/middlewares/securityPolicy`) | none; permissions come with the metadata of an operation | compare what an operation asks for with what the permissions allow in its domain, confine it to that domain | nothing is returned or written without a permission for that record; permissions never take rights away |
| Projections (`dal/dao/projections`) | none | merge, intersect, contain, convert from GraphQL | algebraic laws of a lattice of projections |
| MongoDB and Knex drivers | none of their own | translate filters, projections, records and updates, run statements, page | the same filter selects the same records as in memory; what was written is read back; each statement's answer is current |
| Filters, sorts, schemas, adapters, utilities | none | evaluate filters, merge objects, convert values | agreement between the drivers |
| Logging (`dal/dao/log`) | none | every operation awaits it | it delays and never fails an operation |
| Code generation, command line | none at run time | print and write text | not about behaviour |

How they interact: a client calls an operation of a DAO. The DAO runs the
before functions of its middlewares one after the other, each awaited; the
first of them asks the entity manager for the session of the open transaction.
Then it calls its driver, and for a find it resolves the selected relations:
for each it asks another DAO of the same entity manager, through a loader that
all finds of the same operation share or, with a limit or a filter, directly.
The loader's batch is again a find, with middlewares and relations of its own,
under the same operation id. Last come the after functions, and the find that
began the operation clears the loaders of that operation.

Everything runs in one Node.js thread, so operations interleave at awaits only.
The hard behaviours are there: loaders shared across awaits, clearing while
others wait, loads that nest into the DAO they came from, a driver that fails
in the middle, transactions that end before an operation that was not awaited.

## Modules

| Module | Models | Runs |
| --- | --- | --- |
| `Documents` | records, filters, changes, filter evaluation, deep merge | |
| `InMemoryState` | `InMemoryStateManager`: slots, free stack, id index | |
| `InMemoryDAO` | the operations of `AbstractInMemoryDAO` over that state | `in_memory` |
| `DocumentCollection` | abstract specification: a map from ids to records | `in_memory` |
| `InMemoryReplace` | `InMemoryDAO` with the last `replaceOne` remembered | `replace_hits_filter` |
| `InMemoryProofs` | theorems about `InMemoryDAO`, and that it implements `DocumentCollection` | (tlapm) |
| `DataLoaders` | finds, relations, loaders of one entity manager | `loaders`, `loaders_stale_tags` |
| `LoaderProofs` | theorems about `DataLoaders` | (tlapm) |
| `LoaderReads` | `DataLoaders` with the reads of each loader recorded | `loaders_n_plus_one` |
| `Operations` | the middleware pipeline and transactions | `operations` |
| `OperationsProofs` | theorems about `Operations` | (tlapm) |
| `DriverCalls` | calls of several clients through `audit`, `softDelete` and default values to the three drivers, statement by statement | `driver_calls` |
| `DriverProofs` | theorems about `DriverCalls` | (tlapm) |
| `ScopedCollection` | `tenantSecurityPolicy` and `softDelete` over one collection | `scoped_collection` |
| `TenantViews` | abstract specification: a collection per tenant | `scoped_collection` |
| `ScopedProofs` | theorems about `ScopedCollection` | (tlapm) |
| `SecurityPolicy` | `createSecurityPolicyMiddlewares` over the records of one entity | `security_policy` |
| `PolicyProofs` | theorems about `SecurityPolicy` | (tlapm) |
| `ProjectionPaths` | the operators of `projections.utils.ts` on projections as functions on paths | `computed_fields` |
| `Projections` | the same operators on projection trees, recursive as in the code | `computed_fields` |
| `Selections` | `infoToProjection`: GraphQL selections and fragments to projections | `computed_fields` |
| `ComputedFields` | a find, asked for by a projection, through `computedField` and `projectionDependency` | `computed_fields` |
| `QueriedFields` | the same for GraphQL queries, and the two forms of projections compared | `computed_fields` |
| `ComputedProofs` | theorems about `ComputedFields`, and about `ProjectionPaths` and the recursion of the code | (tlapm) |
| `Filters` | conditions on a field, and `filterEntity` of the in-memory driver for them | `queries` |
| `SqlFilters`, `MongoFilters` | the translations of conditions for Knex and MongoDB and what they say of a value; the builder of a WHERE clause | `queries`, `sql_or_escapes` |
| `Aggregates` | `aggregate` of the three drivers | `queries` |
| `Queries` | the three drivers walk a filter, and what it selects from each is compared | `queries`, `sql_or_escapes` |
| `Sorting` | the passes of `sort` of the in-memory driver | `queries` |
| `StoredDocuments` | a record with embedded entities written and read by the three drivers | `queries` |
| `ThreeDriversProofs` | theorems about `Queries`, `Sorting` and `StoredDocuments` | (tlapm) |
| `MC*` | the small instances of the above; `MCThreeDrivers` joins those of `Queries`, `Sorting` and `StoredDocuments` | |

### The in-memory driver

`memory`, `length`, `emptyIndexes` and `idIndex` are the fields of
`InMemoryState` in `state.memory.ts`; slots count from 0. JavaScript arrays may
have holes, so `memory` is a function on the slots ever written and `length`
is separate: that the two agree is part of `SlotsAccounted`. Driver methods
contain no await before their effect is complete, so each is one action.
`InsertOne`, `UpdateOne`, `UpdateAll`, `ReplaceOne`, `DeleteOne` and
`DeleteAll` are the methods of `dao.memory.ts` with those names, `Plan` is
`getIndexes` and `Entities` is `entities()`. `ReplaceOne` iterates what the
code iterates, which is every record. The order in which an index plan is
visited depends on the order of ids in the caller's list; the model allows any
order there and ascending slots for scans.

Abstractions: a record is an id and a value per field; a missing field and a
null one are the same `Null`, which no filter of the model tells apart (`StoredDocuments` has the two). Filters
have one operator on the id (`none`, `is`, `eq`, `in`, `ne`), equalities on
fields and an `$and` list whose members have none of their own. Ids are those
the client supplies or a generator produces: `InsertOne` takes any id in `Ids`.
Nothing in the driver keeps ids unique. `clashed` remembers that a caller has
inserted an id that was stored, or updated one, since the memory was last
empty; what depends on unique ids (`IndexExact`, `IndexedReadIsScan`, the
refinement) is stated while it is false, the rest always.

### Data loaders

A find is a *frame* with a program counter: `read` (the driver is asked),
`resolve` (between two records of a relation), `wait` (a load or a nested find
is awaited), `throw`. A root frame belongs to a client's operation, a batch
frame to a loader, a direct frame to the frame that awaits it. `loaders` merges
the `dataLoaders` maps of all DAOs: the name of a loader (`Hash`) is the DAO,
the operation id, the key and the projection, exactly what the hash of `loadAll`
is computed from; sorts, options and metadata are the same for all loads here.
`refs` is `dataLoaderRefs`. `LoadAll` is the call of `loadMany`, `Dispatch`
a batch leaving the queue with at most `pageSize` keys, `End` everything that
happens when a find returns or throws, `ClearDataLoader` the recursive clearing,
which goes on to related DAOs only from a DAO that has loaders of its own, as
the loop in the code does. The loader library is external; its cache is a
promise per key, modelled as keys that are cached, queued or in a batch.
The module documents what each of these does when a batch fails.

`history` keeps the past states of the database, so that freshness can be
said: a link is current if it was true at some moment since the operation
began. `driverPages` of a `Workload` selects between drivers that cut a read without a limit
at the page size (MongoDB, Knex) and the one that does not (in memory).

A plan stands for a projection: which relations are selected, the plan of each,
and a limit that stands for skip, limit, filter and sorts, any of which makes
`findAllWithBatching` bypass the loader.

### Operations and transactions

A call is a record with a phase (`before`, `driver`, `relations`, `nested`,
`after`, `done`, `failed`), the index of the middleware whose turn it is, the
middleware that stopped it if any, and its input as far as the built-in
middlewares look at it. Middlewares count from 0, as in the code: the five of
the library (transaction injector, relation projection injector, ignore
required null, max depth, id generator), the user's, and the check of generated
fields, which the code adds when the schema has such fields. A user's before
function may edit the input for the better or the worse, stop the operation or
throw; an after function may go on, end the operation's result there or throw.
The first middleware runs in the step of the call itself, as an async
function runs until its first await. `Begin` and `End` are the two halves of
`transaction()`: a clone of the manager carries the transaction data until the
function has returned, which it may do while operations it did not await are
still running.

### Calls over the drivers

`DriverCalls` follows a call from the client to its answer: `Before` is the
chain of before functions (`DefaultBefore`, `AuditBefore`, `SoftBefore`) in the
configured order, then come one or two statements of the driver, the logger
(`Log`) and, for the resolver of a creation, one more find (`CreateReread`). A
statement is one step, as the databases execute one; between two steps other
clients go on. The two-statement operations are those of the code: MongoDB
reads an inserted document again, SQL does if the database answers with a
number; a page is a count and a find, or in memory a find and a count. Knex
refuses the operations on one record. A statement may fail without effect.
A soft deletion makes an update that passes all middlewares again and then ends
the call (`nested`). A record has the fields that these middlewares write;
auxiliary variables hold what clients may expect: the ids they think present,
the last author of each, and what each filter selected during a call (`seen`).

Three kinds of writes go past the middlewares and are left to their callers: raw
updates, into which audit merges nothing; replacements that lose the default
values (in memory, replacements of whatever record); and updates and
replacements by which a client without soft deletion gives a deleted record its
mark back (`BroughtBack`). The records they reach are `wild` and exempt. The
last kind takes four calls, one more than the run has: it is the proof of
`PagesCurrent`, for any number of calls, that failed for it and brought it to
light.

### Tenants and soft deletion

Neither middleware keeps state, so an operation is one step: the caller's
request passes the hooks (`TenantBefore`, `SoftBefore`) in the order of
`chain`, and what is left of it reaches the driver. A hook passes the request
on (`Go`), throws (`Refuse`), or performs another operation instead
(`Instead`): softDelete's hook for deletes calls `updateOne` or `updateAll` of
the DAO, so the request it makes, with the filter as the earlier hooks left it,
passes both hooks again (`Answer`). An actor is an entity manager with its
metadata, hence its tenant, and softDelete's function answers for some actors
only. A filter is what it selects (ids, tenants, deletion marks) and what the
tenant middleware can see of it: its condition on the tenant at the top level,
if it is a plain value (`key`). The operations are those of the DAO; find, exists and count share a hook and are
`find`. The driver is the meaning all
three share: filters select records, updates set fields, replacements replace.

`TenantViews` is the abstract specification: what a tenant can see changes by
its own operations only, as a collection of its own would, and what was deleted
comes back by an insertion only.

### Queries

A filter is walked entry by entry, and the caller's next entry is chosen on the
way: a condition on a field (`AddCondition`), a logical operator, whose list is
opened (`Open`), the next member of a list (`AddMember`), and its end (`Close`).
All three drivers walk a filter in this order, as `filterEntity` and
`logicOperators`, `adaptFilter` and `buildWhereConditions` call themselves for
the members of a list; so one state holds what each has got so far. For the
in-memory driver and for MongoDB these are the rows that satisfy the last member
(`last`) and those the members before it amount to (`met`). The SQL driver adds
statements to a builder, one for all members of a list: the builder of each row
is what these statements say of it, in three truth values, and `or` is the flag
that `qb.or` leaves for the next statement. `outer` are the lists around the one
under way; when there are none, the filter is whole, and it is compared what it
selects. A filter that goes on is another filter, so every state without a list
under way is one.

`FieldHolds` is what the in-memory driver says of a condition, with its families
of operators and early returns; `AdaptedHolds` with `Regexes` what MongoDB does
of the one made for it, `ConditionHolds` and `Joined` what SQL does of Knex's
statements. Knex, SQL and MongoDB are external: their part is how statements are
joined, three truth values, and how a condition treats a missing field. Strings
are short sequences of codes, compared by prefix, suffix and occurrence; their
collation is left out, so quantities and sorts are numbers. `Aggregates` has the
largest value of the in-memory driver as what its `reduce` keeps, row by row
(`Extreme`), and the databases' reductions as what SQL and MongoDB define.

The drivers agree only for some filters. `odd` keeps what is unusual about the
filter, and the properties name what they leave out; each of it is needed: TLC
finds a disagreement without it. In SQL these are operators that the in-memory
driver ignores, an empty list (MongoDB refuses it), an empty member, and an
`$or` or `$nor` after other entries or first in a later member of `$and`;
negations, for rows with NULL; and for aggregations the three of `Askable`.

`Sorting` makes one pass of a stable sort (`Pass`) for each key of each sort
object, the last object first: `place` says where each row is. `CriteriaInOrder`
needs sort objects with one key each; with two keys the last one wins.

### Stored documents

`StoredDocuments` writes one record with embedded entities through the three
drivers at once and reads it through every projection of a list. A field is the
path of names to it; an object is a function from the paths it has, so that a
missing field, a null one and one inside of a null differ. The database side
has the aliases and converted values (`Encode` and `Decode` are
`transformObject`). In memory an update goes through `setTraversing` and
`deepMerge`; in MongoDB it is a `$set` of dotted keys, in SQL one of the columns
that `embeddedScalars` has made for every scalar field. `BuildSelect` and
`AdaptProjection` translate projections; `Unflatten` makes objects of a row
again, with the order of the schema's fields, on which its outcome depends.

`StoredAsWritten` says that each driver returns, of every field a projection
selects, what the caller last wrote, alone, with the object around it, or with
the record. It follows a driver as long as the driver was asked for what it
does (`faithful`); the conditions are the disagreements met here, and TLC finds
the property violated without any of them:

- The SQL driver crashes when it reads a row if the projection selects fields
  of an embedded entity but nothing of a required entity in it, and the fields
  selected come first (`utils.knexjs.ts:252`): `SelectsRequired`.
- It cannot insert a null in the place of a nested entity (223) nor update an
  embedded entity to null (322): both are a TypeError. It has no replacement.
- MongoDB refuses a dotted key below a stored null.
- In memory and in SQL an update of a whole embedded entity is merged into the
  stored one, MongoDB replaces it: updates have to list all fields.
- The in-memory replacement is merged into the record as it was read, in names
  and values of the model (`dao.memory.ts:171`), and skips nulls:
  replacements have to list all fields, with values.

`RequiredPresent` has no such condition: required fields keep a value in every
driver. Adapters are bijections that leave null alone, as the library's do for
the types it maps; aliases do not make two fields one column; the keys of one
update do not lie inside of each other; excluded fields (false in a projection)
and lists are left out.

### Security policies

The middleware looks at no record: it compares what an operation asks for with
what the actor's permissions allow in the security domain the operation names,
and adds the domain to the filter. `Mapped`, `Held` and `Related` are what
`createSecurityPolicyMiddlewares` and `getRelatedSecurityContext` make of the
context and the entity's domain map; `CrudPolicy` is `getCrudPolicy`, with one
operator per nesting level (`HeldFor`, `FieldCrud`); `InsertCrud` is the other
computation, for insertions; `Allowed` the checks, `InDomain` the filter. The
operations are those of the DAO, each one step; `Return` separates two
operations, so that the answer of one is not part of the state in which the
next is executed.

A projection is the set of nodes it selects in the tree of fields. `TreesAreSets`
(`ComputedFields`, and a theorem) shows that the operators are inclusion,
union and intersection of these sets, but for fields that a projection excludes
explicitly with false, which the model of policies leaves out.

Two properties have a precondition, `Separate`: the middleware looks at the
fields of a domain one by one. If an atom has two fields and the domain lists
several values of one of them, the operation passes if the atom is among the
combinations, and reaches the records of all of them. TLC shows it as soon as
the precondition is dropped. `RefusalsExtend` leaves insertions out, which use
the default permission as a fallback where the other operations add it.

### Computed fields

`ComputedFields` follows one find through the injector of relation keys, the
before functions in the order of the list, the driver, the relations and the
after functions in reverse order. A record is the set of leaves it has; a leaf
is flawed if it was computed while a required one was missing. The driver
answers with the selected columns, with the id besides, or, in memory, with
everything. `Sound` is the order users have to keep: a middleware comes before
those that compute what it requires, and requires no relation. Without it
`ComputedFromComplete` fails: the before function that would have added what is
required has already run, or the relation's key is missing.

A projection is in the code a tree of objects with true and false at the bottom.
`ComputedFields` has it as a function from its paths to `Yes`, `No` and `Obj`
(`ProjectionPaths`), where the operators need no recursion. `Projections` has
them on trees, line by line; `OperatorsAgree` says that the two are the same for
every projection of a find and every container compared with it.

A relation is answered (`Followed`) if the caller mentions it and two things do
not happen, either of which leaves it empty in the code: an object the caller
excludes with false has the relation's key in it, so the key is not added
(`utils/utils.ts:67`); or a middleware requires `true`, after which no relation
is resolved (`dao.ts:386`). `WithKeys` and `AnswerComplete` say so.

What a find asks for can also be a GraphQL query, which `InfoToProjection`
of `Selections` converts: fields with their selections, fragments inline or
spread, on the type itself, on an implementing type or, in a union, on a member.
`Wanted` is what the query selects by the meaning of GraphQL, and
`QueryAnswered` compares the answer with it. `Mergeable` excludes two kinds of
queries for which it fails: the projection of a fragment is spread over the one
before it (`projections.utils.ts:123`), so that of a field with selections in
both only the later ones are read; and under a fragment on an interface the
fields that only a nested fragment's type has end up under the outer one's key
(145), where nothing looks for them. Unions appear in the definitions, and no
query of the instance has one.

## Runs and bounds

| Run | States | Checks | Bounds |
| --- | --- | --- | --- |
| `in_memory` | 10 181 | `TypeOK`, `SlotsAccounted`, `IndexExact`, `IndexedReadIsScan`, `InsertKeepsRecords`, `ImplementsCollection` | 2 ids that callers may repeat and change, 1 field, growth threshold 2, step 1, no growth past 4 slots |
| `loaders` | 41 954 | `LinksCurrent`, `AwaitedKeysPending`, `KeysReadOnce`, `CachedAnswersReal`, `OperationsEnd` | one workload with 2 operations on users, posts, authors, posts (three levels, back to the first DAO) and a relation entity, 1 failure; one with 3 users of up to 3 friends, a page of 2 and a find with a limit; one with a batch of 3 posts and a page of 2; 1 write each |
| `operations` | 1 070 767 | `AfterMirrorsBefore`, `InsertsComplete`, `InsideTransaction`, `SessionIsolation` | 2 user middlewares, 2 transactions, 2 operations or one with a nested find |
| `driver_calls` | 242 562 | `AuditTrail`, `InsertAnswersOwn`, `PagesCurrent`, `CallsAnswered` | 2 clients, one with soft deletion, 3 calls, 2 ids, a page of 1, 3 drivers, 2 orders of the middlewares |
| `scoped_collection` | 5 898 | `AnswersInScope`, `TenantsApart`, `NothingElseHidden`, `DeletedStay`, `ImplementsViews` | 2 tenants and a system actor, 2 ids, 1 value, 7 filters, 6 changes, both orders |
| `security_policy` | 72 972 | `ReadsPermitted`, `WritesPermitted`, `GrantedSuffices`, `RefusalsExtend` | 5 contexts, 3 permissions and a default, 2 posts, 2 values, 7 domains, 4 projections |
| `computed_fields` | 57 845 | `ComputedFromComplete`, `AnswerComplete`, `OnlyTheNeeded`, `TreesAreSets`, `QueryAnswered`, `OperatorsAgree` | 4 middlewares in 12 orders, 184 projections, those of 42 queries of one or two selections with fragments among them, 2 relations, trees of depth 3 |
| `queries` | 36 760 | `MongoAsInMemory`, `SqlAsInMemory`, `CriteriaInOrder`, `AggregatesAgree`, `StoredAsWritten`, `RequiredPresent` | filters of 3 entries in lists of up to 2 members, 12 rows (3 ages, 4 names, each missing once), 15 conditions, 3 logical operators, 15 aggregations; or 3 sort objects; or 4 writes of a record with 5 scalar fields in up to 3 levels, 7 records, 18 updates, 18 projections |

The types of `DataLoaders`, `Operations` and `ComputedFields` have no run of
their own; they are proved, as are those of `ScopedCollection` and
`SecurityPolicy`.

Why the bounds suffice. The growth policy of the array has three regimes (the
first slot, doubling, a constant step); with a threshold of 2 and arrays of up
to 4 slots all three occur, and ids that are inserted more than once fill them,
with deletions that free slots in every order in between. The theorems below
remove the bounds. The loaders need two operations to disturb each other, three levels
of relations to come back to a DAO that is loading, more keys than a page, one
write and one failure; each instance is the smallest with its share of these.
The pipeline needs a middleware before, at and after the one that stops it (the
library's are before both of the user's); the transactions need each other, an
operation outside, and a nested find.

The calls need two clients, so that one writes between the statements of the
other, one of them without soft deletion, so that records really go; three calls
allow an insertion, a deletion or a change of it by the other client, and a page
or a second look at it; a page of one record is exceeded by two. A run of four
calls (1 424 138 states, without liveness) passes too but says no more than the
theorems of `DriverProofs`, which hold for any number of calls.

The tenants need one other tenant and an actor without one, records of both,
and filters that name the right tenant, the wrong one, either inside an
operator, and deleted records; the theorems remove all of these bounds.

The policies need permissions of every kind: everywhere, for one value, for a
value of each of two fields, for ignored keys only; domains with none, one and
all values of a field and with two fields; and two records, so that a filter
can tell them apart. The theorems remove these bounds. The computed fields
need one that is made of others, embedded ones, and relations with keys inside
and outside of an embedded entity; the orders are all those that put the
dependency first or third, sound ones and others.

The queries need an `$or` or `$nor` in each place of a builder: alone, after a
condition, inside another logical operator and as a later member of `$and`;
three entries reach all of these but the last, which `sql_or_escapes` reaches
with four and fewer conditions. Every family of operators occurs, with values
on both sides of each operand and missing, and in one condition with another
family. A row per combination of age and name tells all filters apart.

The stored record needs required and optional fields at the top and nested,
an alias, an optional object with a required and an optional one in it, and
four writes: an insertion, a change that leaves something behind, one that
depends on it, and a last one over both. A sort needs rows that agree on one
criterion and differ on the other, in both orders of insertion; the theorems
remove these bounds, and those of filters.

The refinement of `DocumentCollection` says that every step of the driver is a step some request of the
abstract collection allows; that it is the step of the filter at hand is
`IndexedReadIsScan`, which compares the records each filter selects.

`Operations` uses the symmetry that exchanges the two operations and the two
transactions with their sessions, `InMemory` that of the ids; no definition
distinguishes them, and neither run has a liveness property. Deadlock is
checked for the in-memory driver, the scoped collection and the security
policies. The other systems stop when all operations have ended, no call is left or the query is complete,
so their configurations say `CHECK_DEADLOCK FALSE`; that they do not stop
earlier is `OperationsEnd` and `CallsAnswered`.

### Disagreements between the code and its documentation

Each has a run that finds a violation, a property that quotes the documentation
and a finding in `PROJECT.json`.

- `replace_hits_filter`: `replaceOne` of the in-memory driver passes the
  function `filterEntity` where the filter belongs (`dao.memory.ts:169`), so it
  replaces the record in the lowest slot whatever the filter: in the run the
  only record, by a filter on another id, which selects nothing. (It also merges
  the replacement into the old record, which the documentation says is lost:
  `read-write.md:216`.)
- `loaders_stale_tags`: the loader of the rows of a relation entity has no
  operation id (`dao.ts:407`) and is never cleared; later finds see old rows.
- `loaders_n_plus_one`: records are awaited one by one (`dao.ts:426-434`), so
  their loads do not meet in a batch; the documentation promises they do.
- `sql_or_escapes`: the SQL driver joins an `$or` to what comes before with OR
  (`utils.knexjs.ts:109`), and an `$and` puts its members into one builder, so
  `{$and: [scope, {$or: [x, y]}]}` becomes `(scope OR (x OR y))`. This is the
  filter the tenant and soft delete middlewares make of a caller's `$or`;
  `ScopedCollection` assumes what the documentation says, that all members hold.

Others have no run of their own; dropping the precondition named shows each:

- `max` and `min` of the in-memory driver forget what they have seen at a
  missing value (`dao.memory.ts:118`): `AggregatesAgree`, `Askable`.
- A batch of a foreign relation that MongoDB or Knex cuts at the page size loses
  records (`dao.mongodb.ts:63`): of these `LinksCurrent` demands only that what
  there is was linked (`InFull`); references by id lose nothing.
- Selections lost under fragments: `QueryAnswered`, `Mergeable`.
- Relations lost to a middleware that requires `true`, or whose key lies in an
  excluded object: `AnswerComplete`, `Followed`.
- The failing reads and writes and the merges listed under "Stored documents":
  `StoredAsWritten`, `SelectsRequired` and `faithful`.
- `audit` does not stamp raw updates and replacements lose default values:
  `AuditTrail`, `PagesCurrent`, `wild`.
- MongoDB's aggregation sorts by the key of a group as the caller wrote it, which
  has been renamed if it has a dot (`dao.mongodb.ts:130`); not modelled.

## Fairness

Safety is checked without fairness. `OperationsEnd` is checked under
`WF_vars(Progress)`: as long as some frame can advance or some queue can be
dispatched, one of them eventually does. The code justifies this because
promise jobs run until none is left, the loader library schedules its dispatch
on the next tick, and the drivers' promises settle: an answer or a rejection
arrives for every read. Weak fairness of the whole disjunction suffices because
every frame takes a bounded number of steps and the bound on clients makes the
number of frames finite. Nothing is assumed of clients and writers, and a
rejection is a possibility, never an obligation.

`CallsAnswered` is checked under `WF_vars(Step(c))` for every client: a call
goes on as soon as its statement or its logger has answered. The code awaits
both without a timeout, so it relies on exactly this; each client's call is a
promise chain of its own, so fairness is per client. Clients need not call and
statements need not fail.

## Proofs

`InMemoryProofs` proves, for every set of ids, fields and values, every set of
filters and changes and every growth policy:

- `SlotInvariant`: `Spec => []SlotInv`, the inductive invariant;
- `TypeCorrect`, `SlotsAlwaysAccounted`, `GrowthAlwaysSucceeds`: `[]TypeOK`,
  `[]SlotsAccounted` and `[]GrowthNeverFails` (growth never computes a negative
  size; no run has it, the theorem says more);
- `IndexAlwaysExact` and `IndexedReadsAreScans`: the index is exact and index
  reads find what scans find, when callers keep ids unique;
- `InsertsKeepRecords`: no insertion overwrites a stored record.

The module also proves `CollectionImplemented`, the refinement
`ImplementsCollection` of the abstract collection, under one more assumption:
no filter has an `eq` on a null id, which the index answers and a scan would
not (`NoNullOperands`). Every action of the driver is an action of the
collection or a stutter: slots are forgotten, the records of the abstract
collection are those `LiveIds` finds, and `IndexedReadIsScan` says that the
records visited are those the filter selects. The visiting order of a
deletion by slots becomes the deletion of a set of ids.

The argument. `SlotsAccounted` is not inductive. That an insertion leaves no
hole in the array depends on the order of the free stack: after growth the new
slots lie on the stack highest first, so the next insertion takes the one just
past the end. `StackShape` says that this is always so: below, the slots
never used, `length + n - k` at position `k`; above, the slots freed by
deletions, all smaller than `length`. `SlotInv` adds that the stack is empty
only when the array is not, which is what keeps the growth positive. Each
operation on the state (insertion into a free slot, insertion with growth,
update, deletion of a sequence of slots, reset) has a lemma that it preserves
`SlotInv`; the actions reduce to these. `IndexExact` is preserved given
`SlotInv` because unique ids mean that an insertion adds a new entry and a
deletion removes the entries of exactly the deleted records.

Assumptions are those of the modules: special values are distinct
(`SpecialValues`, `NullIsNotADoc`), the growth step is positive
(`GrowthAssumption`, 512 and 1024 in the code), and callers use the sets they
are given (`CallerAssumption`).

`ScopedProofs` proves, for every set of ids, values, tenants and actors, every
set of filters and changes, and both orders of the middlewares:

- `TypeCorrect`: `[]TypeOK`;
- `TenantsStayApart`: `TenantsApart`, if raw updates are forbidden;
- `AnswersAlwaysInScope` and `DeletedAlwaysStay`;
- `NothingElseIsHidden`: an aggregation that is answered covers every visible
  record its filter selects;
- `TenantsHaveViews`: the refinement `ImplementsViews`, if raw updates are
  forbidden and every actor of a tenant has soft deletion.

The argument. `TenantHook` and `SoftHook` say what one hook leaves of a
request, `ChainOfHooks` what any order of both does, and `Confined` what the
driver is then asked to do, the nested update of a deletion included: its
filter selects nothing outside the actor's scope, and its changes and record
stay in it. `EveryStep` is what a step of the system can be, given that; each
property follows from it, so types are the only invariant needed. Nothing else
is hidden because the opposite holds of filters, too (`TenantCovers`,
`SoftCovers`): what a hook makes of one still selects all that is visible. The
last theorem maps an insertion to `Added` and every other operation to `Rewritten`.

The two conditions are needed: raw updates are opaque, so one that the policy
lets through can set any tenant, and a tenant's actor without soft deletion sees
deleted records, which are in no view.

`PolicyProofs` proves, for every policy, context, domain map, set of domains and
set of projections:

- `TypeCorrect`: `[]TypeOK`;
- `ReadsAlwaysPermitted` and `WritesAlwaysPermitted`: what is read, inserted,
  changed or removed is permitted for the record itself, if the domain is
  `Separate`;
- `GrantedAlwaysSuffices`: a permission held throughout the domain suffices;
- `RefusalsAlwaysExtend`: the check is monotone in the permissions.

The argument. `FittingAgrees` is where `Separate` is needed: an atom that fits a
domain for one value of a field agrees with every record of the domain that has
this value. `Bounded` concludes that what the check grants in a domain is at
most what the permissions that hold for any record of the domain grant: a
record has one of the listed values in each field, `And` over the values
is below the `Or` for that one, and that is over permissions that hold for the
record. `AllowedIsGranted` and `HeldThroughoutAllows` are the two directions
between the check and the permissions, `AllowedGrows` is monotonicity.

`OperationsProofs` proves, for any number of the user's middlewares with any
hooks, any operations, transactions and sessions:

- `OperationInvariant`: `Spec => []IInv`, the inductive invariant;
- `AfterAlwaysMirrors`, `InsertsAlwaysComplete`, `AlwaysInsideTransaction` and
  `SessionsIsolated`: the four properties of the run `operations`.

The argument. An operation is known by itself (`CallInv`): its types; what its
input has, given the middlewares it has passed (`InputInv`: the session is its
transaction's, and at the driver the record is complete); and which after
functions have run (`OrderInv`: a strictly descending sequence, which with those
left makes up all below the middleware that stopped it). None of the properties
is inductive without these: the order of the after functions follows from what
is left, and completeness from the last middleware. One fact ties operations to
transactions (`AwaitedInside`): while an awaited operation runs, the transaction
it was called in is open, since the function that awaits it has not returned;
the nested finds of the operation need it. The next middleware is the least
(afterwards the greatest) of a set of indices, which exists because the order of
the natural numbers is well-founded (`Least`).

`DriverProofs` proves, for any number of clients, ids and calls, each driver and
every order of the three middlewares:

- `DriverInvariant`: `Spec => []IInv`, the inductive invariant;
- `AuditNamesAuthor`: `[]AuditTrail`;
- `InsertionsAnswered`: `[]InsertAnswersOwn`;
- `PagesAlwaysCurrent`: `[]PagesCurrent`.

The argument. `DefaultHook`, `AuditHook` and `SoftHook` say what one before
function adds to a request and what it leaves alone; `Prepared` follows them
along any chain, by induction on the number of middlewares passed (the first
one that went wrong): a request that reaches the driver bears the stamp of its
client, a record has its default values, and what softDelete makes instead of a
deletion is an update, which passes the chain again. `RecordsInv` is what
statements preserve (`WritesInv`): records outside of `wild` bear the stamp of
their author, and those present are stored and live. `CallInv` is what a call
knows of the record it has inserted, and `OneMoves` that the steps of others do
not disturb it: they can only make a present record absent, which the answer is
allowed to tell. The resolver's second look finds a present record, since the
middlewares narrow its filter to the live records at most.

A page is current because tame records, those outside of `wild`, are present if
and only if they are stored and live, which `RecordsInv` includes: so what a
statement finds in the database is what the client's filter selects then
(`TargetsSelected`), and `Look` keeps it for as long as the call goes on.
`PagesInv` says of a call between its two statements that the one half it has,
the records in memory or the total from a database, is of a set seen; writes of
the others in between add to what was seen and to `wild`, and take nothing away
(`LookGrows`, `OthersPages`).

Two hypotheses are stated in these theorems, and TLC evaluates them for the
instance of the run. `FullChains`: all three middlewares are configured.
`OrdinaryRequests`: nobody names a creator or modifier in a request, which would
win over audit, nor deletes a record by writing its mark; functions of changes
update; and a creation may ask for live records.

`LoaderProofs` proves, for any DAOs, relations, projections, workloads and page
size:

- `LoaderInvariant`: `Spec => []IInv`, the inductive invariant;
- `KeysAlwaysReadOnce`: `[]KeysReadOnce`;
- `AwaitedAlwaysPending`: `[]AwaitedKeysPending`;
- `ClearingIsolated`: `ClearIsolated` (in no run: what would break it breaks
  `AwaitedKeysPending`);
- `CachedAlwaysReal` and `LinksAlwaysCurrent`: `[]CachedAnswersReal` and
  `[]LinksCurrent`, with any driver, and with finitely many keys;
- `OperationsNeverStuck`: `[]NeverStuck`, with finitely many keys: while an
  operation runs, a frame of its own can advance, or a frame of its own awaits a
  loader that can dispatch or has a batch that can advance.

The argument. A frame is a root of a running operation, a batch of a loader, or
the find that a waiting frame has called directly, and its name says which
(`Placed`). A key of a loader is cached, queued or read by one batch, and
only one of these (`KeysOk`). The keys that are pending are exactly those some
frame awaits (`AwaitsOk`): one half is `AwaitedKeysPending`, the other says that
no load goes on that nobody waits for. What a waiting frame waits for follows
from its place in its plan (`Waits`), so that a batch or a direct find that
answers answers what was asked. Each action keeps all this (`LoadAllGood`,
`EndGood` and so on), given lemmas for what it does to the frames and loaders
(`Moves`, `Loads`, `Descends`, `Batches`, `BatchEnds`, `CallEnds`, `RootEnds`).

The hard step is the end of a root, whose clearing would take a loader away from
a frame that awaits it. `Alone` shows that there is none: if other finds of the
operation were left, take one whose projection is deepest. It is a batch or a
direct find, so a frame waits for it, which belongs to the same operation and
waits for something nested in its own projection; so it is deeper, and not
the root, which no longer waits. This needs `NestedUpTo(N)`, a hypothesis of the
theorems: projections are finite trees, nested at most `N` deep. TLC evaluates
it for the instances of the runs with `N = 3`.

For freshness, `Fresh` says of everything on the way from a read to a link that
it was current at some time since the operation began (`States`): the records of
a frame (`RecsFresh`), the cached answers (`LoaderFresh`), what a waiting frame
has got so far (`GotFresh`: an answer for each key it no longer awaits, and
nothing for the others), and the links (`LinksFresh`). Loaders without an
operation may hold answers older than that, but they serve rows only, whose
finds have no relations; this is where `loaders_stale_tags` fails, and why
`LinksCurrent` is about references. Answers gathered key by key do not mix
(`OneKey`), as a record has one id and its own id is the only key others refer
to it by.

A driver may cut a read at the page size. What it leaves out can be missed by a
batch of a foreign relation, which is why `InFull` excuses those, but not by one
that asks for ids (`Whole`): a batch has no more keys than a page has records
(`BatchesOk`), ids are unique at all times (`IdsOk`, from `IdsAssumption`), so
there are no more records than keys (`FewByIds`), and a page that is not full
holds all there is.

`OperationsNeverStuck` is what of `OperationsEnd` is safety. Of the frames of a
running operation, which has one at least, its root (`AllThere`), take one whose
projection is nested least. It can go on, unless it awaits keys. It awaits none
of a frame it called directly or of a batch of its operation, which would be
nested less. So it awaits them of a loader: one with a queue can dispatch
(`QueueDispatches`), and one without is reading them, as no awaited key is
forgotten, in a batch for relation rows. Such a batch has no relations, so it
waits for nothing and can go on. A read always has an answer (`AnswersExist`).
That possible steps are taken, and that they come to an end, is liveness, which
TLC checks.

For stored documents `ThreeDriversProofs` proves, for every schema with entities embedded to any depth, all
aliases, records, updates and projections, and any sequence of writes:

- `StoredInvariant`: `StoredSpec => []IInv`, the inductive invariant;
- `AlwaysStoredAsWritten`: `[]StoredAsWritten`;
- `RequiredAlwaysPresent`: `[]RequiredPresent`.

`StoredSpec` is the part of the run's `QueryOrWrites` that writes. The argument.
A path of names and its path in the database have the same prefixes (`DbAbove`),
so that what is around a field is around it on both sides. Given that, each
operation is understood field by field: `MergedAt` says what a merge leaves of
each field, `CollectionUpdated` what `$set` does, `FlatOver` what a row becomes,
and they agree on the fields an update reaches and on those it does not. The
invariant relates each store to `written`; of the in-memory driver it knows
values only while this is faithful, since a merged replacement leaves values of
the model in the store. `Unflattened` shows that the objects a read from SQL
leaves out are those with nulls only, and that the conversion of a required one
does not fail if something of it is selected (`SelectsRequired`). A required
field is there because the objects around it are, from the outermost inwards:
the one missing at the least depth would be required by the object around it
(`GivenDownTo`); dropping the nulls of required keys keeps this
(`NullsIgnored`).

The assumptions are named in the module: paths are nonempty sequences and no two
fields have the same path in the database (`PathsAssumption`); nulls, objects
and converted values differ (`ValuesAssumption`); and records and updates have
the types that are generated from the schema, with no key inside of another
(`CallersAssumption`).

`ComputedProofs` proves, for any fields, relations, projections and middlewares,
in any number and order:

- `FieldsInvariant`: `Spec => []IInv`, the inductive invariant;
- `AlwaysComputedFromComplete`, `AlwaysAnswerComplete` and
  `AlwaysOnlyTheNeeded`: the three properties of a find, in sound orders;
- `AlwaysTreesAreSets`: operators on projections are operators on sets of nodes;
- `MergeDetermined`, `IntersectDetermined`, `ComparisonsDetermined`,
  `ReadsDetermined` and `WithAllDetermined`: the operators on paths are the only
  functions that call themselves and return as the functions of the code do, for
  projections of any depth and any names of fields, those of no schema included;
- `WithAllOneByOne`: to add several keys is to add one after the other, in any
  order.

The argument. What an operator does to a projection is described by the leaves it
selects afterwards: a merge unites them (`MergeSelected`), the keys of relations
are added unless they are excluded (`WithAllSelects`), and a middleware is
triggered if and only if one of its leaves is selected (`TriggeredByLeaf`). From
there on the proof is about sets. `RequiredAdded` is the part that needs
`Sound`: the projection grows while the before functions run, so a middleware
not triggered at its turn could be triggered afterwards, too late to add what it
requires; in a sound order what is added later is computed by middlewares whose
turn is still to come. So when the driver is asked, the middlewares
triggered are closed under requiring, and as each of them was triggered for a
reason (`AskedFor`), they are the least such set, `Needed`. On the way back the
order is reversed: behind the middleware whose turn it is, everything triggered
has been filled in (`RecordHas`), so the record has what the next one requires
and nothing becomes flawed.

The last six are about `ProjectionPaths` alone. A projection is an object, with
what it has at each key (`Of`, again a projection by `OfProjection`), or it is
true or false (`FieldsAre`), and these determine it (`SameTree`). What is named,
covered or selected at a path below a key is so in what the object has at that
key (`AtDown`), hence the operators go down key by key (`OfMerge`,
`OfIntersect`, `OfWithOwn`, `OfWithOther`) and satisfy the equations by which
the code recurs (`MergeRecurs` and the like). The equations are those of
`MergesAsCode`, `IntersectsAsCode`, `SetsAsCode`, `GetsAsCode`, `FindsAsCode` and
`ComparesAsCode`, which follow the returns of the code. No other function
satisfies them on `Objects`, which are finite as those of the code: of two
functions that do and differ, take arguments and a shortest path at which their
results differ. The path is not the root, where the equations say what the
result is, and below a key the results are those of a recursive call or no
call's, so a shorter path would do (`PathInduction`, `OneSolution`; for reads,
the path is an argument, `OneReading`). Predicates have no paths, and for them
the least deep object is taken (`ObjectInduction`). This is induction by the
least counterexample of a set, which needs no theorem with an operator
parameter.

The assumptions are named in the module: leaves lie at the bottom, and each is
stored, computed or of a relation (`FieldsAssumption`); chains list every
middleware (`ChainsAssumption`); projections are of the fields there are, and a
middleware names the fields it computes one by one, not as `true` or as a whole
embedded object (`ProjectionsAssumption`); and no container names all fields of
an object, so that an object never selects as much as true
(`ContainersAssumption`, used for `TreesAreSets` only; the model has a field for
it that nobody names).

For queries, aggregations and sorts `ThreeDriversProofs` proves, for any rows,
fields, conditions, nesting and number of entries, any questions and any sort
objects:

- `QueryInvariant`: `Spec => []QueryInv`, the inductive invariant of the walk;
- `MongoAlwaysAsInMemory` and `SqlAlwaysAsInMemory`: `[]MongoAsInMemory` and
  `[]SqlAsInMemory`;
- `AggregatesAlwaysAgree`: `[]AggregatesAgree`;
- `SortingInvariant`: `SortingSpec => []SortInv`, and `CriteriaAlwaysInOrder`:
  `[]CriteriaInOrder`.

The argument. Of a single condition whose operators all count, the databases say
what the in-memory driver says: `AdaptedIsField`, where the expression for text
or for `eq` without case is the operator itself, and `StatementIsField`, where a
missing value makes each statement False or Unknown, and nothing but `exists` or
a negation holds of it. How the statements of a nested filter fall together
cannot be seen at the end of a list; `Reads` says it of every list under way.
Under `$and` all members are one run of statements joined by AND, `True` if and
only if the row is in `met` and in `last`. Under `$or` and `$nor` each member is
a run, `done` amounts to the members before and `run` to the last one; before
its first statement nothing of it is there and `or` is pending. Each step
keeps this: `EntryReads` when a statement is added, `MemberReads` when a member
begins, `GroupReads` when a list ends and becomes one statement of the list
around it. That statement is joined by OR if it is an `$or` or `$nor`, which is
harmless only at the beginning of the builder around it (`AlternativesFirst`);
the theorem fails without this, as `sql_or_escapes` shows. `Negations` keeps
`$nor`, which turns Unknown into Unknown where the in-memory driver turns false
into true, to filters marked as such.

An aggregation is of the rows the walk has selected, of which the invariant
gives that there are such rows. In a group without missing values the record that
`reduce` keeps is one whose value no row so far exceeds (`ExtremeIs`, by the
least row for which it is not), and so the maximum or minimum of the database
(`SameInGroup`); it is never NULL, so that a HAVING is never unknown. Then the
groups that meet it are the same, and without groups there is one, unless
nothing is selected (`QuestionAnswered`). The theorem says nothing of sums: both
sides have the same one.

A pass puts each row behind the rows ahead of it (`Ahead`). What is ahead of a
row that is ahead of another one is ahead of it, too (`AheadOfAhead`), so the
places are those of an order, no two rows share one (`OwnPlaces`), and rows that
the criterion does not tell apart keep their order (`PassPlaces`). Hence the
criteria whose passes are over stay respected, after the new one
(`CriteriaSoFar`).

The assumptions are named in the modules: rows have numbers, strings or nothing
(`QueriesAssumption`); conditions have an operator at least, and operands of its
type (`ConditionsAssumption`); what is aggregated, but not just counted, are
numbers or nothing, and a condition of having has an operator and only operators
on numbers (`QuestionsAssumption`); and rows to be sorted have numbers
(`SortingAssumption`).

Only model-checked: `QueryAnswered`, which is about the recursive conversion of
queries; `OperatorsAgree`, which compares with the trees of `Projections`: that
the operators are those of the code is proved in the form of paths, and what
remains is the conversion between the forms, a RECURSIVE operator; and liveness
(`OperationsEnd`), of which `OperationsNeverStuck` proves that there is no
deadlock.

## Not modelled

- Skip, and limits but for pages and the bypass of loaders; lists, null operands
  and functions in filters; the order of strings; the order in which an
  aggregation is answered, and having on averages.
- The adapters the library brings and validation of scalars: an adapter is a
  bijection between values of the model and of the database. How adapters of
  the user and of the library are merged is left out.
- Fields inside embedded documents, in the models of the in-memory driver's
  slots and of the loaders: filters, changes and relations there address
  top-level fields. `ComputedFields` has embedded fields and relations,
  `StoredDocuments` embedded fields; lists of embedded entities are in neither.
- The query languages of MongoDB and SQL beyond what filters, projections,
  updates and aggregations are translated to; commit and abort of transactions,
  which the caller performs with the database's own client.
- `getProjectionDepth` and `isFieldsContainedInProjection`; contexts of
  middlewares.
- The text of log lines, and `JSON.stringify` of parameters, which runs outside
  of the try that protects a call from its logger (`dao.ts:675`).
- Code generation and the command line: text in, text out.

## What is left

In order of importance.

1. `DriverCalls`: tenants and policies in the same pipeline.
2. `DataLoaders`: more writers.
3. `Queries`: null operands, lists and embedded fields; the order of
   aggregations; `StoredDocuments` with lists of embedded entities.
4. The depth of a projection and the merging of adapters.

`Projections` and `Selections` declare RECURSIVE operators, so what
`QueriedFields` states stays with TLC.
