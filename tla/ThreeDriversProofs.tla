-------------------------- MODULE ThreeDriversProofs --------------------------
(***************************************************************************)
(* Proofs about what the three drivers have in common: the filters of      *)
(* queries, for all rows, conditions and nestings of logical operators;    *)
(* aggregations of what they select, for all groupings and having; sorts,  *)
(* for all rows and numbers of criteria; and stored documents, for every   *)
(* schema with embedded entities of any depth, all aliases, records and    *)
(* updates.                                                                *)
(***************************************************************************)
EXTENDS Queries, Sorting, StoredDocuments, FiniteSetTheorems, SequenceTheorems, TLAPS, WellFoundedInduction

(* A nonempty set of natural numbers has a least element. *)
LEMMA Least ==
  ASSUME NEW S, S \subseteq Nat, S # {}
  PROVE  \E x \in S : \A y \in S : x <= y
<1> DEFINE Below == {p \in Nat \X Nat : p[1] < p[2]}
<1>1. IsWellFoundedOn(Below, Nat)
  BY NatLessThanWellFounded DEF OpToRel
<1>2. PICK x \in S : \A y \in S : <<y, x>> \notin Below
  <2> HIDE DEF Below
  <2> QED
    BY <1>1, WFMin
<1>3. \A y \in S : ~(y < x)
  BY <1>2
<1> QED
  BY <1>3

-----------------------------------------------------------------------------
(* Conditions *)

IsValue(v) == v = Missing \/ IsNumber(v) \/ IsString(v)

(* A condition all of whose operators count holds if all of them do. *)
LEMMA AllCount ==
  ASSUME NEW k \in DOMAIN Conditions, NEW c \in Conditions[k], NEW v, AllLookedAt(c)
  PROVE  FieldHolds(v, c) <=> \A op \in Operators(c) : OperatorHolds(v, c, op)
<1>1. Operators(c) # {}
  BY ConditionsAssumption
<1>2. Given(c) = Operators(c) /\ Family(c) \cap Given(c) = Operators(c)
  BY DEF AllLookedAt, Given
<1> QED
  BY <1>1, <1>2 DEF FieldHolds

LEMMA FamilyIsOne ==
  ASSUME NEW k \in DOMAIN Conditions, NEW c \in Conditions[k], AllLookedAt(c)
  PROVE  \/ Operators(c) \subseteq {"eq", "ne", "in", "nin"}
         \/ Operators(c) \subseteq {"gte", "gt", "lte", "lt"}
         \/ Operators(c) = {"exists"}
         \/ Operators(c) = {"contains"}
         \/ Operators(c) = {"startsWith"}
         \/ Operators(c) = {"endsWith"}
         \/ Operators(c) = {"is"}
<1> DEFINE S == {i \in DOMAIN Families : Families[i] \cap Given(c) # {}}
<1>1. DOMAIN Families = 1..7
  BY DEF Families
<1>2. Operators(c) # {} /\ Operators(c) \subseteq UNION {Families[i] : i \in DOMAIN Families}
  BY ConditionsAssumption
<1>3. Given(c) = Operators(c) /\ Operators(c) \subseteq Family(c)
  BY DEF AllLookedAt, Given
<1>4. S # {} /\ S \subseteq Nat
  BY <1>1, <1>2, <1>3
<1>5. Min(S) \in S
  <2>1. PICK x \in S : \A y \in S : x <= y
    BY <1>4, Least
  <2> QED
    BY <2>1 DEF Min
<1>6. Family(c) = Families[Min(S)] /\ Min(S) \in 1..7
  BY <1>1, <1>5 DEF Family
<1>7. Operators(c) \subseteq Families[Min(S)]
  BY <1>3, <1>6
<1> HIDE DEF S
<1> QED
  BY <1>2, <1>6, <1>7 DEF Families

(* Keys of a condition other than its operators. *)
LEMMA Has ==
  ASSUME NEW c, NEW op, op # "mode"
  PROVE  op \in DOMAIN c <=> op \in Operators(c)
BY DEF Operators

LEMMA CaseFolded ==
  ASSUME NEW v, IsString(v)
  PROVE  /\ InLowerCase(String(v.val)).val = InLowerCase(v).val
         /\ InLowerCase(v) = String(InLowerCase(v).val) /\ InLowerCase(v).type = "string"
<1>1. v = String(v.val) /\ v.type = "string"
  BY DEF IsString
<1>2. InLowerCase(v) = String(InLowerCase(v).val)
  BY <1>1 DEF InLowerCase, String
<1>3. InLowerCase(v).type = "string"
  BY <1>2 DEF String
<1> QED
  BY <1>1, <1>2, <1>3

(* The one regular expression for a text operator says what the operator does. *)
LEMMA TextByRegex ==
  ASSUME NEW k \in DOMAIN Conditions, NEW c \in Conditions[k], NEW v, IsValue(v),
         NEW op \in Texts, Operators(c) = {op}
  PROVE  AdaptedHolds(v, c) <=> OperatorHolds(v, c, op)
<1> DEFINE options == IF Mode(c) = "sensitive" THEN "" ELSE "i"
           r == Regex([o \in {op} |-> c[o].val], options)
           Fold(s) == IF options = "i" THEN InLowerCase(String(s)).val ELSE s
           InCase(w) == IF IgnoresCase(c, op) THEN InLowerCase(w) ELSE w
<1>1. DOMAIN c \cap Texts = {op} /\ "eq" \notin DOMAIN c
  BY DEF Operators, Texts
<1>2. Regexes(c) = {r}
  BY <1>1 DEF Regexes
<1>3. Plain(c) = {}
  BY DEF Plain
<1>4. AdaptedHolds(v, c) <=> RegexHolds(v, r)
  BY <1>2, <1>3 DEF AdaptedHolds
<1>5. IsString(c[op])
  <2>1. OperandOf(c, op)
    BY ConditionsAssumption
  <2> QED
    BY <2>1 DEF OperandOf, Texts
<1>6. OperatorHolds(v, c, op) <=> v.type = "string" /\ TextHolds(op, InCase(v).val, InCase(c[op]).val)
  BY DEF OperatorHolds, Texts
<1>7. CASE v.type # "string"
  <2>1. ~RegexHolds(v, r)
    BY <1>7 DEF RegexHolds
  <2> QED
    BY <1>4, <1>6, <1>7, <2>1
<1>8. CASE v.type = "string"
  <2>1. IsString(v)
    BY <1>8 DEF IsValue, IsNumber, Missing
  <2>2. InCase(v).val = Fold(v.val) /\ InCase(c[op]).val = Fold(c[op].val)
    BY <2>1, <1>5, CaseFolded DEF IgnoresCase, Texts
  <2>3. r.options = options /\ r.parts = [o \in {op} |-> c[o].val]
    BY DEF Regex
  <2> DEFINE t == Fold(v.val)
             p == Fold(c[op].val)
  <2>4. DOMAIN r.parts = {op} /\ r.parts[op] = c[op].val
    BY <2>3
  <2>5. RegexHolds(v, r) <=> TextHolds(op, t, p)
    <3>1. CASE op = "contains"
      BY <1>8, <2>3, <2>4, <3>1 DEF RegexHolds, TextHolds
    <3>2. CASE op = "startsWith"
      BY <1>8, <2>3, <2>4, <3>2 DEF RegexHolds, TextHolds
    <3>3. CASE op = "endsWith"
      BY <1>8, <2>3, <2>4, <3>3 DEF RegexHolds, TextHolds
    <3> QED
      BY <3>1, <3>2, <3>3 DEF Texts
  <2> QED
    BY <1>4, <1>6, <1>8, <2>2, <2>5
<1> QED
  BY <1>7, <1>8

(* So does the one for eq without case. *)
LEMMA EqByRegex ==
  ASSUME NEW k \in DOMAIN Conditions, NEW c \in Conditions[k], NEW v, IsValue(v),
         EqIgnoresCase(c), DOMAIN c \cap Texts = {}
  PROVE  (\A r \in Regexes(c) : RegexHolds(v, r)) <=> OperatorHolds(v, c, "eq")
<1> DEFINE r == Regex([o \in {"exact"} |-> c.eq.val], "i")
           Fold(s) == InLowerCase(String(s)).val
<1>1. Regexes(c) = {r}
  BY DEF Regexes
<1>2. IsString(c.eq) /\ Mode(c) = "insensitive"
  BY ConditionsAssumption DEF EqIgnoresCase
<1>3. OperatorHolds(v, c, "eq") <=> InLowerCase(v) = InLowerCase(c.eq)
  <2>1. IgnoresCase(c, "eq")
    BY <1>2 DEF IgnoresCase
  <2> QED
    BY <2>1 DEF OperatorHolds, Texts
<1>4. r.options = "i" /\ DOMAIN r.parts = {"exact"} /\ r.parts["exact"] = c.eq.val
  BY DEF Regex
<1>5. RegexHolds(v, r) <=> v.type = "string" /\ Fold(v.val) = Fold(c.eq.val)
  BY <1>4 DEF RegexHolds
<1>6. CASE v.type # "string"
  <2>1. InLowerCase(v).type # "string"
    BY <1>6 DEF InLowerCase
  <2>2. InLowerCase(c.eq).type = "string"
    BY <1>2, CaseFolded
  <2> QED
    BY <1>1, <1>3, <1>5, <1>6, <2>1, <2>2
<1>7. CASE v.type = "string"
  <2>1. IsString(v)
    BY <1>7 DEF IsValue, IsNumber, Missing
  <2> QED
    BY <1>1, <1>2, <1>3, <1>5, <1>7, <2>1, CaseFolded
<1> QED
  BY <1>6, <1>7

(* What MongoDB says of a condition is what the in-memory driver says. *)
LEMMA AdaptedIsField ==
  ASSUME NEW k \in DOMAIN Conditions, NEW c \in Conditions[k], NEW v, IsValue(v), AllLookedAt(c)
  PROVE  AdaptedHolds(v, c) <=> FieldHolds(v, c)
<1>1. FieldHolds(v, c) <=> \A op \in Operators(c) : OperatorHolds(v, c, op)
  BY AllCount
<1>2. CASE Operators(c) \cap Texts # {}
  <2>1. PICK op \in Texts : Operators(c) = {op}
    BY <1>2, FamilyIsOne DEF Texts
  <2> QED
    BY <1>1, <2>1, TextByRegex
<1>3. CASE Operators(c) \cap Texts = {}
  <2>1. DOMAIN c \cap Texts = {}
    BY <1>3 DEF Operators, Texts
  <2>2. CASE EqIgnoresCase(c)
    <3>1. Plain(c) = Operators(c) \ {"eq"} /\ "eq" \in Operators(c)
      BY <1>3, <2>2 DEF Plain, EqIgnoresCase, Operators
    <3> QED
      BY <1>1, <2>1, <2>2, <3>1, EqByRegex DEF AdaptedHolds
  <2>3. CASE ~EqIgnoresCase(c)
    <3>1. Plain(c) = Operators(c)
      BY <1>3, <2>3 DEF Plain
    <3>2. Regexes(c) = {}
      BY <2>1, <2>3 DEF Regexes
    <3> QED
      BY <1>1, <3>1, <3>2 DEF AdaptedHolds
  <2> QED
    BY <2>2, <2>3
<1> QED
  BY <1>2, <1>3

(* Nothing but exists, ne and nin holds of a missing value. *)
LEMMA OfMissing ==
  ASSUME NEW k \in DOMAIN Conditions, NEW c \in Conditions[k],
         NEW op \in Operators(c) \ {"exists", "ne", "nin"}
  PROVE  ~OperatorHolds(Missing, c, op)
<1>1. Missing.type = "undefined" /\ InLowerCase(Missing) = Missing
  BY DEF Missing, InLowerCase
<1>2. OperandOf(c, op)
  BY ConditionsAssumption
<1>3. \A x : IsNumber(x) \/ IsString(x) => x.type # "undefined" /\ InLowerCase(x).type # "undefined"
  BY DEF IsNumber, IsString, InLowerCase, String
<1>4. op \in {"is", "eq", "in", "gte", "gt", "lte", "lt"} \cup Texts
  <2>1. op \in UNION {Families[i] : i \in 1..7}
    BY ConditionsAssumption DEF Families
  <2> QED
    BY <2>1 DEF Families, Texts
<1>5. CASE op \in {"is", "eq"}
  <2>1. c[op].type # "undefined" /\ InLowerCase(c[op]).type # "undefined"
    BY <1>2, <1>3, <1>5 DEF OperandOf, Texts
  <2> QED
    BY <1>1, <1>5, <2>1 DEF OperatorHolds, Texts
<1>6. CASE op = "in"
  <2>1. \A x \in c[op] : x.type # "undefined"
    BY <1>2, <1>3, <1>6 DEF OperandOf, Texts
  <2> QED
    BY <1>1, <1>6, <2>1 DEF OperatorHolds, Texts
<1>7. CASE op \in {"gte", "gt", "lte", "lt"}
  BY <1>1, <1>7 DEF OperatorHolds, Texts, Less
<1>8. CASE op \in Texts
  BY <1>1, <1>8 DEF OperatorHolds, Texts
<1> QED
  BY <1>4, <1>5, <1>6, <1>7, <1>8

Truths == {False, Unknown, True}

LEMMA ColumnIsOperator ==
  ASSUME NEW k \in DOMAIN Conditions, NEW c \in Conditions[k], NEW v, NEW op \in Operators(c),
         v # Missing \/ ~Negates(c)
  PROVE  /\ ColumnHolds(v, c, op) \in Truths
         /\ ColumnHolds(v, c, op) = True <=> OperatorHolds(v, c, op)
         /\ v # Missing => ColumnHolds(v, c, op) # Unknown
<1>1. \A b : /\ Truth(b) \in Truths /\ Truth(b) # Unknown
             /\ Truth(b) = True <=> b
  BY DEF Truth, Truths, True, False, Unknown
<1>2. CASE op = "exists" \/ v # Missing
  <2>1. ColumnHolds(v, c, op) = Truth(OperatorHolds(v, c, op))
    BY <1>2 DEF ColumnHolds
  <2> QED
    BY <1>1, <2>1
<1>3. CASE op # "exists" /\ v = Missing
  <2>1. op \notin {"ne", "nin"}
    BY <1>3 DEF Negates, Operators
  <2>2. ~OperatorHolds(v, c, op)
    BY <1>3, <2>1, OfMissing
  <2>3. ColumnHolds(v, c, op) \in {False, Unknown}
    BY <1>3, <2>1 DEF ColumnHolds, Truth
  <2> QED
    BY <1>3, <2>2, <2>3 DEF Truths, True, False, Unknown
<1> QED
  BY <1>2, <1>3

(* What SQL says of a condition is what the in-memory driver says, unless  *)
(* the value is missing and the condition is a negation.                   *)
LEMMA StatementIsField ==
  ASSUME NEW k \in DOMAIN Conditions, NEW c \in Conditions[k], NEW v, AllLookedAt(c),
         v # Missing \/ ~Negates(c)
  PROVE  /\ ConditionHolds(v, c) \in Truths
         /\ ConditionHolds(v, c) = True <=> FieldHolds(v, c)
         /\ v # Missing => ConditionHolds(v, c) # Unknown
<1> DEFINE holds == {ColumnHolds(v, c, op) : op \in Operators(c)}
<1>1. FieldHolds(v, c) <=> \A op \in Operators(c) : OperatorHolds(v, c, op)
  BY AllCount
<1>2. holds \subseteq Truths /\ (v # Missing => Unknown \notin holds)
  BY ColumnIsOperator
<1>3. holds \subseteq {True} <=> \A op \in Operators(c) : OperatorHolds(v, c, op)
  BY ColumnIsOperator
<1>4. ConditionHolds(v, c) = IF False \in holds THEN False ELSE IF Unknown \in holds THEN Unknown ELSE True
  BY DEF ConditionHolds
<1> HIDE DEF holds
<1> QED
  BY <1>1, <1>2, <1>3, <1>4 DEF Truths, True, False, Unknown

-----------------------------------------------------------------------------
(* The builder *)

LEMMA Joining ==
  ASSUME NEW b, NEW d \in Truths \cup {Nothing}, NEW r \in Truths \cup {Nothing},
         b = [done |-> d, run |-> r], NEW h \in Truths
  PROVE  /\ Joined(b, "or", h) = [done |-> Greater(d, r), run |-> h]
         /\ Joined(b, "and", h) = [done |-> d, run |-> IF r = Nothing THEN h ELSE Lesser(r, h)]
BY DEF Joined, Clause, Truths, True, False, Unknown, Nothing

LEMMA ThreeValued ==
  ASSUME NEW p \in Truths \cup {Nothing}, NEW q \in Truths \cup {Nothing}
  PROVE  /\ Lesser(p, q) \in {p, q} /\ Greater(p, q) \in {p, q}
         /\ Lesser(p, q) = True <=> p = True /\ q = True
         /\ Greater(p, q) = True <=> p = True \/ q = True
         /\ Greater(Nothing, q) = q /\ Greater(q, Nothing) = q
         /\ Greater(p, q) = Nothing <=> p = Nothing /\ q = Nothing
BY DEF Lesser, Greater, Truths, True, False, Unknown, Nothing

-----------------------------------------------------------------------------
(* The invariant *)

Marks ==
  {"ignored operator", "negation", "alternative after entries", "alternative in a later member",
   "empty member", "empty list"}

RowSets == [met : SUBSET RowIds, last : SUBSET RowIds]
BuilderStates == [done : Truths \cup {Nothing}, run : Truths \cup {Nothing}]
Builders == [RowIds -> BuilderStates]

FilterLists ==
  [op : Logical, members : Nat, keys : SUBSET (DOMAIN Conditions \cup Logical), memory : RowSets, mongo : RowSets,
   builder : Builders, or : BOOLEAN]

QueryTypeOK == list \in FilterLists /\ outer \in Seq(FilterLists) /\ odd \subseteq Marks /\ entries \in Nat

(* The outermost level is the filter itself, as a list of one. *)
IsFilter(l) == l.op = "$and" /\ l.members = 1 /\ l.memory.met = RowIds /\ l.mongo.met = RowIds

OneFilter == IsFilter(IF outer = <<>> THEN list ELSE outer[1])

InMember == \A i \in 1..Len(outer) : outer[i].members > 0

SameRows(l) == l.mongo = l.memory

HasStatements(l) == l.members > 1 \/ l.keys # {}

(* The builder of a list for a row, as far as it got: all members of $and  *)
(* are one run; those of $or and $nor are a run each, the last one having  *)
(* begun with its first entry.                                             *)
Reads(l, i) ==
  LET b == l.builder[i]
      met == i \in l.memory.met
      last == i \in l.memory.last
  IN  /\ l.op = "$and" =>
           /\ b.done = Nothing /\ ~l.or
           /\ HasStatements(l) => b.run \in Truths /\ (b.run = True <=> met /\ last)
           /\ ~HasStatements(l) => b.run = Nothing /\ met /\ last
      /\ l.op # "$and" /\ l.keys = {} =>
           /\ (l.or <=> l.members > 0) /\ last
           /\ Clause(b) = True <=> met
           /\ Clause(b) = Nothing <=> l.members <= 1
      /\ l.op # "$and" /\ l.keys # {} =>
           /\ ~l.or /\ b.run \in Truths
           /\ b.run = True <=> last
           /\ b.done = True <=> met
      /\ l.members = 0 => l.keys = {}
      /\ Complete(Rows[i]) => b.done # Unknown /\ b.run # Unknown

Negations == "negation" \notin odd => list.op # "$nor" /\ \A n \in 1..Len(outer) : outer[n].op # "$nor"

(* A list whose statements are joined by or is the first entry of a        *)
(* builder.                                                                *)
ComesFirst(l) == l.keys = {} /\ (l.op # "$and" \/ l.members = 1)

Level(n) == IF n <= Len(outer) THEN outer[n] ELSE list

AlternativesFirst ==
  odd \subseteq {"negation"} => \A n \in 1..Len(outer) : Headed(Level(n + 1).op) => ComesFirst(outer[n])

MongoFollows ==
  "ignored operator" \notin odd => SameRows(list) /\ \A n \in 1..Len(outer) : SameRows(outer[n])

SqlFollows ==
  odd \subseteq {"negation"} =>
    \A i \in RowIds : Complete(Rows[i]) \/ odd = {} =>
      Reads(list, i) /\ \A n \in 1..Len(outer) : Reads(outer[n], i)

QueryInv ==
  /\ QueryTypeOK /\ OneFilter /\ InMember /\ Negations /\ AlternativesFirst
  /\ MongoFollows /\ SqlFollows

-----------------------------------------------------------------------------
(* The steps of a list *)

LEMMA JoinedAgain ==
  ASSUME NEW b \in BuilderStates, NEW w, NEW h \in Truths \cup {Nothing}
  PROVE  Joined(b, w, h) \in BuilderStates
<1>1. CASE h = Nothing
  BY <1>1 DEF Joined
<1>2. CASE h # Nothing /\ w = "or"
  BY <1>2, ThreeValued DEF Joined, Clause, BuilderStates
<1>3. CASE h # Nothing /\ w # "or"
  <2>1. Joined(b, w, h) = [b EXCEPT !.run = IF @ = Nothing THEN h ELSE Lesser(@, h)]
    BY <1>3 DEF Joined
  <2>2. (IF b.run = Nothing THEN h ELSE Lesser(b.run, h)) \in Truths \cup {Nothing}
    BY ThreeValued DEF BuilderStates
  <2> QED
    BY <2>1, <2>2 DEF BuilderStates
<1> QED
  BY <1>1, <1>2, <1>3

LEMMA EntryAdded ==
  ASSUME NEW l \in FilterLists, NEW key \in DOMAIN Conditions \cup Logical,
         NEW inMemory \in SUBSET RowIds, NEW inMongo \in SUBSET RowIds, NEW word \in {"and", "or"},
         NEW holds \in [RowIds -> Truths \cup {Nothing}]
  PROVE  Entered(l, key, inMemory, inMongo, word, holds) \in FilterLists
<1> DEFINE w == IF l.or THEN "or" ELSE word
           built == [i \in RowIds |-> Joined(l.builder[i], w, holds[i])]
<1>1. /\ l.memory \in RowSets /\ l.mongo \in RowSets /\ l.builder \in Builders
      /\ l.keys \in SUBSET (DOMAIN Conditions \cup Logical) /\ l.op \in Logical /\ l.members \in Nat
  BY DEF FilterLists
<1>2. \A i \in RowIds : Joined(l.builder[i], w, holds[i]) \in BuilderStates
  BY <1>1, JoinedAgain DEF Builders
<1>3. built \in Builders
  BY <1>2 DEF Builders
<1>4. Narrowed(l.memory, inMemory) \in RowSets /\ Narrowed(l.mongo, inMongo) \in RowSets
  BY <1>1 DEF Narrowed, RowSets
<1>5. Entered(l, key, inMemory, inMongo, word, holds) =
        [op |-> l.op, members |-> l.members, keys |-> l.keys \cup {key},
         memory |-> Narrowed(l.memory, inMemory), mongo |-> Narrowed(l.mongo, inMongo),
         builder |-> built, or |-> FALSE]
  BY DEF Entered
<1> HIDE DEF built
<1> QED
  BY <1>1, <1>3, <1>4, <1>5 DEF FilterLists

LEMMA MembersEnd ==
  ASSUME NEW l \in FilterLists
  PROVE  LET e == Ended(l)
         IN  /\ e \in FilterLists
             /\ e.op = l.op /\ e.members = l.members /\ e.keys = l.keys /\ e.or = l.or /\ e.builder = l.builder
             /\ l.members = 0 => e = l
             /\ l.members # 0 => e.memory = Counted(l.op, l.memory) /\ e.mongo = Counted(l.op, l.mongo)
<1>1. Counted(l.op, l.memory) \in RowSets /\ Counted(l.op, l.mongo) \in RowSets
  BY DEF FilterLists, RowSets, Counted
<1> QED
  BY <1>1 DEF Ended, FilterLists

LEMMA MemberBegins ==
  ASSUME NEW l \in FilterLists
  PROVE  LET n == NextMember(l)
         IN  /\ n \in FilterLists
             /\ n.op = l.op /\ n.members = l.members + 1 /\ n.keys = {} /\ n.or = Headed(l.op)
             /\ n.builder = l.builder /\ n.memory = Ended(l).memory /\ n.mongo = Ended(l).mongo
<1>1. /\ Ended(l).memory \in RowSets /\ Ended(l).mongo \in RowSets
      /\ l.op \in Logical /\ l.members + 1 \in Nat /\ l.builder \in Builders /\ Headed(l.op) \in BOOLEAN
  BY MembersEnd DEF FilterLists, Headed
<1> QED
  BY <1>1 DEF NextMember, FilterLists

LEMMA ListBegins ==
  ASSUME NEW op \in Logical
  PROVE  /\ List(op) \in FilterLists /\ \A i \in RowIds : Reads(List(op), i)
         /\ List(op).op = op /\ List(op).members = 0 /\ SameRows(List(op))
<1> DEFINE l == List(op)
<1>1. Unread(op) \in RowSets
  BY DEF Unread, RowSets
<1>2. Builder \in BuilderStates
  BY DEF Builder, BuilderStates
<1>3. [i \in RowIds |-> Builder] \in Builders
  BY <1>2 DEF Builders
<1>4. l \in FilterLists
  BY <1>1, <1>3 DEF List, FilterLists
<1>5. ASSUME NEW i \in RowIds  PROVE Reads(l, i)
  <2>1. /\ l.op = op /\ l.members = 0 /\ l.keys = {} /\ l.or = FALSE
        /\ l.builder[i] = Builder /\ l.memory = Unread(op)
    BY <1>5 DEF List
  <2>2. Builder.done = Nothing /\ Builder.run = Nothing /\ Clause(Builder) = Nothing
    BY DEF Builder, Clause, Greater
  <2>3. Unread(op).last = RowIds /\ Unread(op).met = IF op = "$and" THEN RowIds ELSE {}
    BY DEF Unread
  <2> HIDE DEF l
  <2> QED
    BY <2>1, <2>2, <2>3, <1>5 DEF Reads, HasStatements, True, Nothing, Unknown
<1> QED
  BY <1>4, <1>5 DEF List, SameRows

LEMMA BuilderAt ==
  ASSUME NEW l \in FilterLists, NEW i \in RowIds
  PROVE  /\ l.builder[i] = [done |-> l.builder[i].done, run |-> l.builder[i].run]
         /\ l.builder[i].done \in Truths \cup {Nothing} /\ l.builder[i].run \in Truths \cup {Nothing}
         /\ Clause(l.builder[i]) = Greater(l.builder[i].done, l.builder[i].run)
<1>1. l.builder[i] \in BuilderStates
  BY DEF FilterLists, Builders
<1> QED
  BY <1>1 DEF BuilderStates, Clause

(* A member of a list begins, and the one before had an entry. *)
LEMMA MemberReads ==
  ASSUME NEW l \in FilterLists, NEW i \in RowIds, Reads(l, i), l.members = 0 \/ l.keys # {}
  PROVE  Reads(NextMember(l), i)
<1> DEFINE n == NextMember(l)
           e == Ended(l)
           b == l.builder[i]
           d == b.done
           r == b.run
<1>1. /\ n \in FilterLists
      /\ n.op = l.op /\ n.members = l.members + 1 /\ n.keys = {} /\ n.or = Headed(l.op)
      /\ n.builder = l.builder /\ n.memory = e.memory
  BY MemberBegins
<1>2. l.op \in Logical /\ l.members \in Nat /\ (Headed(l.op) <=> l.op # "$and")
  BY DEF FilterLists, Headed, Logical
<1>3. l.members = 0 => e.memory = l.memory /\ l.keys = {}
  BY MembersEnd DEF Reads
<1>4. /\ l.members # 0 => /\ e.memory.last = RowIds
                          /\ l.op = "$and" => (i \in e.memory.met <=> i \in l.memory.met /\ i \in l.memory.last)
                          /\ l.op # "$and" => (i \in e.memory.met <=> i \in l.memory.met \/ i \in l.memory.last)
  <2>1. l.members # 0 => e.memory = Counted(l.op, l.memory)
    BY MembersEnd
  <2>2. /\ Counted(l.op, l.memory).last = RowIds
        /\ l.op = "$and" => Counted(l.op, l.memory).met = l.memory.met \cap l.memory.last
        /\ l.op # "$and" => Counted(l.op, l.memory).met = l.memory.met \cup l.memory.last
    BY DEF Counted
  <2> HIDE DEF e
  <2> QED
    BY <2>1, <2>2
<1>5. d \in Truths \cup {Nothing} /\ r \in Truths \cup {Nothing} /\ Clause(b) = Greater(d, r)
  BY BuilderAt
<1>6. n.builder[i] = b
  BY <1>1
<1> SUFFICES Reads(n, i)
  OBVIOUS
<1> HIDE DEF n, e, b, d, r
<1>7. CASE l.op = "$and"
  BY <1>1, <1>2, <1>3, <1>4, <1>6, <1>7 DEF Reads, HasStatements, b, d, r
<1>8. CASE l.op # "$and" /\ l.members = 0
  BY <1>1, <1>2, <1>3, <1>6, <1>8 DEF Reads, b
<1>9. CASE l.op # "$and" /\ l.members # 0
  <2>1. l.keys # {} /\ r \in Truths /\ (r = True <=> i \in l.memory.last) /\ (d = True <=> i \in l.memory.met)
    BY <1>9 DEF Reads, b, d, r
  <2>2. Clause(b) = True <=> i \in e.memory.met
    BY <1>4, <1>5, <1>9, <2>1, ThreeValued
  <2>3. Clause(b) # Nothing
    BY <1>5, <2>1, ThreeValued DEF Truths, True, False, Unknown, Nothing
  <2> QED
    BY <1>1, <1>2, <1>4, <1>6, <1>9, <2>2, <2>3 DEF Reads, b
<1> QED
  BY <1>7, <1>8, <1>9

(* An entry is added: a condition, or a list that has ended.  $or and $nor *)
(* come first in their builder.                                            *)
LEMMA EntryReads ==
  ASSUME NEW l \in FilterLists, NEW i \in RowIds, Reads(l, i), l.members > 0,
         NEW key \in DOMAIN Conditions \cup Logical,
         NEW inMemory \in SUBSET RowIds, NEW inMongo \in SUBSET RowIds, NEW word \in {"and", "or"},
         NEW holds \in [RowIds -> Truths \cup {Nothing}],
         holds[i] \in Truths, holds[i] = True <=> i \in inMemory,
         Complete(Rows[i]) => holds[i] # Unknown,
         word = "or" => ComesFirst(l)
  PROVE  Reads(Entered(l, key, inMemory, inMongo, word, holds), i)
<1> DEFINE n == Entered(l, key, inMemory, inMongo, word, holds)
           b == l.builder[i]
           d == b.done
           r == b.run
           h == holds[i]
           nb == n.builder[i]
           w == IF l.or THEN "or" ELSE word
<1>1. /\ n.op = l.op /\ n.members = l.members /\ n.keys # {} /\ n.or = FALSE
      /\ n.memory = Narrowed(l.memory, inMemory)
      /\ nb = Joined(b, w, h)
  <2>1. /\ n.op = l.op /\ n.members = l.members /\ n.keys = l.keys \cup {key} /\ n.or = FALSE
        /\ n.memory = Narrowed(l.memory, inMemory)
        /\ \A j \in RowIds : n.builder[j] = Joined(l.builder[j], IF l.or THEN "or" ELSE word, holds[j])
    BY DEF Entered
  <2>2. nb = Joined(b, w, h)
    BY <2>1
  <2>3. n.keys # {}
    BY <2>1
  <2> QED
    BY <2>1, <2>2, <2>3
<1>2. l.members \in Nat /\ l.or \in BOOLEAN
  BY DEF FilterLists
<1>3. /\ i \in n.memory.met <=> i \in l.memory.met
      /\ i \in n.memory.last <=> i \in l.memory.last /\ h = True
  BY <1>1 DEF Narrowed
<1>4. d \in Truths \cup {Nothing} /\ r \in Truths \cup {Nothing} /\ Clause(b) = Greater(d, r)
  BY BuilderAt
<1>5. /\ h \in Truths /\ (Complete(Rows[i]) => h # Unknown /\ d # Unknown /\ r # Unknown)
      /\ h # Nothing
  BY DEF Reads, Truths, True, False, Unknown, Nothing
<1>6. /\ w = "or" => nb.done = Greater(d, r) /\ nb.run = h
      /\ w = "and" => nb.done = d /\ nb.run = IF r = Nothing THEN h ELSE Lesser(r, h)
  <2>1. b = [done |-> d, run |-> r]
    BY BuilderAt
  <2> HIDE DEF d, r, b, h, w, nb
  <2>2. /\ Joined(b, "or", h) = [done |-> Greater(d, r), run |-> h]
        /\ Joined(b, "and", h) = [done |-> d, run |-> IF r = Nothing THEN h ELSE Lesser(r, h)]
    BY <1>4, <1>5, <2>1, Joining
  <2> QED
    BY <1>1, <2>2
<1>7. HasStatements(n)
  BY <1>1 DEF HasStatements
<1>8. Complete(Rows[i]) => nb.done # Unknown /\ nb.run # Unknown
  <2>1. w \in {"and", "or"}
    OBVIOUS
  <2>2. Greater(d, r) \in {d, r} /\ (r # Nothing => Lesser(r, h) \in {r, h})
    BY <1>4, <1>5, ThreeValued
  <2> HIDE DEF d, r, b, h, w, nb
  <2> QED
    BY <1>5, <1>6, <2>1, <2>2
<1> SUFFICES Reads(n, i)
  OBVIOUS
<1>9. CASE l.op = "$and"
  <2>1. d = Nothing /\ ~l.or /\ w = word
    BY <1>9 DEF Reads
  <2>2. CASE HasStatements(l)
    <3>1. w = "and" /\ r # Nothing /\ r \in Truths /\ (r = True <=> i \in l.memory.met /\ i \in l.memory.last)
      BY <1>2, <1>9, <2>1, <2>2 DEF Reads, HasStatements, ComesFirst, Truths, True, False, Unknown, Nothing
    <3>2. nb.done = Nothing /\ nb.run \in Truths /\ (nb.run = True <=> r = True /\ h = True)
      BY <1>4, <1>5, <1>6, <2>1, <3>1, ThreeValued
    <3> QED
      BY <1>1, <1>2, <1>3, <1>7, <1>8, <1>9, <3>1, <3>2 DEF Reads
  <2>3. CASE ~HasStatements(l)
    <3>1. r = Nothing /\ i \in l.memory.met /\ i \in l.memory.last
      BY <1>9, <2>3 DEF Reads
    <3>2. nb.done = Nothing /\ nb.run = h
      BY <1>4, <1>6, <2>1, <3>1, ThreeValued
    <3> QED
      BY <1>1, <1>2, <1>3, <1>5, <1>7, <1>8, <1>9, <3>1, <3>2 DEF Reads
  <2> QED
    BY <2>2, <2>3
<1>10. CASE l.op # "$and" /\ l.keys = {}
  <2>1. l.or /\ w = "or" /\ i \in l.memory.last /\ (Greater(d, r) = True <=> i \in l.memory.met)
    BY <1>4, <1>10 DEF Reads
  <2> QED
    BY <1>1, <1>2, <1>3, <1>5, <1>6, <1>8, <1>10, <2>1 DEF Reads
<1>11. CASE l.op # "$and" /\ l.keys # {}
  <2>1. w = "and" /\ r \in Truths /\ (r = True <=> i \in l.memory.last) /\ (d = True <=> i \in l.memory.met)
    BY <1>11 DEF Reads, ComesFirst
  <2>2. nb.done = d /\ nb.run \in Truths /\ (nb.run = True <=> r = True /\ h = True)
    BY <1>4, <1>5, <1>6, <2>1, ThreeValued DEF Truths, True, False, Unknown, Nothing
  <2> QED
    BY <1>1, <1>2, <1>3, <1>8, <1>11, <2>1, <2>2 DEF Reads
<1> QED
  BY <1>9, <1>10, <1>11

(* A list ends with a member that has an entry: what its group is of a row *)
(* is what the list is in memory, unless it is Unknown and negated.        *)
LEMMA GroupReads ==
  ASSUME NEW l \in FilterLists, NEW i \in RowIds, Reads(l, i), l.members > 0, l.keys # {},
         Complete(Rows[i]) \/ l.op # "$nor"
  PROVE  LET e == Ended(l)
             h == Group(e.op, Clause(e.builder[i]))
         IN  /\ h \in Truths
             /\ h = True <=> i \in Answer(e.op, e.memory)
             /\ Complete(Rows[i]) => h # Unknown
<1> DEFINE e == Ended(l)
           b == l.builder[i]
           d == b.done
           r == b.run
           c == Clause(b)
<1>1. l.members \in Nat /\ l.op \in Logical
  BY DEF FilterLists
<1>2. e.op = l.op /\ e.builder = l.builder /\ e.memory = Counted(l.op, l.memory)
  BY <1>1, MembersEnd
<1>3. d \in Truths \cup {Nothing} /\ r \in Truths \cup {Nothing} /\ c = Greater(d, r)
  BY BuilderAt
<1>4. Complete(Rows[i]) => d # Unknown /\ r # Unknown
  BY DEF Reads
<1>5. r \in Truths /\ (c = True <=> i \in e.memory.met)
  <2>1. CASE l.op = "$and"
    <3>1. d = Nothing /\ r \in Truths /\ (r = True <=> i \in l.memory.met /\ i \in l.memory.last)
      BY <2>1 DEF Reads, HasStatements
    <3>2. e.memory.met = l.memory.met \cap l.memory.last
      BY <1>2, <2>1 DEF Counted
    <3> QED
      BY <1>3, <3>1, <3>2, ThreeValued
  <2>2. CASE l.op # "$and"
    <3>1. r \in Truths /\ (r = True <=> i \in l.memory.last) /\ (d = True <=> i \in l.memory.met)
      BY <2>2 DEF Reads
    <3>2. e.memory.met = l.memory.met \cup l.memory.last
      BY <1>2, <2>2 DEF Counted
    <3> QED
      BY <1>3, <3>1, <3>2, ThreeValued
  <2> QED
    BY <2>1, <2>2
<1>6. c \in Truths /\ (Complete(Rows[i]) => c # Unknown)
  <2> HIDE DEF d, r, c
  <2> QED
    BY <1>3, <1>4, <1>5, ThreeValued DEF Truths, True, False, Unknown, Nothing
<1>7. Group(e.op, Clause(e.builder[i])) = Group(l.op, c) /\ Answer(e.op, e.memory) = Answer(l.op, e.memory)
  BY <1>2
<1> HIDE DEF e, b, d, r, c
<1>8. /\ Group(l.op, c) \in Truths
      /\ Group(l.op, c) = True <=> i \in Answer(l.op, e.memory)
      /\ Complete(Rows[i]) => Group(l.op, c) # Unknown
  <2>1. CASE l.op = "$nor"
    BY <1>5, <1>6, <2>1 DEF Group, Answer, Truths, True, False, Unknown, Nothing
  <2>2. CASE l.op # "$nor"
    BY <1>5, <1>6, <2>2 DEF Group, Answer
  <2> QED
    BY <2>1, <2>2
<1> QED
  BY <1>7, <1>8 DEF e

-----------------------------------------------------------------------------
(* The steps of a query *)

LEMMA FilterBegins == Init => QueryInv
<1> SUFFICES ASSUME Init  PROVE QueryInv
  OBVIOUS
<1> DEFINE l == List("$and")
<1>1. /\ l \in FilterLists /\ l.op = "$and" /\ l.members = 0 /\ SameRows(l)
      /\ \A i \in RowIds : Reads(l, i)
  BY ListBegins DEF Logical
<1>2. l.memory.met = RowIds /\ l.mongo.met = RowIds /\ Ended(l) = l
  BY <1>1 DEF List, Unread, Ended
<1>3. list = NextMember(l) /\ outer = <<>> /\ odd = {} /\ entries = 0
  BY DEF Init
<1> HIDE DEF l
<1>4. /\ list \in FilterLists /\ list.op = "$and" /\ list.members = 1
      /\ list.memory = l.memory /\ list.mongo = l.mongo
  BY <1>1, <1>2, <1>3, MemberBegins
<1>5. QueryTypeOK
  BY <1>3, <1>4 DEF QueryTypeOK
<1>6. OneFilter
  BY <1>2, <1>3, <1>4 DEF OneFilter, IsFilter
<1>7. \A i \in RowIds : Reads(list, i)
  BY <1>1, <1>3, MemberReads
<1>8. SameRows(list)
  BY <1>1, <1>4 DEF SameRows
<1>9. Len(outer) = 0
  BY <1>3
<1> QED
  BY <1>3, <1>4, <1>5, <1>6, <1>7, <1>8, <1>9
     DEF QueryInv, InMember, Negations, AlternativesFirst, MongoFollows, SqlFollows

(* The lists around the one under way, when it is opened and closed. *)
LEMMA GoneIn ==
  ASSUME NEW S, NEW s \in Seq(S), NEW e \in S
  PROVE  /\ Append(s, e) \in Seq(S) /\ Len(Append(s, e)) = Len(s) + 1 /\ Append(s, e) # <<>>
         /\ \A n \in 1..Len(s) : Append(s, e)[n] = s[n]
         /\ Append(s, e)[Len(s) + 1] = e
OBVIOUS

LEMMA GoneOut ==
  ASSUME NEW S, NEW s \in Seq(S), s # <<>>
  PROVE  LET f == SubSeq(s, 1, Len(s) - 1)
         IN  /\ f \in Seq(S) /\ Len(f) = Len(s) - 1 /\ Len(s) \in Nat \ {0} /\ s[Len(s)] \in S
             /\ \A n \in 1..(Len(s) - 1) : f[n] = s[n]
             /\ f = <<>> <=> Len(s) = 1
<1> DEFINE m == Len(s) - 1
           f == SubSeq(s, 1, m)
<1>1. m \in Nat /\ Len(s) = m + 1 /\ s[Len(s)] \in S /\ \A n \in 1..m : s[n] \in S
  OBVIOUS
<1>2. f \in Seq(S) /\ Len(f) = m /\ \A n \in 1..m : f[n] = s[n]
  <2> HIDE DEF m
  <2>1. /\ SubSeq(s, 1, m) \in Seq(S)
        /\ Len(SubSeq(s, 1, m)) = IF 1 <= m THEN m - 1 + 1 ELSE 0
        /\ \A n \in 1..(m - 1 + 1) : SubSeq(s, 1, m)[n] = s[1 + n - 1]
    BY <1>1, SubSeqProperties
  <2> QED
    BY <1>1, <2>1
<1>3. f = <<>> <=> m = 0
  <2>1. m = 0 => f = <<>>
    <3> SUFFICES SubSeq(s, 1, 0) = <<>>
      OBVIOUS
    <3> QED
      BY SubSeqEmpty
  <2>2. f = <<>> => m = 0
    BY <1>2, EmptySeq
  <2> QED
    BY <2>1, <2>2
<1> HIDE DEF f
<1> QED
  BY <1>1, <1>2, <1>3 DEF f

LEMMA ConditionAdded ==
  ASSUME QueryInv, NEW k \in DOMAIN Conditions, AddCondition(k)
  PROVE  QueryInv'
<1>1. PICK c \in Conditions[k] :
        /\ list.members > 0
        /\ entries' = entries + 1
        /\ list' = Entered(list, k, {i \in RowIds : FieldHolds(Rows[i][k], c)},
                           {i \in RowIds : AdaptedHolds(Rows[i][k], c)},
                           "and", [i \in RowIds |-> ConditionHolds(Rows[i][k], c)])
        /\ odd' = odd \cup Odd("ignored operator", ~AllLookedAt(c)) \cup Odd("negation", Negates(c))
        /\ outer' = outer
  BY DEF AddCondition, CanEnter
<1> DEFINE inMemory == {i \in RowIds : FieldHolds(Rows[i][k], c)}
           inMongo == {i \in RowIds : AdaptedHolds(Rows[i][k], c)}
           holds == [i \in RowIds |-> ConditionHolds(Rows[i][k], c)]
           n == Entered(list, k, inMemory, inMongo, "and", holds)
<1>2. list \in FilterLists /\ outer \in Seq(FilterLists) /\ odd \subseteq Marks /\ entries \in Nat
  BY DEF QueryInv, QueryTypeOK
<1>3. holds \in [RowIds -> Truths \cup {Nothing}]
  <2>1. \A v : ConditionHolds(v, c) \in Truths
    BY DEF ConditionHolds, Truths, True, False, Unknown
  <2> QED
    BY <2>1
<1>4. /\ odd' \subseteq Marks /\ odd \subseteq odd'
      /\ "ignored operator" \in odd' <=> "ignored operator" \in odd \/ ~AllLookedAt(c)
      /\ "negation" \in odd' <=> "negation" \in odd \/ Negates(c)
  BY <1>1, <1>2 DEF Odd, Marks
<1>5. list' \in FilterLists
  BY <1>1, <1>2, <1>3, EntryAdded
<1>6. /\ list'.op = list.op /\ list'.members = list.members
      /\ list'.memory.met = list.memory.met /\ list'.mongo.met = list.mongo.met
      /\ list'.memory = Narrowed(list.memory, inMemory) /\ list'.mongo = Narrowed(list.mongo, inMongo)
  BY <1>1 DEF Entered, Narrowed
<1>7. AllLookedAt(c) => inMongo = inMemory
  <2>1. \A i \in RowIds : IsValue(Rows[i][k])
    BY QueriesAssumption DEF IsValue
  <2> QED
    BY <2>1, AdaptedIsField
<1>8. ASSUME odd' \subseteq {"negation"}, NEW i \in RowIds, Complete(Rows[i]) \/ odd' = {}
      PROVE  Reads(n, i)
  <2>1. odd \subseteq {"negation"} /\ (Complete(Rows[i]) \/ odd = {}) /\ AllLookedAt(c)
    BY <1>4, <1>8
  <2>2. Rows[i][k] # Missing \/ ~Negates(c)
    BY <1>4, <1>8 DEF Complete
  <2>3. Reads(list, i)
    BY <2>1 DEF QueryInv, SqlFollows
  <2>4. /\ ConditionHolds(Rows[i][k], c) \in Truths
        /\ ConditionHolds(Rows[i][k], c) = True <=> FieldHolds(Rows[i][k], c)
        /\ Rows[i][k] # Missing => ConditionHolds(Rows[i][k], c) # Unknown
    BY <2>1, <2>2, StatementIsField
  <2>5. /\ holds[i] \in Truths /\ (holds[i] = True <=> i \in inMemory)
        /\ Complete(Rows[i]) => holds[i] # Unknown
    BY <2>4 DEF Complete
  <2>6. inMemory \in SUBSET RowIds /\ inMongo \in SUBSET RowIds /\ k \in DOMAIN Conditions \cup Logical
    OBVIOUS
  <2> HIDE DEF inMemory, inMongo, holds
  <2> QED
    BY <1>1, <1>2, <1>3, <2>3, <2>5, <2>6, EntryReads
<1> HIDE DEF inMemory, inMongo, holds, n
<1>9. QueryTypeOK'
  <2>1. outer' = outer /\ entries' = entries + 1
    BY <1>1
  <2>2. outer' \in Seq(FilterLists) /\ entries' \in Nat
    BY <1>2, <2>1
  <2> QED
    BY <1>4, <1>5, <2>2 DEF QueryTypeOK
<1>10. OneFilter' /\ InMember'
  BY <1>1, <1>6 DEF QueryInv, OneFilter, InMember, IsFilter
<1>11. Negations' /\ AlternativesFirst'
  BY <1>1, <1>4, <1>6 DEF QueryInv, Negations, AlternativesFirst, Level
<1>12. MongoFollows'
  <2>1. ASSUME "ignored operator" \notin odd'  PROVE SameRows(list')
    BY <1>4, <1>6, <1>7, <2>1 DEF QueryInv, MongoFollows, SameRows
  <2> QED
    BY <1>1, <1>4, <2>1 DEF QueryInv, MongoFollows
<1>13. SqlFollows'
  <2>1. list' = n
    BY <1>1 DEF n, inMemory, inMongo, holds
  <2> QED
    BY <1>1, <1>4, <1>8, <2>1 DEF QueryInv, SqlFollows
<1> QED
  BY <1>9, <1>10, <1>11, <1>12, <1>13 DEF QueryInv

LEMMA ListOpened ==
  ASSUME QueryInv, NEW op \in Logical, Open(op)
  PROVE  QueryInv'
<1> DEFINE new == List(op)
<1>1. /\ list.members > 0
      /\ outer' = Append(outer, list)
      /\ list' = new
      /\ odd' = odd \cup LateAlternative(list, op) \cup Odd("negation", op = "$nor")
  BY DEF Open, CanEnter
<1>2. entries' = entries + 1
  BY DEF Open
<1>3. list \in FilterLists /\ outer \in Seq(FilterLists) /\ odd \subseteq Marks /\ entries \in Nat
  BY DEF QueryInv, QueryTypeOK
<1>4. /\ outer' \in Seq(FilterLists) /\ Len(outer') = Len(outer) + 1 /\ outer' # <<>> /\ Len(outer) \in Nat
      /\ \A n \in 1..Len(outer) : outer'[n] = outer[n]
      /\ outer'[Len(outer) + 1] = list
  <2>1. Len(outer) \in Nat
    BY <1>3
  <2> QED
    BY <1>1, <1>3, <2>1, GoneIn
<1>5. /\ new \in FilterLists /\ new.op = op /\ SameRows(new)
      /\ \A i \in RowIds : Reads(new, i)
  BY ListBegins
<1>6. /\ odd' \subseteq Marks /\ odd \subseteq odd'
      /\ "negation" \notin odd' => op # "$nor"
      /\ odd' \subseteq {"negation"} /\ Headed(op) => list.keys = {} /\ (list.op # "$and" \/ ~(list.members > 1))
  BY <1>1, <1>3 DEF LateAlternative, Odd, Marks
<1>7. list.members \in Nat
  BY <1>3 DEF FilterLists
<1> HIDE DEF new
<1>8. QueryTypeOK'
  <2>1. entries' \in Nat
    BY <1>2, <1>3
  <2> QED
    BY <1>1, <1>4, <1>5, <1>6, <2>1 DEF QueryTypeOK
<1>9. OneFilter'
  <2>1. CASE outer = <<>>
    <3>1. outer'[1] = list
      BY <1>4, <2>1
    <3> QED
      BY <1>4, <2>1, <3>1 DEF QueryInv, OneFilter, IsFilter
  <2>2. CASE outer # <<>>
    <3>1. outer'[1] = outer[1]
      BY <1>3, <1>4, <2>2
    <3> QED
      BY <1>4, <2>2, <3>1 DEF QueryInv, OneFilter, IsFilter
  <2> QED
    BY <2>1, <2>2
<1>10. \A n \in 1..Len(outer') : outer'[n] = IF n <= Len(outer) THEN outer[n] ELSE list
  BY <1>4
<1>11. \A n \in 1..Len(outer') : n <= Len(outer) => n \in 1..Len(outer)
  OBVIOUS
<1>12. InMember'
  BY <1>1, <1>4, <1>10 DEF QueryInv, InMember
<1>13. Negations'
  BY <1>1, <1>4, <1>5, <1>6, <1>10 DEF QueryInv, Negations
<1>14. AlternativesFirst'
  <2> SUFFICES ASSUME odd' \subseteq {"negation"}, NEW n \in 1..Len(outer'), Headed(Level(n + 1)'.op)
               PROVE  ComesFirst(outer'[n])
    BY DEF AlternativesFirst
  <2>1. CASE n <= Len(outer)
    <3>1. n \in 1..Len(outer) /\ outer'[n] = outer[n] /\ n + 1 <= Len(outer')
      BY <1>4, <2>1
    <3>2. Level(n + 1)' = Level(n + 1)
      BY <1>4, <3>1 DEF Level
    <3> QED
      BY <1>6, <3>1, <3>2 DEF QueryInv, AlternativesFirst
  <2>2. CASE ~(n <= Len(outer))
    <3>1. n = Len(outer) + 1 /\ outer'[n] = list
      BY <1>4, <2>2
    <3>2. Level(n + 1)' = new
      BY <1>1, <1>4, <3>1 DEF Level
    <3> QED
      BY <1>1, <1>5, <1>6, <1>7, <3>1, <3>2 DEF ComesFirst
  <2> QED
    BY <2>1, <2>2
<1>15. MongoFollows'
  <2> SUFFICES ASSUME "ignored operator" \notin odd'
               PROVE  \A n \in 1..Len(outer') : SameRows(outer'[n])
    BY <1>1, <1>5 DEF MongoFollows
  <2>1. SameRows(list) /\ \A m \in 1..Len(outer) : SameRows(outer[m])
    BY <1>6 DEF QueryInv, MongoFollows
  <2> QED
    BY <1>10, <1>11, <2>1
<1>16. SqlFollows'
  <2> SUFFICES ASSUME odd' \subseteq {"negation"}, NEW i \in RowIds, Complete(Rows[i]) \/ odd' = {}
               PROVE  Reads(list', i) /\ \A n \in 1..Len(outer') : Reads(outer'[n], i)
    BY DEF SqlFollows
  <2>1. Reads(list, i) /\ \A n \in 1..Len(outer) : Reads(outer[n], i)
    BY <1>6 DEF QueryInv, SqlFollows
  <2>2. \A n \in 1..Len(outer') : Reads(outer'[n], i)
    BY <1>10, <1>11, <2>1
  <2> QED
    BY <1>1, <1>5, <2>2
<1> QED
  BY <1>8, <1>9, <1>12, <1>13, <1>14, <1>15, <1>16 DEF QueryInv

LEMMA MemberAdded ==
  ASSUME QueryInv, AddMember
  PROVE  QueryInv'
<1> DEFINE n == NextMember(list)
<1>1. /\ outer # <<>> /\ list' = n /\ odd' = odd \cup EndsEmpty(list)
      /\ outer' = outer /\ entries' = entries
  BY DEF AddMember
<1>2. list \in FilterLists /\ outer \in Seq(FilterLists) /\ odd \subseteq Marks /\ entries \in Nat
  BY DEF QueryInv, QueryTypeOK
<1>3. n \in FilterLists /\ n.op = list.op /\ n.memory = Ended(list).memory /\ n.mongo = Ended(list).mongo
  BY <1>2, MemberBegins
<1>4. /\ odd' \subseteq Marks /\ odd \subseteq odd'
      /\ odd' \subseteq {"negation"} => list.keys # {} \/ ~(list.members > 0)
  BY <1>1, <1>2 DEF EndsEmpty, Odd, Marks
<1>5. list.members \in Nat
  BY <1>2 DEF FilterLists
<1>6. SameRows(list) => SameRows(n)
  BY <1>2, <1>3, MembersEnd DEF SameRows
<1>7. ASSUME odd' \subseteq {"negation"}, NEW i \in RowIds, Reads(list, i)
      PROVE  Reads(n, i)
  BY <1>2, <1>4, <1>5, <1>7, MemberReads
<1> HIDE DEF n
<1>8. QueryTypeOK'
  BY <1>1, <1>2, <1>3, <1>4 DEF QueryTypeOK
<1>9. OneFilter' /\ InMember'
  BY <1>1 DEF QueryInv, OneFilter, InMember
<1>10. Negations' /\ AlternativesFirst'
  BY <1>1, <1>3, <1>4 DEF QueryInv, Negations, AlternativesFirst, Level
<1>11. MongoFollows'
  BY <1>1, <1>4, <1>6 DEF QueryInv, MongoFollows
<1>12. SqlFollows'
  BY <1>1, <1>4, <1>7 DEF QueryInv, SqlFollows
<1> QED
  BY <1>8, <1>9, <1>10, <1>11, <1>12 DEF QueryInv

LEMMA ListClosed ==
  ASSUME QueryInv, Close
  PROVE  QueryInv'
<1> DEFINE ended == Ended(list)
           m == Len(outer)
           parent == outer[m]
           inMemory == Answer(ended.op, ended.memory)
           inMongo == Answer(ended.op, ended.mongo)
           word == Word(ended.op)
           holds == [i \in RowIds |-> Group(ended.op, Clause(ended.builder[i]))]
           n == Entered(parent, ended.op, inMemory, inMongo, word, holds)
<1>1. outer # <<>> /\ list' = n /\ outer' = SubSeq(outer, 1, m - 1) /\ entries' = entries
  BY DEF Close
<1>2. odd' = odd \cup EndsEmpty(list) \cup Odd("empty list", list.members = 0)
  BY DEF Close
<1>3. list \in FilterLists /\ outer \in Seq(FilterLists) /\ odd \subseteq Marks /\ entries \in Nat
  BY DEF QueryInv, QueryTypeOK
<1>4. /\ outer' \in Seq(FilterLists) /\ Len(outer') = m - 1 /\ m \in Nat \ {0} /\ parent \in FilterLists
      /\ \A j \in 1..(m - 1) : outer'[j] = outer[j]
      /\ outer' = <<>> <=> m = 1
  BY <1>1, <1>3, GoneOut
<1>5. /\ odd' \subseteq Marks /\ odd \subseteq odd'
      /\ odd' \subseteq {"negation"} => list.members # 0 /\ (list.keys # {} \/ ~(list.members > 0))
  BY <1>2, <1>3 DEF EndsEmpty, Odd, Marks
<1>6. /\ ended \in FilterLists /\ ended.op = list.op /\ list.op \in Logical /\ list.members \in Nat
      /\ ended.builder = list.builder
  BY <1>3, MembersEnd DEF FilterLists
<1>7. inMemory \in SUBSET RowIds /\ inMongo \in SUBSET RowIds
  BY <1>6 DEF FilterLists, RowSets, Answer
<1>8. holds \in [RowIds -> Truths \cup {Nothing}] /\ word \in {"and", "or"}
  <2>1. ASSUME NEW i \in RowIds  PROVE Group(ended.op, Clause(ended.builder[i])) \in Truths \cup {Nothing}
    <3>1. Clause(ended.builder[i]) \in Truths \cup {Nothing}
      <4>1. /\ ended.builder[i].done \in Truths \cup {Nothing} /\ ended.builder[i].run \in Truths \cup {Nothing}
            /\ Clause(ended.builder[i]) = Greater(ended.builder[i].done, ended.builder[i].run)
        BY <1>6, BuilderAt
      <4> HIDE DEF ended
      <4> QED
        BY <4>1, ThreeValued
    <3> QED
      BY <3>1 DEF Group, Truths, True, False, Unknown, Nothing
  <2> QED
    BY <2>1 DEF Word
<1>9. n \in FilterLists
  <2>1. ended.op \in DOMAIN Conditions \cup Logical
    BY <1>6
  <2> HIDE DEF ended, inMemory, inMongo, word, holds, parent, m
  <2> QED
    BY <1>4, <1>7, <1>8, <2>1, EntryAdded
<1>10. /\ n.op = parent.op /\ n.members = parent.members
       /\ n.memory.met = parent.memory.met /\ n.mongo.met = parent.mongo.met
       /\ n.memory = Narrowed(parent.memory, inMemory) /\ n.mongo = Narrowed(parent.mongo, inMongo)
  BY DEF Entered, Narrowed
<1>11. SameRows(list) => inMongo = inMemory
  <2>1. SameRows(list) => ended.mongo = ended.memory
    BY DEF SameRows, Ended
  <2> QED
    BY <2>1
<1>12. ASSUME odd' \subseteq {"negation"}, NEW i \in RowIds, Complete(Rows[i]) \/ odd' = {}
       PROVE  Reads(n, i)
  <2>1. odd \subseteq {"negation"} /\ (Complete(Rows[i]) \/ odd = {}) /\ list.members > 0 /\ list.keys # {}
    BY <1>5, <1>6, <1>12
  <2>2. Reads(list, i) /\ Reads(parent, i)
    BY <1>4, <2>1 DEF QueryInv, SqlFollows
  <2>3. Complete(Rows[i]) \/ list.op # "$nor"
    BY <2>1 DEF QueryInv, Negations
  <2>4. /\ Group(ended.op, Clause(ended.builder[i])) \in Truths
        /\ Group(ended.op, Clause(ended.builder[i])) = True <=> i \in inMemory
        /\ Complete(Rows[i]) => Group(ended.op, Clause(ended.builder[i])) # Unknown
    BY <1>3, <2>1, <2>2, <2>3, GroupReads
  <2>5. /\ holds[i] \in Truths /\ (holds[i] = True <=> i \in inMemory)
        /\ Complete(Rows[i]) => holds[i] # Unknown
    BY <2>4
  <2>6. word = "or" => ComesFirst(parent)
    <3>1. word = "or" => Headed(list.op)
      BY <1>6 DEF Word, Headed, Logical
    <3>2. Level(m + 1) = list
      BY <1>4 DEF Level
    <3> QED
      BY <1>4, <2>1, <3>1, <3>2 DEF QueryInv, AlternativesFirst
  <2>7. ended.op \in DOMAIN Conditions \cup Logical /\ parent.members > 0
    BY <1>4, <1>6 DEF QueryInv, InMember
  <2> HIDE DEF ended, inMemory, inMongo, word, holds, parent, m
  <2> QED
    BY <1>4, <1>7, <1>8, <2>2, <2>5, <2>6, <2>7, EntryReads
<1> HIDE DEF inMemory, inMongo, word, holds, n, ended
<1>13. QueryTypeOK'
  BY <1>1, <1>3, <1>4, <1>5, <1>9 DEF QueryTypeOK
<1>14. OneFilter'
  <2>1. CASE m = 1
    <3>1. IsFilter(parent)
      BY <1>1, <2>1 DEF QueryInv, OneFilter
    <3> QED
      BY <1>1, <1>4, <1>10, <2>1, <3>1 DEF OneFilter, IsFilter
  <2>2. CASE m # 1
    <3>1. outer'[1] = outer[1] /\ outer' # <<>>
      BY <1>4, <2>2
    <3> QED
      BY <1>1, <3>1 DEF QueryInv, OneFilter, IsFilter
  <2> QED
    BY <2>1, <2>2
<1>15. \A j \in 1..Len(outer') : j \in 1..Len(outer) /\ outer'[j] = outer[j]
  BY <1>4
<1>16. InMember'
  BY <1>15 DEF QueryInv, InMember
<1>17. Negations'
  BY <1>1, <1>4, <1>5, <1>10, <1>15 DEF QueryInv, Negations
<1>18. AlternativesFirst'
  <2> SUFFICES ASSUME odd' \subseteq {"negation"}, NEW j \in 1..Len(outer'), Headed(Level(j + 1)'.op)
               PROVE  ComesFirst(outer'[j])
    BY DEF AlternativesFirst
  <2>1. Level(j + 1) = outer[j + 1]
    BY <1>4 DEF Level
  <2>2. Level(j + 1)'.op = outer[j + 1].op
    <3>1. CASE j + 1 <= Len(outer')
      BY <1>4, <3>1 DEF Level
    <3>2. CASE ~(j + 1 <= Len(outer'))
      <4>1. j + 1 = m
        BY <1>4, <3>2
      <4>2. Level(j + 1)' = n
        BY <1>1, <3>2 DEF Level
      <4> QED
        BY <1>10, <4>1, <4>2
    <3> QED
      BY <3>1, <3>2
  <2> QED
    BY <1>5, <1>15, <2>1, <2>2 DEF QueryInv, AlternativesFirst
<1>19. MongoFollows'
  <2>1. ASSUME "ignored operator" \notin odd'
        PROVE  SameRows(n) /\ \A j \in 1..Len(outer) : SameRows(outer[j])
    <3>1. SameRows(list) /\ \A j \in 1..Len(outer) : SameRows(outer[j])
      BY <1>5, <2>1 DEF QueryInv, MongoFollows
    <3>2. SameRows(parent)
      BY <1>4, <3>1
    <3> QED
      BY <1>10, <1>11, <3>1, <3>2 DEF SameRows
  <2> QED
    BY <1>1, <1>15, <2>1 DEF MongoFollows
<1>20. SqlFollows'
  <2> SUFFICES ASSUME odd' \subseteq {"negation"}, NEW i \in RowIds, Complete(Rows[i]) \/ odd' = {}
               PROVE  Reads(list', i) /\ \A j \in 1..Len(outer') : Reads(outer'[j], i)
    BY DEF SqlFollows
  <2>1. \A j \in 1..Len(outer) : Reads(outer[j], i)
    BY <1>5 DEF QueryInv, SqlFollows
  <2> QED
    BY <1>1, <1>12, <1>15, <2>1
<1> QED
  BY <1>13, <1>14, <1>16, <1>17, <1>18, <1>19, <1>20 DEF QueryInv

THEOREM QueryInvariant == Spec => []QueryInv
<1>1. Init => QueryInv
  BY FilterBegins
<1>2. QueryInv /\ [Next]_vars => QueryInv'
  <2> SUFFICES ASSUME QueryInv, [Next]_vars  PROVE QueryInv'
    OBVIOUS
  <2>1. CASE \E k \in DOMAIN Conditions : AddCondition(k)
    BY <2>1, ConditionAdded
  <2>2. CASE \E op \in Logical : Open(op)
    BY <2>2, ListOpened
  <2>3. CASE AddMember
    BY <2>3, MemberAdded
  <2>4. CASE Close
    BY <2>4, ListClosed
  <2>5. CASE UNCHANGED vars
    BY <2>5 DEF vars, QueryInv, QueryTypeOK, OneFilter, InMember, Negations, AlternativesFirst, Level,
                MongoFollows, SqlFollows
  <2> QED
    BY <2>1, <2>2, <2>3, <2>4, <2>5 DEF Next
<1> QED
  BY <1>1, <1>2, PTL DEF Spec

THEOREM MongoAlwaysAsInMemory == Spec => []MongoAsInMemory
<1>1. QueryInv => MongoAsInMemory
  BY DEF QueryInv, MongoFollows, SameRows, MongoAsInMemory, FromMongo, FromMemory
<1> QED
  BY <1>1, QueryInvariant, PTL

THEOREM SqlAlwaysAsInMemory == Spec => []SqlAsInMemory
<1>1. QueryInv => SqlAsInMemory
  <2> SUFFICES ASSUME QueryInv, outer = <<>>, odd \subseteq {"negation"},
                      NEW i \in RowIds, Complete(Rows[i]) \/ odd = {}
               PROVE  i \in FromSql <=> i \in FromMemory
    BY DEF SqlAsInMemory, WholeQuery
  <2> DEFINE b == list.builder[i]
  <2>1. list \in FilterLists /\ list.op = "$and" /\ list.members = 1 /\ list.memory.met = RowIds
    BY DEF QueryInv, QueryTypeOK, OneFilter, IsFilter
  <2>2. Reads(list, i)
    BY DEF QueryInv, SqlFollows
  <2>3. b.done = Nothing /\ b.run \in Truths \cup {Nothing} /\ Clause(b) = Greater(b.done, b.run)
    BY <2>1, <2>2, BuilderAt DEF Reads
  <2>4. Clause(b) = b.run
    <3> HIDE DEF b
    <3> QED
      BY <2>3, ThreeValued
  <2>5. b.run \in {True, Nothing} <=> i \in list.memory.last
    BY <2>1, <2>2 DEF Reads, HasStatements, Truths, True, False, Unknown, Nothing
  <2> QED
    BY <2>4, <2>5 DEF FromSql, FromMemory, Chosen
<1> QED
  BY <1>1, QueryInvariant, PTL

-----------------------------------------------------------------------------
(* Aggregations *)

(* The record that reduce() keeps is none as long as there is no value,    *)
(* then one whose value none so far exceeds.                               *)
Exceeds(op, v, x) == IF op = "max" THEN x < v ELSE v < x

LEMMA KeptOf ==
  ASSUME NEW op \in {"max", "min"}, NEW v, NEW x, IsNumber(v), IsNumber(x)
  PROVE  /\ Kept(op, Missing, x) = x
         /\ Kept(op, v, x) = IF Exceeds(op, v.val[1], x.val[1]) THEN v ELSE x
<1>1. v.type = "number" /\ x.type = "number" /\ Missing.type = "undefined"
  BY DEF IsNumber, Missing
<1> QED
  BY <1>1 DEF Kept, Less, Exceeds

LEMMA ExtremeIs ==
  ASSUME NEW op \in {"max", "min"}, NEW n \in Nat, NEW rows, Len(rows) = n, NEW field,
         NEW ids \in SUBSET (1..n), ids # {}, \A i \in ids : IsNumber(rows[i][field])
  PROVE  \E i \in ids :
           /\ Extreme(op, rows, ids, field) = rows[i][field]
           /\ \A j \in ids : ~Exceeds(op, rows[j][field].val[1], rows[i][field].val[1])
<1> DEFINE KeptAfter(f, m) ==
             IF m = 0 THEN Missing ELSE IF m \in ids THEN Kept(op, f[m - 1], rows[m][field]) ELSE f[m - 1]
           Begun(m) == \E f : f = [k \in 0..m |-> KeptAfter(f, k)]
           kept == CHOOSE f : f = [k \in 0..n |-> KeptAfter(f, k)]
           Best(m, i) == /\ kept[m] = rows[i][field]
                         /\ \A j \in ids \cap 1..m : ~Exceeds(op, rows[j][field].val[1], rows[i][field].val[1])
           Good(m) == IF ids \cap 1..m = {} THEN kept[m] = Missing ELSE \E i \in ids \cap 1..m : Best(m, i)
<1>1. Extreme(op, rows, ids, field) = kept[n]
  BY DEF Extreme
<1>2. \A m \in 0..n : Begun(m)
  <2> SUFFICES ASSUME {m \in 0..n : ~Begun(m)} # {}  PROVE FALSE
    OBVIOUS
  <2> DEFINE S == {m \in 0..n : ~Begun(m)}
  <2>1. S \subseteq Nat /\ S # {}
    OBVIOUS
  <2>2. PICK m \in S : \A y \in S : m <= y
    <3> HIDE DEF S
    <3> QED
      BY <2>1, Least
  <2>3. CASE m = 0
    <3> DEFINE f == [k \in 0..0 |-> Missing]
    <3>1. f = [k \in 0..0 |-> KeptAfter(f, k)]
      OBVIOUS
    <3> QED
      BY <2>3, <3>1
  <2>4. CASE m # 0
    <3>1. m \in 1..n /\ m - 1 \in 0..n /\ ~(m <= m - 1)
      BY <2>4
    <3>2. Begun(m - 1)
      BY <2>2, <3>1
    <3>3. PICK g : g = [k \in 0..(m - 1) |-> KeptAfter(g, k)]
      BY <3>2
    <3> DEFINE f == [k \in 0..m |-> KeptAfter(g, k)]
    <3>4. \A k \in 0..m : KeptAfter(f, k) = KeptAfter(g, k)
      <4> SUFFICES ASSUME NEW k \in 0..m, k # 0  PROVE f[k - 1] = g[k - 1]
        OBVIOUS
      <4>1. k - 1 \in 0..(m - 1) /\ k - 1 \in 0..m
        BY <3>1
      <4>2. g[k - 1] = KeptAfter(g, k - 1)
        BY <3>3, <4>1
      <4> QED
        BY <4>1, <4>2
    <3>5. f = [k \in 0..m |-> KeptAfter(f, k)]
      BY <3>4
    <3> QED
      BY <3>5
  <2> QED
    BY <2>3, <2>4
<1>3. kept = [k \in 0..n |-> KeptAfter(kept, k)]
  <2>1. Begun(n)
    BY <1>2
  <2> QED
    BY <2>1
<1> HIDE DEF kept
<1>4. /\ kept[0] = Missing
      /\ \A m \in 1..n : kept[m] = IF m \in ids THEN Kept(op, kept[m - 1], rows[m][field]) ELSE kept[m - 1]
  BY <1>3
<1>5. \A m \in 0..n : Good(m)
  <2> SUFFICES ASSUME {m \in 0..n : ~Good(m)} # {}  PROVE FALSE
    OBVIOUS
  <2> DEFINE S == {m \in 0..n : ~Good(m)}
  <2>1. S \subseteq Nat /\ S # {}
    OBVIOUS
  <2>2. PICK m \in S : \A y \in S : m <= y
    <3> HIDE DEF S
    <3> QED
      BY <2>1, Least
  <2>3. m # 0
    <3>1. Good(0)
      BY <1>4
    <3> QED
      BY <3>1
  <2>4. m \in 1..n /\ m - 1 \in 0..n /\ ~(m <= m - 1)
    BY <2>3
  <2>5. Good(m - 1)
    BY <2>2, <2>4
  <2>6. 1..m = 1..(m - 1) \cup {m}
    BY <2>4
  <2>7. CASE m \notin ids
    <3>1. ids \cap 1..m = ids \cap 1..(m - 1) /\ kept[m] = kept[m - 1]
      BY <1>4, <2>4, <2>6, <2>7
    <3>2. Good(m)
      BY <2>5, <3>1
    <3> QED
      BY <3>2
  <2>8. CASE m \in ids
    <3>1. ids \cap 1..m = (ids \cap 1..(m - 1)) \cup {m}
      BY <2>6, <2>8
    <3>2. kept[m] = Kept(op, kept[m - 1], rows[m][field]) /\ rows[m][field].val[1] \in Int
      BY <1>4, <2>4, <2>8 DEF IsNumber
    <3>3. CASE ids \cap 1..(m - 1) = {}
      <4>1. kept[m] = rows[m][field]
        BY <2>5, <2>8, <3>2, <3>3, KeptOf
      <4>2. Best(m, m)
        BY <3>1, <3>2, <3>3, <4>1 DEF Exceeds
      <4> QED
        BY <3>1, <4>2
    <3>4. CASE ids \cap 1..(m - 1) # {}
      <4>1. PICK i \in ids \cap 1..(m - 1) : Best(m - 1, i)
        BY <2>5, <3>4
      <4>2. kept[m] = IF Exceeds(op, rows[i][field].val[1], rows[m][field].val[1]) THEN rows[i][field]
                      ELSE rows[m][field]
        <5>1. IsNumber(rows[i][field]) /\ IsNumber(rows[m][field]) /\ kept[m - 1] = rows[i][field]
          BY <2>8, <4>1
        <5> QED
          BY <3>2, <5>1, KeptOf
      <4>3. \A j \in ids : rows[j][field].val[1] \in Int
        BY DEF IsNumber
      <4>4. CASE Exceeds(op, rows[i][field].val[1], rows[m][field].val[1])
        <5>1. \A j \in ids \cap 1..m : ~Exceeds(op, rows[j][field].val[1], rows[i][field].val[1])
          BY <2>8, <3>1, <4>1, <4>3, <4>4 DEF Exceeds
        <5>2. Best(m, i)
          BY <4>2, <4>4, <5>1
        <5> QED
          BY <3>1, <5>2
      <4>5. CASE ~Exceeds(op, rows[i][field].val[1], rows[m][field].val[1])
        <5>1. \A j \in ids \cap 1..m : ~Exceeds(op, rows[j][field].val[1], rows[m][field].val[1])
          BY <2>8, <3>1, <4>1, <4>3, <4>5 DEF Exceeds
        <5>2. Best(m, m)
          BY <4>2, <4>5, <5>1
        <5> QED
          BY <3>1, <5>2
      <4> QED
        BY <4>4, <4>5
    <3> QED
      BY <3>3, <3>4
  <2> QED
    BY <2>7, <2>8
<1>6. Good(n) /\ ids \cap 1..n = ids
  <2>1. n \in 0..n
    OBVIOUS
  <2>2. Good(n)
    BY <1>5, <2>1
  <2> QED
    BY <2>2
<1>7. PICK i \in ids \cap 1..n : Best(n, i)
  BY <1>6
<1> QED
  BY <1>1, <1>6, <1>7

(* In a group without missing values the in-memory driver and a database   *)
(* find the same, which is not NULL.                                       *)
LEMMA SameInGroup ==
  ASSUME NEW op \in {"count", "sum", "avg", "max", "min"}, NEW field, NEW n \in Nat, NEW rows, Len(rows) = n,
         NEW ids \in SUBSET (1..n), ids # {}, NEW noSum,
         op # "count" => \A i \in ids : IsNumber(rows[i][field])
  PROVE  /\ InMemoryValue(op, field, rows, ids) = DatabaseValue(op, field, rows, ids, noSum)
         /\ InMemoryValue(op, field, rows, ids) # Null
<1>1. op # "count" => Present(rows, ids, field) = ids
  <2>1. Missing.type = "undefined"
    BY DEF Missing
  <2> QED
    BY <2>1 DEF Present, IsNumber
<1>2. CASE op \in {"count", "sum", "avg"}
  BY <1>1, <1>2 DEF InMemoryValue, DatabaseValue, Number, Quotient, Null
<1>3. CASE op \in {"max", "min"}
  <2> DEFINE Numbers == {rows[i][field].val[1] : i \in ids}
  <2>1. PICK i \in ids : /\ Extreme(op, rows, ids, field) = rows[i][field]
                         /\ \A j \in ids : ~Exceeds(op, rows[j][field].val[1], rows[i][field].val[1])
    BY <1>3, ExtremeIs
  <2>2. \A j \in ids : rows[j][field].val[1] \in Int
    BY <1>3 DEF IsNumber
  <2>3. rows[i][field] = Number(rows[i][field].val[1]) /\ rows[i][field].type = "number"
    BY <1>3 DEF IsNumber
  <2>4. OrNull(Extreme(op, rows, ids, field)) = Number(rows[i][field].val[1])
    BY <2>1, <2>3 DEF OrNull, Missing
  <2>5. Number(rows[i][field].val[1]) # Null
    BY DEF Number, Null
  <2>6. op = "max" => Max(Numbers) = rows[i][field].val[1]
    <3> SUFFICES ASSUME op = "max"  PROVE Max(Numbers) = rows[i][field].val[1]
      OBVIOUS
    <3>1. rows[i][field].val[1] \in Numbers /\ \A x \in Numbers : x \in Int /\ rows[i][field].val[1] >= x
      BY <2>1, <2>2 DEF Exceeds
    <3> HIDE DEF Numbers
    <3> QED
      BY <3>1 DEF Max
  <2>7. op = "min" => Min(Numbers) = rows[i][field].val[1]
    <3> SUFFICES ASSUME op = "min"  PROVE Min(Numbers) = rows[i][field].val[1]
      OBVIOUS
    <3>1. rows[i][field].val[1] \in Numbers /\ \A x \in Numbers : x \in Int /\ rows[i][field].val[1] =< x
      BY <2>1, <2>2 DEF Exceeds
    <3> HIDE DEF Numbers
    <3> QED
      BY <3>1 DEF Min
  <2>8. DatabaseValue(op, field, rows, ids, noSum) = Number(rows[i][field].val[1])
    BY <1>1, <1>3, <2>6, <2>7 DEF DatabaseValue
  <2>9. InMemoryValue(op, field, rows, ids) = Number(rows[i][field].val[1])
    BY <1>3, <2>4 DEF InMemoryValue
  <2> QED
    BY <2>5, <2>8, <2>9
<1> QED
  BY <1>2, <1>3

(* A condition of having all of whose operators count. *)
LEMMA HavingCount ==
  ASSUME NEW c, DOMAIN c # {}, "mode" \notin DOMAIN c, AllLookedAt(c), NEW v
  PROVE  FieldHolds(v, c) <=> \A x \in DOMAIN c : OperatorHolds(v, c, x)
<1>1. Operators(c) = DOMAIN c /\ Given(c) \subseteq Operators(c)
  BY DEF Operators, Given
<1>2. Given(c) = DOMAIN c /\ Family(c) \cap Given(c) = DOMAIN c
  BY <1>1 DEF AllLookedAt
<1> QED
  BY <1>2 DEF FieldHolds

(* What the in-memory driver answers is what a database reduces its rows   *)
(* to, whatever that makes of the sum of none.                             *)
LEMMA QuestionAnswered ==
  ASSUME NEW ids \in SUBSET RowIds, NEW q \in Questions, NEW noSum,
         \A c \in q.having : AllLookedAt(c), q.by = {} => q.having = {},
         q.op = "count" \/ \A i \in ids : Rows[i][q.field] # Missing
  PROVE  LET found == Reduced(Rows, ids, q.by, q.op, q.field, noSum)
         IN  /\ \A r \in found : r.value # Null
             /\ InMemoryAggregate(Rows, ids, q.by, q.op, q.field, q.having)
                  = OrOfNothing({r \in found : Meets(r.value, q.having)}, q.by, q.op)
<1> DEFINE groups == Groups(Rows, ids, q.by)
           part(g) == InGroup(Rows, ids, q.by, g)
           found == Reduced(Rows, ids, q.by, q.op, q.field, noSum)
           inMemory(g) == InMemoryValue(q.op, q.field, Rows, part(g))
           inDatabase(g) == DatabaseValue(q.op, q.field, Rows, part(g), noSum)
<1>1. Len(Rows) \in Nat /\ RowIds = 1..Len(Rows)
  BY QueriesAssumption DEF RowIds
<1>2. \A g \in groups : inMemory(g) = inDatabase(g) /\ inMemory(g) # Null
  <2> SUFFICES ASSUME NEW g \in groups  PROVE inMemory(g) = inDatabase(g) /\ inMemory(g) # Null
    OBVIOUS
  <2>1. part(g) # {} /\ part(g) \subseteq ids
    BY DEF Groups, InGroup
  <2>2. part(g) \in SUBSET (1..Len(Rows))
    BY <1>1, <2>1
  <2>3. q.op # "count" => \A i \in part(g) : IsNumber(Rows[i][q.field])
    BY <2>1, QuestionsAssumption
  <2>4. q.op \in {"count", "sum", "avg", "max", "min"}
    BY QuestionsAssumption
  <2> HIDE DEF part, groups
  <2> QED
    BY <1>1, <2>1, <2>2, <2>3, <2>4, SameInGroup
<1>3. found = {[group |-> g, value |-> inMemory(g)] : g \in groups}
  <2>1. found = {[group |-> g, value |-> inDatabase(g)] : g \in groups}
    BY DEF Reduced
  <2> HIDE DEF inMemory, inDatabase, groups, found
  <2> QED
    BY <1>2, <2>1
<1>4. \A r \in found : r.value # Null
  <2> HIDE DEF inMemory, groups, found
  <2> QED
    BY <1>2, <1>3
<1>5. \A v : (\A c \in q.having : FieldHolds(v, c)) <=> Meets(v, q.having)
  <2> SUFFICES ASSUME NEW v, NEW c \in q.having
               PROVE  FieldHolds(v, c) <=> \A x \in DOMAIN c : OperatorHolds(v, c, x)
    BY DEF Meets
  <2>1. DOMAIN c # {} /\ "mode" \notin DOMAIN c
    BY QuestionsAssumption DEF HavingOperators
  <2> QED
    BY <2>1, HavingCount
<1>6. groups = {} <=> ids = {}
  BY DEF Groups
<1>7. found = {} <=> ids = {}
  BY <1>3, <1>6
<1>8. CASE ids = {} /\ q.by = {}
  <2>1. {r \in found : Meets(r.value, q.having)} = {}
    BY <1>7, <1>8
  <2> QED
    BY <1>4, <1>8, <2>1 DEF InMemoryAggregate, OrOfNothing
<1>9. CASE ~(ids = {} /\ q.by = {})
  <2>1. InMemoryAggregate(Rows, ids, q.by, q.op, q.field, q.having)
          = {r \in found : \A c \in q.having : FieldHolds(r.value, c)}
    BY <1>3, <1>9 DEF InMemoryAggregate
  <2>2. {r \in found : \A c \in q.having : FieldHolds(r.value, c)} = {r \in found : Meets(r.value, q.having)}
    BY <1>5
  <2>3. q.by = {} => {r \in found : Meets(r.value, q.having)} = found /\ found # {}
    BY <1>7, <1>9 DEF Meets
  <2>4. OrOfNothing({r \in found : Meets(r.value, q.having)}, q.by, q.op) = {r \in found : Meets(r.value, q.having)}
    BY <2>3 DEF OrOfNothing
  <2> QED
    BY <1>4, <2>1, <2>2, <2>4
<1> QED
  BY <1>8, <1>9

(* Whatever rows a filter selects, the three drivers aggregate them alike   *)
(* for the questions of Askable: those of _aggregate in the three drivers. *)
THEOREM AggregatesAlwaysAgree == Spec => []AggregatesAgree
<1>1. QueryInv => AggregatesAgree
  <2> SUFFICES ASSUME QueryInv, NEW q \in Questions, Askable(q)
               PROVE  LET answer == InMemoryAggregate(Rows, FromMemory, q.by, q.op, q.field, q.having)
                      IN  /\ answer = SqlAggregate(Rows, FromMemory, q.by, q.op, q.field, q.having)
                          /\ answer = MongoAggregate(Rows, FromMemory, q.by, q.op, q.field, q.having)
    BY DEF AggregatesAgree
  <2>1. FromMemory \in SUBSET RowIds
    BY DEF QueryInv, QueryTypeOK, FilterLists, RowSets, FromMemory
  <2>2. /\ \A c \in q.having : AllLookedAt(c)
        /\ q.by = {} => q.having = {}
        /\ q.op = "count" \/ \A i \in FromMemory : Rows[i][q.field] # Missing
    BY DEF Askable
  <2> DEFINE found(noSum) == Reduced(Rows, FromMemory, q.by, q.op, q.field, noSum)
             answer == InMemoryAggregate(Rows, FromMemory, q.by, q.op, q.field, q.having)
  <2>3. \A noSum : /\ \A r \in found(noSum) : r.value # Null
                   /\ answer = OrOfNothing({r \in found(noSum) : Meets(r.value, q.having)}, q.by, q.op)
    BY <2>1, <2>2, QuestionAnswered
  <2>4. answer = MongoAggregate(Rows, FromMemory, q.by, q.op, q.field, q.having)
    BY <2>3 DEF MongoAggregate
  <2>5. answer = SqlAggregate(Rows, FromMemory, q.by, q.op, q.field, q.having)
    <3>1. \A r \in found(Null) : HavingHolds(r.value, q.having) <=> Meets(r.value, q.having)
      BY <2>3 DEF HavingHolds, Meets
    <3>2. {r \in found(Null) : HavingHolds(r.value, q.having)} = {r \in found(Null) : Meets(r.value, q.having)}
      BY <3>1
    <3> QED
      BY <2>3, <3>2 DEF SqlAggregate
  <2> QED
    BY <2>4, <2>5
<1> QED
  BY <1>1, QueryInvariant, PTL
-----------------------------------------------------------------------------
(* Sorting *)

Ids == DOMAIN Unsorted

(* The criteria of the sort objects. *)
Criteria == UNION {{s[k] : k \in DOMAIN s} : s \in SortObjects}

(* Numbers as a criterion compares them. *)
Score(a, c) == IF c.dir = "asc" THEN a[c.key].val[1] ELSE -a[c.key].val[1]

LEMMA Scored ==
  ASSUME NEW c \in Criteria, NEW i \in Ids, NEW j \in Ids
  PROVE  /\ Score(Unsorted[i], c) \in Int /\ Score(Unsorted[j], c) \in Int
         /\ Before(Unsorted[i], Unsorted[j], c) <=> Score(Unsorted[i], c) < Score(Unsorted[j], c)
         /\ Score(Unsorted[i], c) = Score(Unsorted[j], c) => Unsorted[i][c.key] = Unsorted[j][c.key]
<1>1. PICK s \in SortObjects : \E k \in DOMAIN s : c = s[k]
  BY DEF Criteria
<1>2. IsNumber(Unsorted[i][c.key]) /\ IsNumber(Unsorted[j][c.key])
  BY <1>1, SortingAssumption DEF Ids
<1> DEFINE v == Unsorted[i][c.key]
           x == Unsorted[j][c.key]
<1>3. /\ v.type = "number" /\ x.type = "number"
      /\ v.val[1] \in Int /\ x.val[1] \in Int
      /\ v.val[1] = x.val[1] => v = x
  <2>1. \A w : IsNumber(w) => w.type = "number" /\ w.val[1] \in Int /\ w = Number(w.val[1])
    BY DEF IsNumber
  <2> QED
    BY <1>2, <2>1
<1>4. Score(Unsorted[i], c) = (IF c.dir = "asc" THEN v.val[1] ELSE -v.val[1])
      /\ Score(Unsorted[j], c) = (IF c.dir = "asc" THEN x.val[1] ELSE -x.val[1])
  BY DEF Score
<1>5. Before(Unsorted[i], Unsorted[j], c) <=>
        IF c.dir = "asc" THEN v.val[1] < x.val[1] ELSE x.val[1] < v.val[1]
  BY <1>3 DEF Before, Less
<1> HIDE DEF v, x
<1>6. CASE c.dir = "asc"
  BY <1>3, <1>4, <1>5, <1>6 DEF v, x
<1>7. CASE c.dir # "asc"
  BY <1>3, <1>4, <1>5, <1>7 DEF v, x
<1> QED
  BY <1>6, <1>7

SortTypeOK ==
  /\ sorts \in Seq(SortObjects) /\ objects \in 0..Len(sorts) /\ keys \in Nat
  /\ objects < Len(sorts) => keys < Len(sorts[Turn])
  /\ place \in [Ids -> Nat]

(* No two rows are at one place. *)
OwnPlaces == \A i \in Ids : \A j \in Ids : i # j => place[i] # place[j]

(* The criteria whose passes are over are respected. *)
CriteriaSoFar ==
  SingleKeys =>
    \A i \in Ids : \A j \in Ids : place[i] < place[j] =>
      \A c \in (Len(sorts) - objects + 1)..Len(sorts) : Before(Unsorted[j], Unsorted[i], sorts[c][1]) =>
        \E d \in (Len(sorts) - objects + 1)..(c - 1) :
          Unsorted[i][sorts[d][1].key] # Unsorted[j][sorts[d][1].key]

SortInv == SortTypeOK /\ OwnPlaces /\ CriteriaSoFar

(* What is ahead of a row that is ahead of another one is ahead of it. *)
LEMMA AheadOfAhead ==
  ASSUME SortTypeOK, OwnPlaces, NEW c \in Criteria, NEW i \in Ids
  PROVE  /\ i \notin Ahead(i, c)
         /\ \A j \in Ids : j # i => j \in Ahead(i, c) \/ i \in Ahead(j, c)
         /\ \A j \in Ahead(i, c) : Ahead(j, c) \subseteq Ahead(i, c)
<1> DEFINE S(j) == Score(Unsorted[j], c)
<1>1. \A j \in Ids : S(j) \in Int /\ place[j] \in Nat
  BY Scored DEF SortTypeOK
<1>2. \A j \in Ids : \A k \in Ids : j \in Ahead(k, c) <=> S(j) < S(k) \/ (place[j] < place[k] /\ ~(S(k) < S(j)))
  BY Scored DEF Ahead, Ids
<1>3. \A k \in Ids : Ahead(k, c) \subseteq Ids
  BY DEF Ahead, Ids
<1> HIDE DEF S
<1>4. i \notin Ahead(i, c)
  BY <1>1, <1>2
<1>5. ASSUME NEW j \in Ids, j # i  PROVE j \in Ahead(i, c) \/ i \in Ahead(j, c)
  BY <1>1, <1>2, <1>5 DEF OwnPlaces
<1>6. ASSUME NEW j \in Ahead(i, c), NEW k \in Ahead(j, c)  PROVE k \in Ahead(i, c)
  <2>1. j \in Ids /\ k \in Ids
    BY <1>3
  <2>2. S(i) \in Int /\ S(j) \in Int /\ S(k) \in Int /\ place[i] \in Nat /\ place[j] \in Nat /\ place[k] \in Nat
    BY <1>1, <2>1
  <2>3. /\ S(j) < S(i) \/ (place[j] < place[i] /\ ~(S(i) < S(j)))
        /\ S(k) < S(j) \/ (place[k] < place[j] /\ ~(S(j) < S(k)))
    BY <1>2, <2>1
  <2>4. S(k) < S(i) \/ (place[k] < place[i] /\ ~(S(i) < S(k)))
    BY <2>2, <2>3
  <2> QED
    BY <1>2, <2>1, <2>4
<1> QED
  BY <1>4, <1>5, <1>6

(* A pass puts a row behind the rows ahead of it. *)
LEMMA PassPlaces ==
  ASSUME SortTypeOK, OwnPlaces, NEW c \in Criteria,
         place' = [i \in Ids |-> Cardinality(Ahead(i, c)) + 1]
  PROVE  /\ place' \in [Ids -> Nat]
         /\ \A i \in Ids : \A j \in Ids : j \in Ahead(i, c) => place'[j] < place'[i]
         /\ \A i \in Ids : \A j \in Ids : i # j => place'[i] # place'[j]
<1>1. IsFiniteSet(Ids)
  <2>1. Len(Unsorted) \in Nat /\ Ids = 1..Len(Unsorted)
    BY SortingAssumption DEF Ids
  <2> QED
    BY <2>1, FS_Interval
<1>2. ASSUME NEW i \in Ids  PROVE IsFiniteSet(Ahead(i, c)) /\ Cardinality(Ahead(i, c)) \in Nat
  <2>1. Ahead(i, c) \in SUBSET Ids
    BY DEF Ahead, Ids
  <2> QED
    BY <1>1, <2>1, FS_Subset, FS_CardinalityType
<1>3. ASSUME NEW i \in Ids, NEW j \in Ids, j \in Ahead(i, c)
      PROVE  Cardinality(Ahead(j, c)) < Cardinality(Ahead(i, c))
  <2>1. Ahead(j, c) \in SUBSET Ahead(i, c) /\ j \notin Ahead(j, c)
    BY <1>3, AheadOfAhead
  <2>2. Ahead(j, c) # Ahead(i, c)
    BY <1>3, <2>1
  <2>3. /\ IsFiniteSet(Ahead(i, c))
        /\ Cardinality(Ahead(i, c)) \in Nat /\ Cardinality(Ahead(j, c)) \in Nat
    BY <1>2
  <2>4. /\ Cardinality(Ahead(j, c)) <= Cardinality(Ahead(i, c))
        /\ Cardinality(Ahead(i, c)) = Cardinality(Ahead(j, c)) => Ahead(i, c) = Ahead(j, c)
    BY <2>1, <2>3, FS_Subset
  <2> QED
    BY <2>2, <2>3, <2>4
<1>4. \A i \in Ids : place'[i] = Cardinality(Ahead(i, c)) + 1
  OBVIOUS
<1>5. \A i \in Ids : \A j \in Ids : j \in Ahead(i, c) => place'[j] < place'[i]
  BY <1>2, <1>3, <1>4
<1>6. place' \in [Ids -> Nat]
  BY <1>2
<1>7. ASSUME NEW i \in Ids, NEW j \in Ids, i # j  PROVE place'[i] # place'[j]
  <2>1. j \in Ahead(i, c) \/ i \in Ahead(j, c)
    BY <1>7, AheadOfAhead
  <2>2. place'[i] \in Nat /\ place'[j] \in Nat
    BY <1>6
  <2> QED
    BY <1>5, <2>1, <2>2
<1> QED
  BY <1>5, <1>6, <1>7

LEMMA SortingBegins == NotSorted => SortInv
<1> SUFFICES ASSUME NotSorted  PROVE SortInv
  OBVIOUS
<1>1. PICK n \in 0..MaxSorts : sorts \in [1..n -> SortObjects]
  BY DEF NotSorted
<1>2. sorts \in Seq(SortObjects) /\ Len(sorts) = n /\ n \in Nat
  BY <1>1, SortingAssumption
<1>3. objects = 0 /\ keys = 0 /\ place = [i \in Ids |-> i]
  BY DEF NotSorted, Ids
<1>4. Ids \subseteq Nat
  BY SortingAssumption DEF Ids
<1>5. \A o \in 1..Len(sorts) : Len(sorts[o]) \in Nat \ {0}
  BY <1>2, SortingAssumption
<1>6. SortTypeOK
  <2>1. objects < Len(sorts) => keys < Len(sorts[Turn])
    BY <1>2, <1>3, <1>5 DEF Turn
  <2> QED
    BY <1>2, <1>3, <1>4, <2>1 DEF SortTypeOK
<1>7. OwnPlaces
  BY <1>3 DEF OwnPlaces
<1>8. CriteriaSoFar
  <2>1. (Len(sorts) - objects + 1)..Len(sorts) = {}
    BY <1>2, <1>3
  <2> QED
    BY <2>1 DEF CriteriaSoFar
<1> QED
  BY <1>6, <1>7, <1>8 DEF SortInv

LEMMA PassMade ==
  ASSUME SortInv, Pass
  PROVE  SortInv'
<1> DEFINE t == Turn
           c == sorts[t][keys + 1]
<1>1. /\ sorts \in Seq(SortObjects) /\ objects \in 0..Len(sorts) /\ keys \in Nat /\ Len(sorts) \in Nat
      /\ objects < Len(sorts) /\ keys < Len(sorts[t]) /\ place \in [Ids -> Nat]
  BY DEF SortInv, SortTypeOK, Pass
<1>2. /\ place' = [i \in Ids |-> Cardinality(Ahead(i, c)) + 1]
      /\ IF keys + 1 = Len(sorts[t]) THEN objects' = objects + 1 /\ keys' = 0
                                     ELSE keys' = keys + 1 /\ objects' = objects
      /\ sorts' = sorts
  BY DEF Pass, Ids
<1>3. t \in 1..Len(sorts) /\ t = Len(sorts) - objects
  BY <1>1 DEF Turn
<1>4. \A o \in 1..Len(sorts) :
        sorts[o] \in SortObjects /\ Len(sorts[o]) \in Nat \ {0} /\ DOMAIN sorts[o] = 1..Len(sorts[o])
  BY <1>1, SortingAssumption
<1>5. \A o \in 1..Len(sorts) : \A k \in 1..Len(sorts[o]) : sorts[o][k] \in Criteria
  BY <1>4 DEF Criteria
<1>6. c \in Criteria
  <2>1. keys + 1 \in 1..Len(sorts[t])
    BY <1>1, <1>3, <1>4
  <2> QED
    BY <1>3, <1>5, <2>1
<1>7. /\ place' \in [Ids -> Nat]
      /\ \A i \in Ids : \A j \in Ids : j \in Ahead(i, c) => place'[j] < place'[i]
      /\ \A i \in Ids : \A j \in Ids : i # j => place'[i] # place'[j]
  BY <1>2, <1>6, PassPlaces DEF SortInv
<1>8. SortTypeOK'
  <2>1. CASE keys + 1 = Len(sorts[t])
    <3>1. objects' = objects + 1 /\ keys' = 0
      BY <1>2, <2>1
    <3>2. objects' < Len(sorts') => Turn' \in 1..Len(sorts)
      BY <1>1, <1>2, <3>1 DEF Turn
    <3>3. objects' < Len(sorts') => keys' < Len(sorts'[Turn'])
      BY <1>2, <1>4, <3>1, <3>2
    <3> QED
      BY <1>1, <1>2, <1>7, <3>1, <3>3 DEF SortTypeOK
  <2>2. CASE keys + 1 # Len(sorts[t])
    <3>1. objects' = objects /\ keys' = keys + 1
      BY <1>2, <2>2
    <3>2. Turn' = t
      BY <1>2, <3>1 DEF Turn
    <3>3. keys' < Len(sorts'[Turn']) /\ keys' \in Nat
      BY <1>1, <1>2, <1>3, <1>4, <2>2, <3>1, <3>2
    <3> QED
      BY <1>1, <1>2, <1>7, <3>1, <3>3 DEF SortTypeOK
  <2> QED
    BY <2>1, <2>2
<1>9. OwnPlaces'
  BY <1>7 DEF OwnPlaces
<1>10. CriteriaSoFar'
  <2> DEFINE k(d) == sorts[d][1].key
  <2> SUFFICES ASSUME SingleKeys', NEW i \in Ids, NEW j \in Ids, place'[i] < place'[j],
                      NEW e \in (Len(sorts') - objects' + 1)..Len(sorts'),
                      Before(Unsorted[j], Unsorted[i], sorts'[e][1])
               PROVE  \E d \in (Len(sorts') - objects' + 1)..(e - 1) :
                        Unsorted[i][sorts'[d][1].key] # Unsorted[j][sorts'[d][1].key]
    BY DEF CriteriaSoFar
  <2>1. SingleKeys
    BY <1>2 DEF SingleKeys
  <2>2. Len(sorts[t]) = 1
    <3>1. t \in DOMAIN sorts
      BY <1>1, <1>3
    <3> QED
      BY <2>1, <3>1 DEF SingleKeys
  <2>3. keys = 0 /\ objects' = objects + 1
    BY <1>1, <1>2, <2>2
  <2>4. c = sorts[t][1] /\ Len(sorts') - objects' + 1 = t
    BY <1>1, <1>2, <1>3, <2>3
  <2>5. j \notin Ahead(i, c) /\ j # i
    <3>1. place'[i] \in Nat /\ place'[j] \in Nat
      BY <1>7
    <3> QED
      BY <1>7, <3>1
  <2>6. ~Before(Unsorted[j], Unsorted[i], c) /\ (place[j] < place[i] => Before(Unsorted[i], Unsorted[j], c))
    BY <2>5 DEF Ahead, Ids
  <2>7. e \in t..Len(sorts) /\ e # t /\ Before(Unsorted[j], Unsorted[i], sorts[e][1])
    BY <1>2, <2>4, <2>6
  <2>8. CASE Unsorted[i][c.key] # Unsorted[j][c.key]
    <3>1. t \in t..(e - 1)
      BY <1>1, <1>3, <2>7
    <3> QED
      BY <1>2, <2>4, <2>8, <3>1
  <2>9. CASE Unsorted[i][c.key] = Unsorted[j][c.key]
    <3>1. ~Before(Unsorted[i], Unsorted[j], c)
      <4>1. Score(Unsorted[i], c) = Score(Unsorted[j], c) /\ Score(Unsorted[i], c) \in Int
        BY <1>6, <2>9, Scored DEF Score
      <4> QED
        BY <1>6, <4>1, Scored
    <3>2. place[i] < place[j]
      <4>1. place[i] \in Nat /\ place[j] \in Nat /\ place[i] # place[j]
        BY <1>1, <2>5 DEF SortInv, OwnPlaces
      <4> QED
        BY <2>6, <3>1, <4>1
    <3>3. e \in (Len(sorts) - objects + 1)..Len(sorts)
      BY <1>1, <1>3, <2>7
    <3>4. PICK d \in (Len(sorts) - objects + 1)..(e - 1) : Unsorted[i][k(d)] # Unsorted[j][k(d)]
      BY <2>1, <2>7, <3>2, <3>3 DEF SortInv, CriteriaSoFar
    <3>5. d \in t..(e - 1)
      BY <1>1, <1>3, <3>4
    <3> QED
      BY <1>2, <2>4, <3>4, <3>5
  <2> QED
    BY <2>8, <2>9
<1> QED
  BY <1>8, <1>9, <1>10 DEF SortInv

THEOREM SortingInvariant == SortingSpec => []SortInv
<1>1. SortInv /\ [Pass]_sorting => SortInv'
  <2>1. SortInv /\ UNCHANGED sorting => SortInv'
    BY DEF sorting, SortInv, SortTypeOK, OwnPlaces, CriteriaSoFar, SingleKeys, Turn
  <2> QED
    BY <2>1, PassMade
<1> QED
  BY <1>1, SortingBegins, PTL DEF SortingSpec

THEOREM CriteriaAlwaysInOrder == SortingSpec => []CriteriaInOrder
<1>1. SortInv => CriteriaInOrder
  <2> SUFFICES ASSUME SortInv, objects = Len(sorts), SingleKeys,
                      NEW i \in Ids, NEW j \in Ids, place[i] < place[j],
                      NEW c \in DOMAIN sorts, Before(Unsorted[j], Unsorted[i], sorts[c][1])
               PROVE  \E d \in 1..(c - 1) : Unsorted[i][sorts[d][1].key] # Unsorted[j][sorts[d][1].key]
    BY DEF CriteriaInOrder, Ids
  <2>1. Len(sorts) \in Nat /\ DOMAIN sorts = 1..Len(sorts) /\ Len(sorts) - objects + 1 = 1
    BY DEF SortInv, SortTypeOK
  <2> QED
    BY <2>1 DEF SortInv, CriteriaSoFar
<1> QED
  BY <1>1, SortingInvariant, PTL

-----------------------------------------------------------------------------
(* Paths *)

LEMMA Path ==
  ASSUME NEW p \in SchemaFields
  PROVE  /\ Len(p) \in Nat \ {0} /\ DOMAIN p = 1..Len(p)
         /\ p = [j \in 1..Len(p) |-> p[j]]
<1>1. p \in Seq({p[i] : i \in DOMAIN p}) /\ p # <<>>
  BY PathsAssumption
<1> QED
  BY <1>1

LEMMA Prefix ==
  ASSUME NEW p \in SchemaFields, NEW i \in 1..Len(p)
  PROVE  SubSeq(p, 1, i) = [j \in 1..i |-> p[j]] /\ Len(SubSeq(p, 1, i)) = i
<1> DEFINE S == {p[j] : j \in DOMAIN p}
           s == SubSeq(p, 1, i)
<1>1. Len(p) \in Nat /\ DOMAIN p = 1..Len(p)
  BY Path
<1>2. \A j \in 1..i : p[j] \in S
  BY <1>1
<1>3. i \in Int /\ 1 \in Int
  BY <1>1
<1>4. s \in Seq(S) /\ Len(s) = i /\ \A j \in 1..i : s[j] = p[j]
  <2>1. /\ s \in Seq(S)
        /\ Len(s) = IF 1 <= i THEN i - 1 + 1 ELSE 0
        /\ \A j \in 1..(i - 1 + 1) : s[j] = p[1 + j - 1]
    BY <1>2, <1>3, SubSeqProperties
  <2> QED
    BY <2>1, <1>3
<1>5. s = [j \in 1..i |-> s[j]]
  BY <1>4
<1> QED
  BY <1>4, <1>5

LEMMA AbovePath ==
  ASSUME NEW p \in SchemaFields, NEW q \in Above(p)
  PROVE  /\ q \in Embeddeds /\ q \in SchemaFields
         /\ Len(q) \in 1..(Len(p) - 1) /\ q = SubSeq(p, 1, Len(q))
         /\ \A j \in 1..Len(q) : q[j] = p[j]
<1>1. Len(p) \in Nat \ {0}
  BY Path
<1>2. PICK i \in 1..(Len(p) - 1) : q = SubSeq(p, 1, i)
  BY DEF Above
<1>3. i \in 1..Len(p)
  BY <1>1, <1>2
<1>4. q = [j \in 1..i |-> p[j]] /\ Len(q) = i
  BY <1>2, <1>3, Prefix
<1>5. q \in Embeddeds
  BY DocumentsAssumption
<1> QED
  BY <1>2, <1>4, <1>5 DEF SchemaFields

LEMMA PathAbove ==
  ASSUME NEW p \in SchemaFields, NEW q \in SchemaFields, Len(q) < Len(p),
         \A j \in 1..Len(q) : q[j] = p[j]
  PROVE  q \in Above(p)
<1>1. Len(p) \in Nat \ {0} /\ Len(q) \in Nat \ {0} /\ q = [j \in 1..Len(q) |-> q[j]]
  BY Path
<1>2. Len(q) \in 1..Len(p) /\ Len(q) \in 1..(Len(p) - 1)
  BY <1>1
<1>3. SubSeq(p, 1, Len(q)) = [j \in 1..Len(q) |-> p[j]]
  BY <1>2, Prefix
<1>4. q = SubSeq(p, 1, Len(q))
  BY <1>1, <1>3
<1> QED
  BY <1>2, <1>4 DEF Above

LEMMA NotAboveItself == \A p \in SchemaFields : p \notin Above(p)
BY AbovePath, Path

LEMMA AboveAbove ==
  ASSUME NEW p \in SchemaFields, NEW q \in Above(p), NEW r \in Above(q)
  PROVE  r \in Above(p)
<1>1. q \in SchemaFields /\ Len(q) \in 1..(Len(p) - 1) /\ \A j \in 1..Len(q) : q[j] = p[j]
  BY AbovePath
<1>2. r \in SchemaFields /\ Len(r) \in 1..(Len(q) - 1) /\ \A j \in 1..Len(r) : r[j] = q[j]
  BY <1>1, AbovePath
<1>3. Len(p) \in Nat
  BY Path
<1> QED
  BY <1>1, <1>2, <1>3, PathAbove

(* Of two objects around a field, one is around the other. *)
LEMMA AboveInLine ==
  ASSUME NEW p \in SchemaFields, NEW q \in Above(p) \cup {p}, NEW r \in Above(p) \cup {p}
  PROVE  q = r \/ q \in Above(r) \/ r \in Above(q)
<1>1. /\ q \in SchemaFields /\ Len(q) \in 1..Len(p) /\ \A j \in 1..Len(q) : q[j] = p[j]
      /\ r \in SchemaFields /\ Len(r) \in 1..Len(p) /\ \A j \in 1..Len(r) : r[j] = p[j]
      /\ Len(p) \in Nat
  BY AbovePath, Path
<1>2. CASE Len(q) < Len(r)
  BY <1>1, <1>2, PathAbove
<1>3. CASE Len(r) < Len(q)
  BY <1>1, <1>3, PathAbove
<1>4. CASE Len(q) = Len(r)
  <2>1. q = [j \in 1..Len(q) |-> q[j]] /\ r = [j \in 1..Len(r) |-> r[j]]
    BY <1>1, Path
  <2> QED
    BY <1>1, <1>4, <2>1
<1> QED
  BY <1>1, <1>2, <1>3, <1>4

LEMMA LeafIsBottom == \A l \in Leaves, p \in SchemaFields : l \notin Above(p)
BY AbovePath, DocumentsAssumption

-----------------------------------------------------------------------------
(* Names in the database *)

LEMMA DbSame == \A p, q \in SchemaFields : DbPath(p) = DbPath(q) => p = q
BY PathsAssumption

LEMMA FieldAtDbPath == \A p \in SchemaFields : FieldAt(DbPath(p)) = p
BY DbSame DEF FieldAt

LEMMA DbAbove ==
  ASSUME NEW p \in SchemaFields
  PROVE  Above(DbPath(p)) = {DbPath(q) : q \in Above(p)}
<1> DEFINE d == DbPath(p)
           T == {d[j] : j \in 1..Len(p)}
<1>1. Len(p) \in Nat \ {0} /\ DOMAIN p = 1..Len(p)
  BY Path
<1>2. d = [i \in 1..Len(p) |-> Alias[SubSeq(p, 1, i)]]
  BY <1>1 DEF DbPath
<1>3. d \in Seq(T) /\ Len(d) = Len(p)
  BY <1>1, <1>2
<1>4. ASSUME NEW i \in 1..(Len(p) - 1)
      PROVE  SubSeq(d, 1, i) = DbPath(SubSeq(p, 1, i))
  <2> DEFINE q == SubSeq(p, 1, i)
             s == SubSeq(d, 1, i)
  <2>1. i \in 1..Len(p) /\ i \in Int /\ 1 \in Int
    BY <1>1
  <2>2. q \in Above(p)
    BY DEF Above
  <2>3. q = [j \in 1..i |-> p[j]] /\ Len(q) = i /\ q \in SchemaFields
    BY <2>1, <2>2, Prefix, AbovePath
  <2>4. \A j \in 1..i : d[j] \in T
    BY <2>1
  <2>5. s = [j \in 1..i |-> d[j]]
    <3>1. /\ s \in Seq(T)
          /\ Len(s) = IF 1 <= i THEN i - 1 + 1 ELSE 0
          /\ \A j \in 1..(i - 1 + 1) : s[j] = d[1 + j - 1]
      <4> HIDE DEF d, T
      <4> QED BY <2>1, <2>4, SubSeqProperties
    <3> HIDE DEF d, T, s
    <3> QED
      BY <2>1, <3>1
  <2>6. ASSUME NEW j \in 1..i PROVE SubSeq(q, 1, j) = SubSeq(p, 1, j)
    <3>1. j \in 1..Len(q) /\ j \in 1..Len(p)
      BY <2>1, <2>3
    <3>2. SubSeq(q, 1, j) = [k \in 1..j |-> q[k]] /\ SubSeq(p, 1, j) = [k \in 1..j |-> p[k]]
      BY <3>1, <2>3, Prefix
    <3> QED
      BY <3>2, <3>1, <2>3, <2>1
  <2>7. DbPath(q) = [j \in 1..i |-> Alias[SubSeq(p, 1, j)]]
    <3>1. DOMAIN q = 1..i
      BY <2>3
    <3> QED
      BY <3>1, <2>6 DEF DbPath
  <2>8. \A j \in 1..i : d[j] = Alias[SubSeq(p, 1, j)]
    BY <1>2, <2>1
  <2> QED
    BY <2>5, <2>7, <2>8
<1>5. Above(d) = {SubSeq(d, 1, i) : i \in 1..(Len(p) - 1)}
  BY <1>3 DEF Above
<1>6. \A i \in 1..(Len(p) - 1) : SubSeq(d, 1, i) = DbPath(SubSeq(p, 1, i))
  BY <1>4
<1>7. {DbPath(q) : q \in Above(p)} = {DbPath(SubSeq(p, 1, i)) : i \in 1..(Len(p) - 1)}
  BY DEF Above
<1> QED
  BY <1>5, <1>6, <1>7

(* What is around a field in the database is what is around it in the model. *)
LEMMA DbAboveIff ==
  \A p, q \in SchemaFields : DbPath(q) \in Above(DbPath(p)) <=> q \in Above(p)
<1> SUFFICES ASSUME NEW p \in SchemaFields, NEW q \in SchemaFields
             PROVE  DbPath(q) \in Above(DbPath(p)) <=> q \in Above(p)
  OBVIOUS
<1>1. Above(DbPath(p)) = {DbPath(r) : r \in Above(p)}
  BY DbAbove
<1>2. Above(p) \subseteq SchemaFields
  BY AbovePath
<1> QED
  BY <1>1, <1>2, DbSame

-----------------------------------------------------------------------------
(* Values and objects on both sides *)

ModelValues == Scalars \cup {NoValue, Obj}
DbScalars == {<<v>> : v \in Scalars} \cup {NoValue}
DbValues == DbScalars \cup {Obj}

LEMMA ValueConverted ==
  /\ \A v \in ModelValues : ModelToDB(v) \in DbValues /\ DbToModel(ModelToDB(v)) = v
  /\ \A v \in Scalars \cup {NoValue} : ModelToDB(v) \in DbScalars
  /\ \A v \in ModelValues : (ModelToDB(v) = NoValue => v = NoValue) /\ (ModelToDB(v) = Obj => v = Obj)
  /\ ModelToDB(NoValue) = NoValue /\ ModelToDB(Obj) = Obj
  /\ NoValue \notin Scalars /\ Obj \notin Scalars /\ NoValue # Obj
<1>1. NoValue \notin Scalars /\ Obj \notin Scalars /\ NoValue # Obj
  BY DocumentsAssumption, ValuesAssumption
<1>2. \A v \in Scalars : <<v>> # NoValue /\ <<v>> # Obj
  BY ValuesAssumption
<1>3. ModelToDB(NoValue) = NoValue /\ ModelToDB(Obj) = Obj
  BY <1>1 DEF ModelToDB
<1>4. \A v \in Scalars : ModelToDB(v) = <<v>>
  BY DEF ModelToDB
<1>5. DbToModel(NoValue) = NoValue /\ DbToModel(Obj) = Obj
  BY <1>2 DEF DbToModel
<1>6. \A v \in Scalars : DbToModel(<<v>>) = v
  BY DEF DbToModel
<1>7. \A v \in ModelValues : v \in Scalars \/ v = NoValue \/ v = Obj
  BY DEF ModelValues
<1>8. \A v \in ModelValues : ModelToDB(v) \in DbValues /\ DbToModel(ModelToDB(v)) = v
  BY <1>3, <1>4, <1>5, <1>6, <1>7 DEF DbValues, DbScalars
<1>9. \A v \in Scalars \cup {NoValue} : ModelToDB(v) \in DbScalars
  BY <1>3, <1>4 DEF DbScalars
<1>10. \A v \in ModelValues : (ModelToDB(v) = NoValue => v = NoValue) /\ (ModelToDB(v) = Obj => v = Obj)
  BY <1>1, <1>2, <1>3, <1>4, <1>7
<1> QED
  BY <1>1, <1>3, <1>8, <1>9, <1>10

LEMMA DbConverted ==
  \A w \in DbValues : DbToModel(w) \in ModelValues /\ ModelToDB(DbToModel(w)) = w
<1>1. ASSUME NEW w \in DbValues PROVE \E v \in ModelValues : w = ModelToDB(v)
  BY ValueConverted DEF DbValues, DbScalars, ModelValues, ModelToDB
<1> QED
  BY <1>1, ValueConverted

LEMMA EncodeAt ==
  ASSUME NEW obj, DOMAIN obj \subseteq SchemaFields
  PROVE  /\ \A p \in SchemaFields : DbPath(p) \in DOMAIN Encode(obj) <=> p \in DOMAIN obj
         /\ \A p \in DOMAIN obj : Encode(obj)[DbPath(p)] = ModelToDB(obj[p])
         /\ \A q \in DOMAIN Encode(obj) : \E p \in DOMAIN obj : q = DbPath(p)
BY DbSame, FieldAtDbPath DEF Encode

(* What a store has at a field of the schema. *)
At(x, p) == IF DbPath(p) \in DOMAIN x THEN x[DbPath(p)] ELSE NoValue

TypedDb(x) == \A p \in SchemaFields : DbPath(p) \in DOMAIN x => x[DbPath(p)] \in DbValues

LEMMA ReadAt ==
  ASSUME NEW y, TypedDb(y)
  PROVE  /\ Decode(y) # Failed
         /\ \A p \in SchemaFields : ValueAt(Decode(y), p) = DbToModel(At(y, p))
<1> DEFINE S == {x \in SchemaFields : DbPath(x) \in DOMAIN y}
<1>1. Decode(y) = [p \in S |-> DbToModel(y[DbPath(p)])]
  BY DEF Decode
<1>2. \A p \in S : DbToModel(y[DbPath(p)]) \in ModelValues
  BY DbConverted DEF TypedDb
<1>3. Decode(y) \in [S -> ModelValues]
  BY <1>1, <1>2
<1>4. S \in SUBSET SchemaFields
  OBVIOUS
<1>5. {Absent, Failed} \cap [S -> ModelValues] = {}
  <2> HIDE DEF S
  <2> QED BY <1>4, ValuesAssumption DEF ModelValues
<1>6. Decode(y) # Failed
  BY <1>3, <1>5
<1>7. DbToModel(NoValue) = NoValue
  BY ValueConverted DEF ModelValues
<1> QED
  BY <1>1, <1>6, <1>7 DEF ValueAt, At

LEMMA OverAt ==
  ASSUME NEW s, NEW w
  PROVE  /\ DOMAIN Over(s, w) = DOMAIN s \cup DOMAIN w
         /\ \A x \in DOMAIN s : Over(s, w)[x] = s[x]
         /\ \A x \in DOMAIN w \ DOMAIN s : Over(s, w)[x] = w[x]
BY DEF Over

LEMMA RestrictedAt ==
  ASSUME NEW f, NEW S
  PROVE  /\ DOMAIN Restricted(f, S) = DOMAIN f \cap S
         /\ \A x \in DOMAIN f \cap S : Restricted(f, S)[x] = f[x]
BY DEF Restricted

-----------------------------------------------------------------------------
(* What callers write *)

(* A field that is required, or given, like all fields around it, is there. *)
LEMMA GivenDownTo ==
  ASSUME NEW obj, NEW within, NEW required, Typed(obj, within, required),
         NEW l \in SchemaFields \cap within,
         \A q \in (Above(l) \cup {l}) \cap within :
           q \in required \/ (q \in DOMAIN obj /\ obj[q] # NoValue)
  PROVE  l \in DOMAIN obj /\ obj[l] # NoValue
<1> DEFINE Line == (Above(l) \cup {l}) \cap within
           Missed(q) == q \notin DOMAIN obj \/ obj[q] = NoValue
           Lengths == {Len(q) : q \in {x \in Line : Missed(x)}}
<1> SUFFICES ASSUME Missed(l) PROVE FALSE
  OBVIOUS
<1>1. \A q \in Line : q \in SchemaFields /\ Len(q) \in Nat
  BY AbovePath, Path
<1>2. Lengths \subseteq Nat /\ Lengths # {}
  BY <1>1
<1>3. PICK n \in Lengths : \A m \in Lengths : n <= m
  BY <1>2, Least
<1>4. PICK q \in Line : Missed(q) /\ n = Len(q)
  OBVIOUS
<1>5. ASSUME NEW r \in Above(q) \cap within
      PROVE  r \in DOMAIN obj /\ obj[r] = Obj
  <2>1. q \in SchemaFields /\ r \in Embeddeds /\ Len(r) < Len(q) /\ Len(r) \in Nat
    BY <1>1, AbovePath, Path
  <2>2. r \in Line
    BY <1>4, AboveAbove
  <2>3. ~Missed(r)
    <3> SUFFICES ASSUME Missed(r) PROVE FALSE
      OBVIOUS
    <3>1. Len(r) \in Lengths
      BY <2>2
    <3>2. n <= Len(r) /\ n \in Nat
      BY <3>1, <1>3, <1>2
    <3> QED
      BY <3>2, <2>1, <1>4
  <2>4. r \notin Leaves
    BY <2>1, DocumentsAssumption
  <2>5. obj[r] \in {Obj, NoValue}
    BY <2>3, <2>4 DEF Typed
  <2> QED
    BY <2>3, <2>5
<1>6. q \in required
  BY <1>4
<1>7. q \in DOMAIN obj /\ obj[q] # NoValue
  BY <1>4, <1>5, <1>6 DEF Typed
<1> QED
  BY <1>4, <1>7

LEMMA WithinIs ==
  ASSUME NEW k
  PROVE  \A p : p \in Within(k) <=> p \in SchemaFields /\ (p = k \/ k \in Above(p))
BY DEF Within

(* Dropping keys leaves an update, whose keys are not null where they are required. *)
LEMMA NullsIgnored ==
  ASSUME NEW c, IsUpdate(c)
  PROVE  /\ IsUpdate(IgnoreNulls(c))
         /\ \A k \in IgnoreNulls(c).keys \cap Required : IgnoreNulls(c).to[k] # NoValue
<1> DEFINE K == {k \in c.keys : c.to[k] # NoValue \/ k \notin Required}
           W == Touched(c.keys)
           V == Touched(K)
           d == IgnoreNulls(c)
<1>1. d.keys = K /\ d.to = Restricted(c.to, V)
  BY DEF IgnoreNulls
<1>2. /\ c.keys \subseteq SchemaFields /\ \A k, l \in c.keys : k \notin Above(l)
      /\ c.keys \subseteq DOMAIN c.to
      /\ Typed(c.to, W, Required \ c.keys)
  BY DEF IsUpdate
<1>3. V \subseteq W /\ W \subseteq SchemaFields /\ K \subseteq V
  BY <1>2 DEF Touched, Within
<1>4. DOMAIN d.to = DOMAIN c.to \cap V /\ \A p \in DOMAIN d.to : d.to[p] = c.to[p]
  <2>1. DOMAIN Restricted(c.to, V) = DOMAIN c.to \cap V
    BY RestrictedAt
  <2>2. \A p \in DOMAIN c.to \cap V : Restricted(c.to, V)[p] = c.to[p]
    BY RestrictedAt
  <2> HIDE DEF V, d
  <2> QED BY <1>1, <2>1, <2>2
<1>5. K \subseteq DOMAIN d.to /\ \A k \in K \cap Required : d.to[k] # NoValue
  BY <1>2, <1>3, <1>4
<1>6. ASSUME NEW p \in V, NEW q \in Above(p) \cap W
      PROVE  q \in V
  <2>1. PICK k \in K : p \in Within(k)
    BY DEF Touched
  <2>2. PICK l \in c.keys : q \in Within(l)
    BY DEF Touched
  <2>3. p \in SchemaFields /\ k \in Above(p) \cup {p} /\ q \in SchemaFields /\ l \in Above(q) \cup {q}
    BY <2>1, <2>2, WithinIs
  <2>4. l \in Above(p)
    BY <2>3, AboveAbove
  <2>5. l = k
    BY <2>3, <2>4, <1>2, AboveInLine
  <2> QED
    BY <2>2, <2>5 DEF Touched
<1>7. ASSUME NEW p \in V, p \notin K
      PROVE  p \notin c.keys
  <2>1. PICK k \in K : p \in Within(k)
    BY DEF Touched
  <2> QED
    BY <2>1, <1>7, <1>2, WithinIs
<1>8. \A p \in DOMAIN d.to :
        /\ d.to[p] \in IF p \in Leaves THEN Scalars \cup {NoValue} ELSE {Obj, NoValue}
        /\ \A q \in Above(p) \cap V : q \in DOMAIN d.to /\ d.to[q] = Obj
  BY <1>2, <1>3, <1>4 DEF Typed
<1>9. ASSUME NEW p \in V \cap (Required \ K),
             \A q \in Above(p) \cap V : q \in DOMAIN d.to /\ d.to[q] = Obj
      PROVE  p \in DOMAIN d.to /\ d.to[p] # NoValue
  <2>1. p \in W \cap (Required \ c.keys)
    BY <1>3, <1>7
  <2>2. \A q \in Above(p) \cap W : q \in DOMAIN c.to /\ c.to[q] = Obj
    BY <1>4, <1>6, <1>9
  <2>3. p \in DOMAIN c.to /\ c.to[p] # NoValue
    BY <1>2, <2>1, <2>2 DEF Typed
  <2> QED
    BY <2>3, <1>4
<1>10. Typed(d.to, V, Required \ K)
  BY <1>4, <1>8, <1>9 DEF Typed
<1> QED
  BY <1>1, <1>2, <1>5, <1>10 DEF IsUpdate

(* The fields of a record or of changes that are required all the way down. *)
Needed == {x \in Leaves \cap Required : Above(x) \subseteq Required}

LEMMA NeededInRecord ==
  ASSUME NEW r \in Records, NEW l \in Needed
  PROVE  l \in DOMAIN r /\ r[l] \in Scalars
<1>1. Typed(r, SchemaFields, Required)
  BY CallersAssumption
<1>2. l \in SchemaFields /\ l \in Leaves /\ \A q \in Above(l) \cup {l} : q \in Required
  BY DEF Needed, SchemaFields
<1>3. l \in DOMAIN r /\ r[l] # NoValue
  BY <1>1, <1>2, GivenDownTo
<1> QED
  BY <1>1, <1>2, <1>3 DEF Typed

RecordFields(r) ==
  /\ DOMAIN r \subseteq SchemaFields
  /\ \A p \in DOMAIN r : r[p] \in ModelValues
  /\ \A l \in DOMAIN r \cap Leaves : r[l] \in Scalars \cup {NoValue}

LEMMA RecordTyped == \A r \in Records : RecordFields(r)
BY CallersAssumption DEF Typed, RecordFields, ModelValues

(* An update as it reaches the driver. *)
Update(c) == IsUpdate(c) /\ \A k \in c.keys \cap Required : c.to[k] # NoValue

LEMMA UpdateFields ==
  ASSUME NEW c, Update(c)
  PROVE  /\ c.keys \subseteq DOMAIN c.to /\ c.keys \subseteq SchemaFields
         /\ RecordFields(c.to)
         /\ \A p \in DOMAIN c.to : \E k \in c.keys : p \in Within(k)
         /\ \A p \in DOMAIN c.to : \A k \in c.keys : p \notin Above(k)
         /\ \A l \in Needed : (\E k \in c.keys : l \in Within(k)) => l \in DOMAIN c.to /\ c.to[l] # NoValue
<1> DEFINE W == Touched(c.keys)
<1>1. /\ c.keys \subseteq SchemaFields /\ \A k, l \in c.keys : k \notin Above(l)
      /\ c.keys \subseteq DOMAIN c.to
      /\ Typed(c.to, W, Required \ c.keys)
      /\ \A k \in c.keys \cap Required : c.to[k] # NoValue
  BY DEF Update, IsUpdate
<1>2. W \subseteq SchemaFields
  BY DEF Touched, Within
<1>3. RecordFields(c.to)
  BY <1>1, <1>2 DEF Typed, RecordFields, ModelValues
<1>4. \A p \in DOMAIN c.to : \E k \in c.keys : p \in Within(k)
  BY <1>1 DEF Typed, Touched
<1>5. ASSUME NEW p \in DOMAIN c.to, NEW k \in c.keys, p \in Above(k)
      PROVE  FALSE
  <2>1. PICK l \in c.keys : p = l \/ l \in Above(p)
    BY <1>4, WithinIs
  <2>2. l \in Above(k)
    BY <2>1, <1>1, <1>5, AboveAbove
  <2> QED
    BY <2>2, <1>1
<1>6. ASSUME NEW l \in Needed, NEW k \in c.keys, l \in Within(k)
      PROVE  l \in DOMAIN c.to /\ c.to[l] # NoValue
  <2>1. l \in SchemaFields \cap W
    BY <1>6, WithinIs DEF Touched
  <2>2. \A q \in (Above(l) \cup {l}) \cap W :
          q \in Required \ c.keys \/ (q \in DOMAIN c.to /\ c.to[q] # NoValue)
    BY <1>1 DEF Needed
  <2> HIDE DEF W
  <2> QED
    BY <1>1, <2>1, <2>2, GivenDownTo
<1> QED
  BY <1>1, <1>3, <1>4, <1>5, <1>6

-----------------------------------------------------------------------------
(* In memory *)

LEMMA ChangesObjectFields ==
  ASSUME NEW c, Update(c)
  PROVE  LET obj == ChangesObject(c) IN
         /\ DOMAIN obj = DOMAIN c.to \cup UNION {Above(k) : k \in c.keys}
         /\ DOMAIN obj \subseteq SchemaFields
         /\ \A p \in DOMAIN obj : obj[p] \in ModelValues
         /\ \A p \in DOMAIN c.to : obj[p] = c.to[p]
         /\ \A k \in c.keys : \A q \in Above(k) : obj[q] = Obj
<1> DEFINE ways == UNION {Above(k) : k \in c.keys}
           made == [p \in ways |-> Obj]
           obj == ChangesObject(c)
<1>1. /\ c.keys \subseteq SchemaFields /\ RecordFields(c.to)
      /\ \A p \in DOMAIN c.to : \A k \in c.keys : p \notin Above(k)
  BY UpdateFields
<1>2. obj = Over(c.to, made) /\ DOMAIN made = ways
  BY DEF ChangesObject
<1>3. /\ DOMAIN obj = DOMAIN c.to \cup ways
      /\ \A x \in DOMAIN c.to : obj[x] = c.to[x]
      /\ \A x \in ways \ DOMAIN c.to : obj[x] = made[x]
  <2> DEFINE new == c.to
  <2>1. obj = Over(new, made)
    BY <1>2
  <2> HIDE DEF obj, made, ways, new
  <2>2. /\ DOMAIN obj = DOMAIN new \cup ways
        /\ \A x \in DOMAIN new : obj[x] = new[x]
        /\ \A x \in ways \ DOMAIN new : obj[x] = made[x]
    BY <1>2, <2>1 DEF Over
  <2> QED BY <2>2 DEF new
<1>4. ways \subseteq SchemaFields
  BY <1>1, AbovePath
<1>5. \A k \in c.keys : \A q \in Above(k) : obj[q] = Obj
  <2>1. ways \cap DOMAIN c.to = {}
    BY <1>1
  <2>2. \A q \in ways : obj[q] = Obj
    BY <1>3, <2>1
  <2> QED
    BY <2>2
<1>6. \A p \in DOMAIN obj : obj[p] \in ModelValues
  BY <1>1, <1>3, <1>5 DEF RecordFields, ModelValues
<1> QED
  BY <1>1, <1>3, <1>4, <1>5, <1>6 DEF RecordFields

(* A merge, field by field. *)
LEMMA MergedAt ==
  ASSUME NEW weak, NEW obj, DOMAIN obj \subseteq SchemaFields,
         \A p \in DOMAIN obj : obj[p] \in ModelValues
  PROVE  LET merged == MergeInto(weak, Encode(obj)) IN
         /\ \A p \in DOMAIN obj : DbPath(p) \in DOMAIN merged /\ merged[DbPath(p)] = ModelToDB(obj[p])
         /\ \A p \in SchemaFields \ DOMAIN obj :
              /\ DbPath(p) \in DOMAIN merged <=>
                   DbPath(p) \in DOMAIN weak /\ \A r \in Above(p) \cap DOMAIN obj : obj[r] = Obj
              /\ DbPath(p) \in DOMAIN merged => merged[DbPath(p)] = weak[DbPath(p)]
<1> DEFINE strong == Encode(obj)
           reachable == {q \in DOMAIN weak : \A r \in Above(q) \cap DOMAIN strong : strong[r] = Obj}
           rest == Restricted(weak, reachable)
           merged == MergeInto(weak, strong)
<1>1. /\ \A p \in SchemaFields : DbPath(p) \in DOMAIN strong <=> p \in DOMAIN obj
      /\ \A p \in DOMAIN obj : strong[DbPath(p)] = ModelToDB(obj[p])
      /\ \A q \in DOMAIN strong : \E p \in DOMAIN obj : q = DbPath(p)
  BY EncodeAt
<1>2. merged = Over(strong, rest)
  BY DEF MergeInto
<1>3. /\ DOMAIN rest = reachable
      /\ \A x \in reachable : rest[x] = weak[x]
  <2>1. DOMAIN Restricted(weak, reachable) = DOMAIN weak \cap reachable
    BY RestrictedAt
  <2>2. \A x \in DOMAIN weak \cap reachable : Restricted(weak, reachable)[x] = weak[x]
    BY RestrictedAt
  <2>3. DOMAIN weak \cap reachable = reachable
    OBVIOUS
  <2> HIDE DEF reachable
  <2> QED BY <2>1, <2>2, <2>3
<1>4. /\ DOMAIN merged = DOMAIN strong \cup reachable
      /\ \A x \in DOMAIN strong : merged[x] = strong[x]
      /\ \A x \in reachable \ DOMAIN strong : merged[x] = weak[x]
  <2>1. /\ DOMAIN Over(strong, rest) = DOMAIN strong \cup DOMAIN rest
        /\ \A x \in DOMAIN strong : Over(strong, rest)[x] = strong[x]
        /\ \A x \in DOMAIN rest \ DOMAIN strong : Over(strong, rest)[x] = rest[x]
    BY OverAt
  <2> HIDE DEF merged, strong, rest, reachable
  <2> QED BY <1>2, <1>3, <2>1
<1>5. ASSUME NEW p \in SchemaFields
      PROVE  DbPath(p) \in reachable <=>
               DbPath(p) \in DOMAIN weak /\ \A r \in Above(p) \cap DOMAIN obj : obj[r] = Obj
  <2>1. Above(DbPath(p)) \cap DOMAIN strong = {DbPath(r) : r \in Above(p) \cap DOMAIN obj}
    <3>1. Above(DbPath(p)) = {DbPath(q) : q \in Above(p)} /\ Above(p) \subseteq SchemaFields
      BY DbAbove, AbovePath
    <3> HIDE DEF strong
    <3> QED BY <3>1, <1>1
  <2>2. \A r \in Above(p) \cap DOMAIN obj : strong[DbPath(r)] = Obj <=> obj[r] = Obj
    <3> HIDE DEF strong
    <3> QED BY <1>1, ValueConverted
  <2>3. DbPath(p) \in reachable <=>
          DbPath(p) \in DOMAIN weak /\ \A r \in Above(DbPath(p)) \cap DOMAIN strong : strong[r] = Obj
    OBVIOUS
  <2> HIDE DEF strong, reachable
  <2> QED BY <2>1, <2>2, <2>3
<1> HIDE DEF merged, strong, rest, reachable
<1>6. \A p \in DOMAIN obj : DbPath(p) \in DOMAIN merged /\ merged[DbPath(p)] = ModelToDB(obj[p])
  BY <1>1, <1>4
<1>7. \A p \in SchemaFields \ DOMAIN obj :
        /\ DbPath(p) \in DOMAIN merged <=> DbPath(p) \in reachable
        /\ DbPath(p) \in DOMAIN merged => merged[DbPath(p)] = weak[DbPath(p)]
  BY <1>1, <1>4
<1> QED
  BY <1>5, <1>6, <1>7 DEF merged, strong

HasNeeded(x) == \A l \in Needed : DbPath(l) \in DOMAIN x /\ x[DbPath(l)] # NoValue

Reaches(c, l) == \E k \in c.keys : l \in Within(k)

LEMMA MemoryUpdated ==
  ASSUME NEW m, NEW c, Update(c)
  PROVE  LET x == MergeInto(m, Encode(ChangesObject(c))) IN
         /\ HasNeeded(m) => HasNeeded(x)
         /\ TypedDb(m) => TypedDb(x)
         /\ (\A k \in c.keys : Lists(c.to, Within(k))) =>
              \A l \in Leaves : At(x, l) = IF Reaches(c, l) THEN ModelToDB(ValueAt(c.to, l)) ELSE At(m, l)
<1> DEFINE obj == ChangesObject(c)
           x == MergeInto(m, Encode(obj))
<1>1. /\ DOMAIN obj = DOMAIN c.to \cup UNION {Above(k) : k \in c.keys}
      /\ DOMAIN obj \subseteq SchemaFields
      /\ \A p \in DOMAIN obj : obj[p] \in ModelValues
      /\ \A p \in DOMAIN c.to : obj[p] = c.to[p]
      /\ \A k \in c.keys : \A q \in Above(k) : obj[q] = Obj
  BY ChangesObjectFields
<1>2. /\ \A p \in DOMAIN obj : DbPath(p) \in DOMAIN x /\ x[DbPath(p)] = ModelToDB(obj[p])
      /\ \A p \in SchemaFields \ DOMAIN obj :
           /\ DbPath(p) \in DOMAIN x <=>
                DbPath(p) \in DOMAIN m /\ \A r \in Above(p) \cap DOMAIN obj : obj[r] = Obj
           /\ DbPath(p) \in DOMAIN x => x[DbPath(p)] = m[DbPath(p)]
  <2> HIDE DEF obj
  <2> QED BY <1>1, MergedAt
<1>3. /\ c.keys \subseteq DOMAIN c.to /\ c.keys \subseteq SchemaFields
      /\ RecordFields(c.to)
      /\ \A p \in DOMAIN c.to : Reaches(c, p)
      /\ \A l \in Needed : Reaches(c, l) => l \in DOMAIN c.to /\ c.to[l] # NoValue
  BY UpdateFields DEF Reaches
<1> HIDE DEF obj, x
<1>4. \A l \in Leaves : l \in DOMAIN obj => l \in DOMAIN c.to
  BY <1>1, <1>3, LeafIsBottom
<1>5. ASSUME NEW l \in Leaves, ~Reaches(c, l)
      PROVE  /\ l \notin DOMAIN obj
             /\ \A r \in Above(l) \cap DOMAIN obj : obj[r] = Obj
  <2>1. l \notin DOMAIN obj
    BY <1>3, <1>4, <1>5
  <2>2. ASSUME NEW r \in Above(l), r \in DOMAIN c.to
        PROVE  FALSE
    <3>1. PICK k \in c.keys : r = k \/ k \in Above(r)
      BY <2>2, <1>3, WithinIs DEF Reaches
    <3>2. l \in SchemaFields /\ k \in Above(l)
      BY <3>1, AboveAbove DEF SchemaFields
    <3> QED
      BY <3>2, <1>5, WithinIs DEF Reaches
  <2> QED
    BY <2>1, <2>2, <1>1
<1>6. ASSUME HasNeeded(m) PROVE HasNeeded(x)
  <2> SUFFICES ASSUME NEW l \in Needed PROVE DbPath(l) \in DOMAIN x /\ x[DbPath(l)] # NoValue
    BY DEF HasNeeded
  <2>1. l \in Leaves /\ l \in SchemaFields
    BY DEF Needed, SchemaFields
  <2>2. CASE Reaches(c, l)
    BY <2>1, <2>2, <1>1, <1>2, <1>3, ValueConverted
  <2>3. CASE ~Reaches(c, l)
    BY <2>1, <2>3, <1>2, <1>5, <1>6 DEF HasNeeded
  <2> QED
    BY <2>2, <2>3
<1>7. TypedDb(m) => TypedDb(x)
  BY <1>1, <1>2, ValueConverted DEF TypedDb
<1>8. ASSUME \A k \in c.keys : Lists(c.to, Within(k)), NEW l \in Leaves
      PROVE  At(x, l) = IF Reaches(c, l) THEN ModelToDB(ValueAt(c.to, l)) ELSE At(m, l)
  <2>1. l \in SchemaFields
    BY DEF SchemaFields
  <2>2. CASE ~Reaches(c, l)
    BY <2>1, <2>2, <1>2, <1>5 DEF At
  <2>3. CASE Reaches(c, l) /\ l \in DOMAIN c.to
    <3>1. DbPath(l) \in DOMAIN x /\ x[DbPath(l)] = ModelToDB(c.to[l])
      BY <2>3, <1>1, <1>2
    <3> QED
      BY <3>1, <2>3 DEF At, ValueAt
  <2>4. CASE Reaches(c, l) /\ l \notin DOMAIN c.to
    <3>1. PICK k \in c.keys : l \in Within(k)
      BY <2>4 DEF Reaches
    <3>2. PICK r \in Above(l) \cap DOMAIN c.to : c.to[r] = NoValue
      BY <3>1, <1>8, <2>4 DEF Lists
    <3>3. r \in DOMAIN obj /\ obj[r] # Obj
      BY <3>2, <1>1, ValuesAssumption
    <3>4. l \notin DOMAIN obj /\ DbPath(l) \notin DOMAIN x
      BY <3>2, <3>3, <1>2, <1>4, <2>1, <2>4
    <3> QED
      BY <2>4, <3>4, ValueConverted DEF At, ValueAt
  <2> QED
    BY <2>2, <2>3, <2>4
<1> QED
  BY <1>6, <1>7, <1>8 DEF x, obj

(* A replacement that lists everything leaves only names of the model behind. *)
LEMMA MemoryReplaced ==
  ASSUME NEW m, NEW r \in Records
  PROVE  LET x == MergeValues(m, Encode(r)) IN
         /\ HasNeeded(x)
         /\ Lists(r, SchemaFields) /\ (\A p \in DOMAIN r : r[p] # NoValue) =>
              /\ TypedDb(x)
              /\ \A l \in Leaves : At(x, l) = ModelToDB(ValueAt(r, l))
<1> DEFINE new == Encode(r)
           S == {q \in DOMAIN new : new[q] # NoValue \/ q \notin DOMAIN m}
           strong == Restricted(new, S)
           reachable == {q \in DOMAIN m : \A t \in Above(q) \cap DOMAIN strong : strong[t] = Obj}
           rest == Restricted(m, reachable)
           x == MergeValues(m, new)
<1>1. x = Over(strong, rest)
  BY DEF MergeValues, MergeInto
<1>2. RecordFields(r)
  BY RecordTyped
<1>3. /\ \A p \in SchemaFields : DbPath(p) \in DOMAIN new <=> p \in DOMAIN r
      /\ \A p \in DOMAIN r : new[DbPath(p)] = ModelToDB(r[p])
  BY <1>2, EncodeAt DEF RecordFields
<1>4. \A p \in DOMAIN r : r[p] # NoValue => DbPath(p) \in DOMAIN x /\ x[DbPath(p)] = ModelToDB(r[p])
  <2>1. ASSUME NEW p \in DOMAIN r, r[p] # NoValue
        PROVE  DbPath(p) \in DOMAIN x /\ x[DbPath(p)] = ModelToDB(r[p])
    <3>1. DbPath(p) \in DOMAIN new /\ new[DbPath(p)] = ModelToDB(r[p]) /\ ModelToDB(r[p]) # NoValue
      BY <2>1, <1>2, <1>3, ValueConverted DEF RecordFields
    <3>2. DbPath(p) \in S
      BY <3>1
    <3>3. DbPath(p) \in DOMAIN strong /\ strong[DbPath(p)] = new[DbPath(p)]
      <4> HIDE DEF S, new
      <4> QED BY <3>1, <3>2 DEF Restricted
    <3> HIDE DEF x, strong, new
    <3> QED BY <1>1, <3>1, <3>3 DEF Over
  <2> HIDE DEF x
  <2> QED BY <2>1
<1> HIDE DEF x, strong, new, S, reachable, rest
<1>5. HasNeeded(x)
  <2> SUFFICES ASSUME NEW l \in Needed PROVE DbPath(l) \in DOMAIN x /\ x[DbPath(l)] # NoValue
    BY DEF HasNeeded
  <2>1. l \in DOMAIN r /\ r[l] \in Scalars
    BY NeededInRecord
  <2>2. r[l] # NoValue /\ ModelToDB(r[l]) # NoValue
    BY <2>1, ValueConverted DEF ModelValues
  <2> QED
    BY <2>1, <2>2, <1>4
<1>6. ASSUME Lists(r, SchemaFields), \A p \in DOMAIN r : r[p] # NoValue
      PROVE  /\ TypedDb(x)
             /\ \A l \in Leaves : At(x, l) = ModelToDB(ValueAt(r, l))
  <2>1. \A p \in SchemaFields : p \in DOMAIN r /\ r[p] # NoValue
    BY <1>6 DEF Lists
  <2>2. \A p \in SchemaFields : DbPath(p) \in DOMAIN x /\ x[DbPath(p)] = ModelToDB(r[p])
    BY <2>1, <1>4
  <2>3. TypedDb(x)
    BY <2>1, <2>2, <1>2, ValueConverted DEF TypedDb, RecordFields
  <2> QED
    BY <2>1, <2>2, <2>3 DEF At, ValueAt, SchemaFields
<1> QED
  BY <1>5, <1>6 DEF x, new

-----------------------------------------------------------------------------
(* MongoDB, and records stored as they are *)

LEMMA RecordStored ==
  ASSUME NEW r \in Records
  PROVE  /\ HasNeeded(Encode(r)) /\ TypedDb(Encode(r))
         /\ \A l \in Leaves : At(Encode(r), l) = ModelToDB(ValueAt(r, l))
<1> DEFINE new == Encode(r)
<1>1. RecordFields(r)
  BY RecordTyped
<1>2. /\ \A p \in SchemaFields : DbPath(p) \in DOMAIN new <=> p \in DOMAIN r
      /\ \A p \in DOMAIN r : new[DbPath(p)] = ModelToDB(r[p])
  BY <1>1, EncodeAt DEF RecordFields
<1> HIDE DEF new
<1>3. HasNeeded(new)
  <2> SUFFICES ASSUME NEW l \in Needed PROVE DbPath(l) \in DOMAIN new /\ new[DbPath(l)] # NoValue
    BY DEF HasNeeded
  <2>1. l \in DOMAIN r /\ r[l] \in Scalars /\ l \in SchemaFields
    BY NeededInRecord DEF Needed, SchemaFields
  <2> QED
    BY <2>1, <1>2, ValueConverted DEF ModelValues
<1>4. TypedDb(new)
  BY <1>1, <1>2, ValueConverted DEF TypedDb, RecordFields
<1>5. \A l \in Leaves : At(new, l) = ModelToDB(ValueAt(r, l))
  BY <1>2, ValueConverted DEF At, ValueAt, SchemaFields
<1> QED
  BY <1>3, <1>4, <1>5 DEF new

LEMMA CollectionUpdated ==
  ASSUME NEW c, Update(c)
  PROVE  LET x == MongoUpdated(MongoSet(c)) IN
         /\ HasNeeded(collection) => HasNeeded(x)
         /\ TypedDb(collection) => TypedDb(x)
         /\ \A l \in Leaves : At(x, l) = IF Reaches(c, l) THEN ModelToDB(ValueAt(c.to, l)) ELSE At(collection, l)
<1> DEFINE set == MongoSet(c)
           to == Encode(c.to)
           kept == {q \in DOMAIN collection : (Above(q) \cup {q}) \cap set.keys = {}}
           ways == UNION {Above(k) : k \in set.keys}
           made == [q \in ways |-> Obj]
           rest == Restricted(collection, kept)
           x == MongoUpdated(set)
<1>1. set.keys = {DbPath(k) : k \in c.keys} /\ set.to = to
  BY DEF MongoSet
<1>2. /\ c.keys \subseteq DOMAIN c.to /\ c.keys \subseteq SchemaFields
      /\ RecordFields(c.to)
      /\ \A p \in DOMAIN c.to : Reaches(c, p)
      /\ \A p \in DOMAIN c.to : \A k \in c.keys : p \notin Above(k)
      /\ \A l \in Needed : Reaches(c, l) => l \in DOMAIN c.to /\ c.to[l] # NoValue
  BY UpdateFields DEF Reaches
<1>3. /\ \A p \in SchemaFields : DbPath(p) \in DOMAIN to <=> p \in DOMAIN c.to
      /\ \A p \in DOMAIN c.to : to[DbPath(p)] = ModelToDB(c.to[p])
  BY <1>2, EncodeAt DEF RecordFields
<1>4. x = Over(to, Over(made, rest))
  BY <1>1 DEF MongoUpdated
<1>5. \A q : /\ q \in DOMAIN x <=> q \in DOMAIN to \/ q \in ways \/ q \in kept
             /\ q \in DOMAIN to => x[q] = to[q]
             /\ q \notin DOMAIN to /\ q \in ways => x[q] = Obj
             /\ q \in kept \ (DOMAIN to \cup ways) => x[q] = collection[q]
  <2>1. DOMAIN rest = kept /\ \A q \in kept : rest[q] = collection[q]
    <3>1. kept \subseteq DOMAIN collection
      OBVIOUS
    <3> HIDE DEF kept
    <3> QED BY <3>1 DEF Restricted
  <2>2. DOMAIN made = ways /\ \A q \in ways : made[q] = Obj
    OBVIOUS
  <2> HIDE DEF x, to, made, rest, kept, ways, set
  <2> QED BY <1>4, <2>1, <2>2 DEF Over
<1>6. ASSUME NEW p \in SchemaFields
      PROVE  /\ DbPath(p) \in ways <=> \E k \in c.keys : p \in Above(k)
             /\ DbPath(p) \in kept <=> DbPath(p) \in DOMAIN collection /\ ~Reaches(c, p)
  <2>1. DbPath(p) \in ways <=> \E k \in c.keys : DbPath(p) \in Above(DbPath(k))
    <3> HIDE DEF set
    <3> QED BY <1>1
  <2>2. \A k \in c.keys : DbPath(p) \in Above(DbPath(k)) <=> p \in Above(k)
    BY <1>2, DbAboveIff
  <2>3. (Above(DbPath(p)) \cup {DbPath(p)}) \cap set.keys = {} <=> ~Reaches(c, p)
    <3>1. \A k \in c.keys : DbPath(k) \in Above(DbPath(p)) <=> k \in Above(p)
      BY <1>2, DbAboveIff
    <3>2. \A k \in c.keys : DbPath(k) = DbPath(p) <=> k = p
      BY <1>2, DbSame
    <3>3. \A k \in c.keys : p \in Within(k) <=> p = k \/ k \in Above(p)
      BY WithinIs
    <3> HIDE DEF set
    <3> QED BY <1>1, <3>1, <3>2, <3>3 DEF Reaches
  <2> QED
    BY <2>1, <2>2, <2>3
<1> HIDE DEF x, to, made, rest, kept, ways, set
<1>7. ASSUME NEW l \in Leaves
      PROVE  /\ l \in SchemaFields /\ DbPath(l) \notin ways
             /\ l \in DOMAIN c.to => DbPath(l) \in DOMAIN x /\ x[DbPath(l)] = ModelToDB(c.to[l])
             /\ l \notin DOMAIN c.to /\ Reaches(c, l) => DbPath(l) \notin DOMAIN x
             /\ ~Reaches(c, l) => /\ DbPath(l) \in DOMAIN x <=> DbPath(l) \in DOMAIN collection
                                  /\ DbPath(l) \in DOMAIN x => x[DbPath(l)] = collection[DbPath(l)]
  <2>1. l \in SchemaFields /\ DbPath(l) \notin ways
    BY <1>2, <1>6, LeafIsBottom DEF SchemaFields
  <2> QED
    BY <2>1, <1>2, <1>3, <1>5, <1>6
<1>8. ASSUME HasNeeded(collection) PROVE HasNeeded(x)
  <2> SUFFICES ASSUME NEW l \in Needed PROVE DbPath(l) \in DOMAIN x /\ x[DbPath(l)] # NoValue
    BY DEF HasNeeded
  <2>1. l \in Leaves
    BY DEF Needed
  <2>2. CASE Reaches(c, l)
    BY <2>1, <2>2, <1>2, <1>7, ValueConverted DEF RecordFields
  <2>3. CASE ~Reaches(c, l)
    BY <2>1, <2>3, <1>7, <1>8 DEF HasNeeded
  <2> QED
    BY <2>2, <2>3
<1>9. ASSUME TypedDb(collection) PROVE TypedDb(x)
  <2> SUFFICES ASSUME NEW p \in SchemaFields, DbPath(p) \in DOMAIN x PROVE x[DbPath(p)] \in DbValues
    BY DEF TypedDb
  <2>1. CASE p \in DOMAIN c.to
    BY <2>1, <1>2, <1>3, <1>5, ValueConverted DEF RecordFields
  <2>2. CASE p \notin DOMAIN c.to /\ DbPath(p) \in ways
    BY <2>2, <1>3, <1>5 DEF DbValues
  <2>3. CASE p \notin DOMAIN c.to /\ DbPath(p) \notin ways
    BY <2>3, <1>3, <1>5, <1>6, <1>9 DEF TypedDb
  <2> QED
    BY <2>1, <2>2, <2>3
<1>10. \A l \in Leaves : At(x, l) = IF Reaches(c, l) THEN ModelToDB(ValueAt(c.to, l)) ELSE At(collection, l)
  BY <1>2, <1>7, ValueConverted DEF At, ValueAt
<1> QED
  BY <1>8, <1>9, <1>10 DEF x, set

(* A projection asks for the leaves it selects. *)
LEMMA FoundInMongo ==
  ASSUME NEW p, TypedDb(collection)
  PROVE  LET found == MongoFind(AdaptProjection(p)) IN
         /\ TypedDb(found)
         /\ \A l \in SelectedLeaves(p) : l \in Leaves /\ At(found, l) = At(collection, l)
<1> DEFINE names == AdaptProjection(p)
           asked == {q \in DOMAIN collection : \E n \in names :
                       q = n \/ n \in Above(q) \/ (q \in Above(n) /\ collection[q] = Obj)}
           found == MongoFind(names)
<1>1. found = Restricted(collection, asked)
  BY DEF MongoFind
<1>2. asked \subseteq DOMAIN collection
  OBVIOUS
<1>3. ASSUME NEW l \in SelectedLeaves(p), DbPath(l) \in DOMAIN collection
      PROVE  DbPath(l) \in asked
  <2>1. l \in Leaves /\ l \in SchemaFields
    BY DEF SelectedLeaves, SchemaFields
  <2>2. CASE l \in DOMAIN p
    <3>1. DbPath(l) \in names
      BY <2>1, <2>2 DEF AdaptProjection
    <3> HIDE DEF names
    <3> QED BY <3>1, <1>3
  <2>3. CASE \E x \in Above(l) \cap DOMAIN p : p[x] = Whole
    <3>1. PICK x \in Above(l) \cap DOMAIN p : p[x] = Whole
      BY <2>3
    <3>2. DbPath(x) \in names
      BY <3>1 DEF AdaptProjection
    <3>3. DbPath(x) \in Above(DbPath(l))
      BY <2>1, <3>1, DbAbove
    <3> HIDE DEF names
    <3> QED BY <3>2, <3>3, <1>3
  <2> QED
    BY <2>2, <2>3 DEF SelectedLeaves
<1> HIDE DEF found, asked, names
<1>4. DOMAIN found = asked /\ \A q \in asked : found[q] = collection[q]
  BY <1>1, <1>2 DEF Restricted
<1>5. TypedDb(found)
  BY <1>2, <1>4 DEF TypedDb
<1>6. \A l \in SelectedLeaves(p) : l \in Leaves /\ At(found, l) = At(collection, l)
  BY <1>2, <1>3, <1>4 DEF At, SelectedLeaves
<1> QED
  BY <1>5, <1>6 DEF found, names

-----------------------------------------------------------------------------
(* SQL *)

LEMMA LeafColumn ==
  /\ \A l \in Leaves : DbPath(l) \in Columns
  /\ \A e \in Embeddeds : DbPath(e) \notin Columns
  /\ \A q \in Columns : \E l \in Leaves : q = DbPath(l)
BY DbSame, DocumentsAssumption DEF Columns, SchemaFields

LEMMA FlattenAt ==
  ASSUME NEW obj, RecordFields(obj)
  PROVE  /\ DOMAIN Flatten(obj) \subseteq Columns
         /\ \A l \in Leaves : DbPath(l) \in DOMAIN Flatten(obj) <=> l \in DOMAIN obj
         /\ \A l \in DOMAIN obj \cap Leaves : /\ Flatten(obj)[DbPath(l)] = ModelToDB(obj[l])
                                              /\ ModelToDB(obj[l]) \in DbScalars
<1> DEFINE new == Encode(obj)
           flat == Flatten(obj)
<1>1. /\ \A p \in SchemaFields : DbPath(p) \in DOMAIN new <=> p \in DOMAIN obj
      /\ \A p \in DOMAIN obj : new[DbPath(p)] = ModelToDB(obj[p])
  BY EncodeAt DEF RecordFields
<1>2. flat = Restricted(new, Columns)
  BY DEF Flatten
<1>3. \A l \in DOMAIN obj \cap Leaves : ModelToDB(obj[l]) \in DbScalars
  BY ValueConverted DEF RecordFields
<1> HIDE DEF new, flat
<1>4. DOMAIN flat = DOMAIN new \cap Columns /\ \A q \in DOMAIN new \cap Columns : flat[q] = new[q]
  BY <1>2 DEF Restricted
<1>5. \A l \in Leaves : DbPath(l) \in DOMAIN flat <=> l \in DOMAIN obj
  BY <1>1, <1>4, LeafColumn DEF SchemaFields
<1>6. \A l \in DOMAIN obj \cap Leaves : flat[DbPath(l)] = ModelToDB(obj[l])
  BY <1>1, <1>4, LeafColumn DEF SchemaFields
<1> QED
  BY <1>3, <1>4, <1>5, <1>6 DEF flat

LEMMA FlatOver ==
  ASSUME NEW obj, RecordFields(obj), NEW base \in [Columns -> DbScalars]
  PROVE  LET x == Over(Flatten(obj), base) IN
         /\ x \in [Columns -> DbScalars]
         /\ \A l \in Leaves : x[DbPath(l)] = IF l \in DOMAIN obj THEN ModelToDB(obj[l]) ELSE base[DbPath(l)]
<1> DEFINE flat == Flatten(obj)
           x == Over(flat, base)
<1>1. /\ DOMAIN flat \subseteq Columns
      /\ \A l \in Leaves : DbPath(l) \in DOMAIN flat <=> l \in DOMAIN obj
      /\ \A l \in DOMAIN obj \cap Leaves : /\ flat[DbPath(l)] = ModelToDB(obj[l])
                                           /\ ModelToDB(obj[l]) \in DbScalars
  BY FlattenAt
<1>2. x = [q \in DOMAIN flat \cup DOMAIN base |-> IF q \in DOMAIN flat THEN flat[q] ELSE base[q]]
  BY DEF Over
<1> HIDE DEF x, flat
<1>3. DOMAIN flat \cup DOMAIN base = Columns
  BY <1>1
<1>4. \A l \in Leaves : x[DbPath(l)] = IF l \in DOMAIN obj THEN ModelToDB(obj[l]) ELSE base[DbPath(l)]
  BY <1>1, <1>2, <1>3, LeafColumn
<1>5. \A q \in Columns : x[q] \in DbScalars
  BY <1>1, <1>4, LeafColumn
<1>6. x = [q \in Columns |-> x[q]]
  BY <1>2, <1>3
<1> QED
  BY <1>4, <1>5, <1>6 DEF x, flat

LEMMA RowInserted ==
  ASSUME NEW r \in Records
  PROVE  /\ SqlInserted(r) \in [Columns -> DbScalars]
         /\ \A l \in Leaves : SqlInserted(r)[DbPath(l)] = ModelToDB(ValueAt(r, l))
         /\ \A l \in Needed : SqlInserted(r)[DbPath(l)] # NoValue
<1> DEFINE base == [q \in Columns |-> NoValue]
           x == SqlInserted(r)
<1>1. base \in [Columns -> DbScalars] /\ \A l \in Leaves : base[DbPath(l)] = NoValue
  BY LeafColumn DEF DbScalars
<1>2. x = Over(Flatten(r), base)
  BY DEF SqlInserted
<1>3. RecordFields(r)
  BY RecordTyped
<1> HIDE DEF x, base
<1>4. /\ x \in [Columns -> DbScalars]
      /\ \A l \in Leaves : x[DbPath(l)] = IF l \in DOMAIN r THEN ModelToDB(r[l]) ELSE base[DbPath(l)]
  BY <1>1, <1>2, <1>3, FlatOver
<1>5. \A l \in Leaves : x[DbPath(l)] = ModelToDB(ValueAt(r, l))
  BY <1>1, <1>4, ValueConverted DEF ValueAt
<1>6. \A l \in Needed : x[DbPath(l)] # NoValue
  BY <1>4, NeededInRecord, ValueConverted DEF Needed, ModelValues
<1> QED
  BY <1>4, <1>5, <1>6 DEF x

(* Without a null in the place of an object, what an update reaches it lists. *)
LEMMA ListedInFull ==
  ASSUME NEW c, \A k \in c.keys : Lists(c.to, Within(k)), ~HasNull(c.to, 1),
         NEW l \in Leaves, Reaches(c, l)
  PROVE  l \in DOMAIN c.to
<1>1. PICK k \in c.keys : l \in Within(k)
  BY DEF Reaches
<1> SUFFICES ASSUME l \notin DOMAIN c.to PROVE FALSE
  OBVIOUS
<1>2. PICK x \in Above(l) \cap DOMAIN c.to : c.to[x] = NoValue
  BY <1>1 DEF Lists
<1>3. x \in Embeddeds /\ x \in SchemaFields
  BY <1>2, AbovePath DEF SchemaFields
<1>4. Len(x) >= 1
  BY <1>3, Path
<1> QED
  BY <1>2, <1>3, <1>4 DEF HasNull

LEMMA TopOf ==
  /\ \A p \in SchemaFields : Len(p) = 1 => p = <<p[1]>>
  /\ \A p \in SchemaFields : Len(p) # 1 => <<p[1]>> \in Above(p)
  /\ \A p \in SchemaFields : \A q \in Above(p) : q[1] = p[1]
<1>1. ASSUME NEW p \in SchemaFields, Len(p) = 1 PROVE p = <<p[1]>>
  <2>1. p = [j \in 1..1 |-> p[j]]
    BY <1>1, Path
  <2> QED BY <2>1
<1>2. ASSUME NEW p \in SchemaFields, Len(p) # 1 PROVE <<p[1]>> \in Above(p)
  <2>1. Len(p) \in Nat \ {0} /\ 1 \in 1..Len(p) /\ 1 \in 1..(Len(p) - 1)
    <3>1. Len(p) \in Nat \ {0}
      BY Path
    <3> QED BY <3>1, <1>2
  <2>2. SubSeq(p, 1, 1) = [j \in 1..1 |-> p[j]]
    BY <2>1, Prefix
  <2>3. [j \in 1..1 |-> p[j]] = <<p[1]>>
    OBVIOUS
  <2>4. SubSeq(p, 1, 1) = <<p[1]>>
    BY <2>2, <2>3
  <2> QED
    BY <2>1, <2>4 DEF Above
<1>3. ASSUME NEW p \in SchemaFields, NEW q \in Above(p) PROVE q[1] = p[1]
  <2>1. Len(q) \in 1..(Len(p) - 1) /\ \A j \in 1..Len(q) : q[j] = p[j]
    BY AbovePath
  <2>2. Len(p) \in Nat /\ 1 \in 1..Len(q)
    BY <2>1, Path
  <2> QED
    BY <2>1, <2>2
<1> QED
  BY <1>1, <1>2, <1>3

(* What unflattening returns of the leaves L a row was asked for: their    *)
(* values; where it leaves an object out, all of these are null.           *)
LEMMA Unflattened ==
  ASSUME NEW L, L \subseteq Leaves, NEW answer, DOMAIN answer = {DbPath(l) : l \in L},
         \A l \in L : answer[DbPath(l)] \in DbScalars,
         \A e \in Embeddeds \cap Required :
           Len(e) > 1 /\ L \cap Within(<<e[1]>>) # {} => L \cap Within(e) # {}
  PROVE  /\ Unflatten(answer) # Failed
         /\ \A l \in L : ValueAt(Unflatten(answer), l) = DbToModel(answer[DbPath(l)])
<1> DEFINE found == {l \in Leaves : DbPath(l) \in DOMAIN answer}
           In(e) == found \cap Within(e)
           Empty(e) == e \notin Required /\ \A l \in In(e) : answer[DbPath(l)] = NoValue
           tops == {e \in Embeddeds : Len(e) = 1 /\ In(e) # {} /\ ~Empty(e)}
           scalars == {l \in found : Len(l) = 1 \/ <<l[1]>> \in tops}
           entities == UNION {Above(l) : l \in scalars}
           undefined == {e \in Embeddeds \ entities :
                           /\ <<e[1]>> \in tops /\ Within(e) \cap Embeddeds = {e}
                           /\ \E l \in In(<<e[1]>>) : \A m \in Leaves \cap Within(e) : Position(l) < Position(m)}
           doc == [q \in {DbPath(x) : x \in scalars \cup entities} |-> IF q \in Columns THEN answer[q] ELSE Obj]
<1>1. Unflatten(answer) = IF undefined \cap Required # {} THEN Failed ELSE Decode(doc)
  BY DEF Unflatten
<1>2. found = L /\ L \subseteq SchemaFields
  BY DbSame DEF SchemaFields
<1>3. scalars \subseteq L /\ entities \subseteq Embeddeds
  <2>1. scalars \subseteq L
    BY <1>2
  <2> HIDE DEF scalars
  <2> QED BY <1>2, <2>1, AbovePath
<1>4. ASSUME NEW e \in undefined \cap Required
      PROVE  FALSE
  <2>1. e \in Embeddeds /\ e \in SchemaFields /\ e \notin entities /\ <<e[1]>> \in tops
    BY DEF SchemaFields
  <2>2. Len(e) \in Nat \ {0}
    BY <2>1, Path
  <2>3. L \cap Within(<<e[1]>>) # {}
    BY <2>1, <1>2
  <2>4. PICK l \in L : l \in Within(e)
    <3>1. CASE Len(e) = 1
      BY <3>1, <2>1, <2>3, TopOf
    <3>2. CASE Len(e) # 1
      <4>1. Len(e) > 1
        <5> DEFINE n == Len(e)
        <5>1. n \in Nat \ {0} /\ n # 1
          BY <2>2, <3>2
        <5> HIDE DEF n, undefined
        <5>2. n > 1
          BY <5>1
        <5> QED BY <5>2 DEF n
      <4>2. L \cap Within(e) # {}
        BY <4>1, <2>1, <2>3
      <4> QED BY <4>2
    <3> QED
      BY <3>1, <3>2
  <2>5. e \in Above(l) /\ l \in SchemaFields
    BY <2>1, <2>4, <1>2, WithinIs, DocumentsAssumption
  <2>6. l[1] = e[1]
    BY <2>5, TopOf
  <2>7. l \in scalars
    BY <2>1, <2>6, <1>2
  <2> QED
    BY <2>1, <2>5, <2>7
<1>5. Unflatten(answer) = Decode(doc)
  BY <1>1, <1>4
<1>6. ASSUME NEW x \in SchemaFields, DbPath(x) \in DOMAIN doc
      PROVE  /\ x \in scalars \/ x \in entities
             /\ x \in scalars => doc[DbPath(x)] = answer[DbPath(x)]
             /\ x \in entities => doc[DbPath(x)] = Obj
  <2>1. scalars \cup entities \subseteq SchemaFields
    BY <1>2, <1>3 DEF SchemaFields
  <2>2. x \in scalars \cup entities
    <3> HIDE DEF scalars, entities
    <3> QED BY <1>6, <2>1, DbSame
  <2>3. x \in scalars => DbPath(x) \in Columns
    BY <1>3, LeafColumn
  <2>4. x \in entities => DbPath(x) \notin Columns
    BY <1>3, LeafColumn
  <2> HIDE DEF scalars, entities
  <2> QED BY <1>6, <2>2, <2>3, <2>4
<1>7. \A l \in scalars : DbPath(l) \in DOMAIN doc
  <2> HIDE DEF scalars, entities
  <2> QED OBVIOUS
<1>8. TypedDb(doc)
  <2> HIDE DEF doc, scalars, entities
  <2> QED BY <1>3, <1>6 DEF TypedDb, DbValues
<1>9. Decode(doc) # Failed /\ \A x \in SchemaFields : ValueAt(Decode(doc), x) = DbToModel(At(doc, x))
  <2> HIDE DEF doc
  <2> QED BY <1>8, ReadAt
<1>10. ASSUME NEW l \in L
       PROVE  At(doc, l) = answer[DbPath(l)]
  <2>1. l \in Leaves /\ l \in SchemaFields
    BY <1>2
  <2>2. CASE l \in scalars
    <3>1. DbPath(l) \in DOMAIN doc
      BY <2>2, <1>7
    <3>2. doc[DbPath(l)] = answer[DbPath(l)]
      BY <2>1, <2>2, <3>1, <1>6
    <3> QED
      BY <3>1, <3>2 DEF At
  <2>3. CASE l \notin scalars
    <3>1. l \notin entities
      BY <1>3, DocumentsAssumption
    <3>2. DbPath(l) \notin DOMAIN doc
      BY <2>1, <2>3, <3>1, <1>6
    <3>3. Len(l) # 1 /\ <<l[1]>> \notin tops
      BY <2>3, <1>2
    <3>4. <<l[1]>> \in Above(l) /\ <<l[1]>> \in Embeddeds
      BY <3>3, <2>1, TopOf, AbovePath
    <3>5. l \in In(<<l[1]>>)
      BY <3>4, <2>1, <1>2, WithinIs
    <3>6. Len(<<l[1]>>) = 1
      OBVIOUS
    <3>7. Empty(<<l[1]>>)
      BY <3>3, <3>4, <3>5, <3>6
    <3>8. answer[DbPath(l)] = NoValue
      BY <3>5, <3>7
    <3> HIDE DEF doc
    <3> QED
      BY <3>2, <3>8 DEF At
  <2> QED
    BY <2>2, <2>3
<1> QED
  BY <1>2, <1>5, <1>9, <1>10

LEMMA RowRead ==
  ASSUME NEW p, row \in [Columns -> DbScalars], SelectsRequired(p)
  PROVE  /\ SqlRead(p) # Failed
         /\ \A l \in SelectedLeaves(p) : ValueAt(SqlRead(p), l) = DbToModel(row[DbPath(l)])
<1> DEFINE L == SelectedLeaves(p)
           asked == BuildSelect(p)
           answer == Restricted(row, asked)
<1>1. L \subseteq Leaves /\ asked = {DbPath(l) : l \in L}
  BY DEF SelectedLeaves, BuildSelect
<1>2. asked \subseteq Columns
  BY <1>1, LeafColumn
<1> HIDE DEF asked, L
<1>3. DOMAIN answer = asked /\ \A q \in asked : answer[q] = row[q] /\ answer[q] \in DbScalars
  BY <1>2 DEF Restricted
<1> HIDE DEF answer
<1>4. \A l \in L : answer[DbPath(l)] = row[DbPath(l)] /\ answer[DbPath(l)] \in DbScalars
  BY <1>1, <1>3
<1>5. \A e \in Embeddeds \cap Required :
        Len(e) > 1 /\ L \cap Within(<<e[1]>>) # {} => L \cap Within(e) # {}
  BY DEF SelectsRequired, L
<1>6. DOMAIN answer = {DbPath(l) : l \in L} /\ \A l \in L : answer[DbPath(l)] \in DbScalars
  BY <1>1, <1>3, <1>4
<1>7. /\ Unflatten(answer) # Failed
      /\ \A l \in L : ValueAt(Unflatten(answer), l) = DbToModel(answer[DbPath(l)])
  BY <1>1, <1>5, <1>6, Unflattened
<1>8. SqlRead(p) = Unflatten(answer)
  BY DEF SqlRead, answer, asked
<1> QED
  BY <1>4, <1>7, <1>8 DEF L

-----------------------------------------------------------------------------
(* The inductive invariant *)

(* Each store has the required fields and values it can convert back; a    *)
(* driver that is faithful has what was written.  Of the in-memory driver  *)
(* the values, too, are known only as long as it is faithful: merging a    *)
(* replacement with names of the model leaves values of the model behind.  *)
StoresInv(m, x, r, w, f) ==
  /\ r # Absent => r \in [Columns -> DbScalars] /\ \A l \in Needed : r[DbPath(l)] # NoValue
  /\ w = Absent => r = Absent
  /\ w # Absent =>
       /\ w \in [Leaves -> Scalars \cup {NoValue}]
       /\ HasNeeded(m) /\ HasNeeded(x) /\ TypedDb(x)
       /\ "memory" \in f => TypedDb(m) /\ \A l \in Leaves : At(m, l) = ModelToDB(w[l])
       /\ "mongo" \in f => \A l \in Leaves : At(x, l) = ModelToDB(w[l])
       /\ "sql" \in f => r # Absent /\ \A l \in Leaves : r[DbPath(l)] = ModelToDB(w[l])

IInv == StoresInv(memory, collection, row, written, faithful)

LEMMA WrittenIsNoAbsence == Absent \notin [Leaves -> Scalars \cup {NoValue}]
<1>1. {Absent, Failed} \cap [Leaves -> Scalars \cup {NoValue, Obj}] = {}
  BY ValuesAssumption DEF SchemaFields
<1>2. [Leaves -> Scalars \cup {NoValue}] \subseteq [Leaves -> Scalars \cup {NoValue, Obj}]
  OBVIOUS
<1> QED
  BY <1>1, <1>2

LEMMA RowIsNoAbsence == Absent \notin [Columns -> DbScalars]
BY ValuesAssumption DEF Columns, DbScalars

LEMMA WrittenValues ==
  ASSUME NEW obj, RecordFields(obj)
  PROVE  \A l \in Leaves : ValueAt(obj, l) \in Scalars \cup {NoValue}
BY DEF RecordFields, ValueAt

LEMMA InsertKeeps ==
  ASSUME IInv, NEW r \in Records, InsertOne(r)
  PROVE  IInv'
<1> DEFINE doc == Encode(r)
           new == [l \in Leaves |-> ValueAt(r, l)]
           table == IF HasNull(r, 2) THEN row ELSE SqlInserted(r)
           able == IF HasNull(r, 2) THEN Drivers \ {"sql"} ELSE Drivers
<1>1. written = Absent /\ row = Absent
  BY DEF InsertOne, IInv, StoresInv
<1>2. memory' = doc /\ collection' = doc /\ row' = table /\ written' = new /\ faithful' = able
  BY DEF InsertOne
<1>3. /\ HasNeeded(doc) /\ TypedDb(doc)
      /\ \A l \in Leaves : At(doc, l) = ModelToDB(ValueAt(r, l))
  BY RecordStored
<1>4. /\ SqlInserted(r) \in [Columns -> DbScalars] /\ SqlInserted(r) # Absent
      /\ \A l \in Leaves : SqlInserted(r)[DbPath(l)] = ModelToDB(ValueAt(r, l))
      /\ \A l \in Needed : SqlInserted(r)[DbPath(l)] # NoValue
  BY RowInserted, RowIsNoAbsence
<1>5. new \in [Leaves -> Scalars \cup {NoValue}] /\ new # Absent
  BY RecordTyped, WrittenValues, WrittenIsNoAbsence
<1>6. table = Absent \/ (table = SqlInserted(r) /\ ~HasNull(r, 2))
  BY <1>1
<1>7. "sql" \in able => ~HasNull(r, 2) /\ table = SqlInserted(r)
  OBVIOUS
<1>8. \A l \in Leaves : new[l] = ValueAt(r, l)
  OBVIOUS
<1> HIDE DEF doc, new, table, able
<1>9. StoresInv(doc, doc, table, new, able)
  BY <1>3, <1>4, <1>5, <1>6, <1>7, <1>8 DEF StoresInv
<1> QED
  BY <1>2, <1>9 DEF IInv

LEMMA UpdateKeeps ==
  ASSUME IInv, NEW changes \in Updates, UpdateAll(changes)
  PROVE  IInv'
<1> DEFINE c == IgnoreNulls(changes)
           set == MongoSet(c)
           whole == \A k \in c.keys : Lists(c.to, Within(k))
           m == MemoryUpdate(c)
           x == IF MongoRefuses(set) THEN collection ELSE MongoUpdated(set)
           r == IF HasNull(c.to, 1) \/ row = Absent THEN row ELSE SqlUpdated(c)
           w == [l \in Leaves |-> IF Reaches(c, l) THEN ValueAt(c.to, l) ELSE written[l]]
           f == faithful \ (  (IF whole THEN {} ELSE {"memory", "sql"})
                         \cup (IF MongoRefuses(set) THEN {"mongo"} ELSE {})
                         \cup (IF HasNull(c.to, 1) THEN {"sql"} ELSE {}))
<1>1. memory' = m /\ collection' = x /\ row' = r /\ written' = w /\ faithful' = f /\ written # Absent
  BY DEF UpdateAll, Reaches
<1>2. Update(c)
  BY CallersAssumption, NullsIgnored DEF Update
<1>3. /\ RecordFields(c.to)
      /\ \A l \in Needed : Reaches(c, l) => l \in DOMAIN c.to /\ c.to[l] # NoValue
      /\ \A p \in DOMAIN c.to : Reaches(c, p)
  BY <1>2, UpdateFields DEF Reaches
<1>4. /\ HasNeeded(memory) => HasNeeded(m)
      /\ TypedDb(memory) => TypedDb(m)
      /\ whole => \A l \in Leaves : At(m, l) = IF Reaches(c, l) THEN ModelToDB(ValueAt(c.to, l)) ELSE At(memory, l)
  <2> HIDE DEF c
  <2> QED BY <1>2, MemoryUpdated DEF MemoryUpdate
<1>5. /\ HasNeeded(collection) => HasNeeded(x)
      /\ TypedDb(collection) => TypedDb(x)
      /\ ~MongoRefuses(set) =>
           \A l \in Leaves : At(x, l) = IF Reaches(c, l) THEN ModelToDB(ValueAt(c.to, l)) ELSE At(collection, l)
  <2> HIDE DEF c
  <2> QED BY <1>2, CollectionUpdated
<1>6. ASSUME row \in [Columns -> DbScalars]
      PROVE  /\ SqlUpdated(c) \in [Columns -> DbScalars]
             /\ \A l \in Leaves : SqlUpdated(c)[DbPath(l)] =
                                    IF l \in DOMAIN c.to THEN ModelToDB(c.to[l]) ELSE row[DbPath(l)]
  <2> HIDE DEF c
  <2> QED BY <1>3, <1>6, FlatOver DEF SqlUpdated
<1>7. w \in [Leaves -> Scalars \cup {NoValue}] /\ w # Absent
  <2>1. \A l \in Leaves : ValueAt(c.to, l) \in Scalars \cup {NoValue}
    <3> HIDE DEF c
    <3> QED BY <1>3, WrittenValues
  <2>2. written \in [Leaves -> Scalars \cup {NoValue}]
    BY <1>1 DEF IInv, StoresInv
  <2>3. \A l \in Leaves : w[l] \in Scalars \cup {NoValue}
    <3> HIDE DEF c
    <3> QED BY <2>1, <2>2
  <2>4. w \in [Leaves -> Scalars \cup {NoValue}]
    <3> HIDE DEF c
    <3> QED BY <2>3
  <2> QED
    BY <2>4, WrittenIsNoAbsence
<1>8. \A l \in Leaves : w[l] = IF Reaches(c, l) THEN ValueAt(c.to, l) ELSE written[l]
  <2> HIDE DEF c
  <2> QED OBVIOUS
<1>9. /\ f \subseteq faithful
      /\ ("memory" \in f => whole) /\ ("mongo" \in f => ~MongoRefuses(set))
      /\ ("sql" \in f => whole /\ ~HasNull(c.to, 1))
  <2> HIDE DEF c, set, whole
  <2> QED OBVIOUS
<1>10. r = row \/ (r = SqlUpdated(c) /\ row # Absent)
  OBVIOUS
<1>11. "sql" \in f => row # Absent /\ r = SqlUpdated(c)
  <2> HIDE DEF c, f
  <2> QED BY <1>1, <1>9 DEF IInv, StoresInv
<1>12. /\ row # Absent => row \in [Columns -> DbScalars] /\ \A l \in Needed : row[DbPath(l)] # NoValue
       /\ written \in [Leaves -> Scalars \cup {NoValue}]
       /\ HasNeeded(memory) /\ HasNeeded(collection) /\ TypedDb(collection)
       /\ "memory" \in faithful => TypedDb(memory) /\ \A l \in Leaves : At(memory, l) = ModelToDB(written[l])
       /\ "mongo" \in faithful => \A l \in Leaves : At(collection, l) = ModelToDB(written[l])
       /\ "sql" \in faithful => row # Absent /\ \A l \in Leaves : row[DbPath(l)] = ModelToDB(written[l])
  BY <1>1 DEF IInv, StoresInv
<1>13. ASSUME "sql" \in f, NEW l \in Leaves
       PROVE  r[DbPath(l)] = ModelToDB(w[l])
  <2>1. "sql" \in faithful /\ whole /\ ~HasNull(c.to, 1) /\ row \in [Columns -> DbScalars] /\ r = SqlUpdated(c)
    BY <1>9, <1>11, <1>12, <1>13
  <2>2. row[DbPath(l)] = ModelToDB(written[l])
    BY <2>1, <1>12
  <2>3. Reaches(c, l) <=> l \in DOMAIN c.to
    <3>1. \A k \in c.keys : Lists(c.to, Within(k))
      BY <2>1
    <3>2. ~HasNull(c.to, 1)
      BY <2>1
    <3> HIDE DEF c, whole, r, f
    <3>3. Reaches(c, l) => l \in DOMAIN c.to
      BY <3>1, <3>2, ListedInFull
    <3> QED BY <1>3, <3>3
  <2>4. r[DbPath(l)] = IF l \in DOMAIN c.to THEN ModelToDB(c.to[l]) ELSE row[DbPath(l)]
    BY <2>1, <1>6
  <2>5. w[l] = IF l \in DOMAIN c.to THEN c.to[l] ELSE written[l]
    BY <2>3, <1>8 DEF ValueAt
  <2> HIDE DEF c, r, w
  <2> QED
    BY <2>2, <2>4, <2>5
<1>14. r # Absent => r \in [Columns -> DbScalars] /\ \A l \in Needed : r[DbPath(l)] # NoValue
  <2>1. ASSUME row \in [Columns -> DbScalars], \A l \in Needed : row[DbPath(l)] # NoValue, NEW l \in Needed
        PROVE  SqlUpdated(c)[DbPath(l)] # NoValue
    <3>1. l \in Leaves
      BY DEF Needed
    <3>2. l \in DOMAIN c.to => ModelToDB(c.to[l]) # NoValue
      <4> HIDE DEF c
      <4> QED BY <1>3, ValueConverted DEF RecordFields
    <3> HIDE DEF c
    <3> QED BY <2>1, <3>1, <3>2, <1>6
  <2> HIDE DEF c, r
  <2> QED BY <2>1, <1>6, <1>10, <1>12
<1> HIDE DEF c, set, whole, m, x, r, w, f
<1>15. StoresInv(m, x, r, w, f)
  <2>1. HasNeeded(m) /\ HasNeeded(x) /\ TypedDb(x)
    BY <1>4, <1>5, <1>12
  <2>2. "memory" \in f => TypedDb(m) /\ \A l \in Leaves : At(m, l) = ModelToDB(w[l])
    BY <1>4, <1>8, <1>9, <1>12
  <2>3. "mongo" \in f => \A l \in Leaves : At(x, l) = ModelToDB(w[l])
    BY <1>5, <1>8, <1>9, <1>12
  <2>4. "sql" \in f => r # Absent
    BY <1>6, <1>11, <1>12, RowIsNoAbsence
  <2> QED
    BY <2>1, <2>2, <2>3, <2>4, <1>7, <1>13, <1>14 DEF StoresInv
<1> QED
  BY <1>1, <1>15 DEF IInv

LEMMA ReplaceKeeps ==
  ASSUME IInv, NEW r \in Records, ReplaceOne(r)
  PROVE  IInv'
<1> DEFINE doc == Encode(r)
           full == Lists(r, SchemaFields) /\ \A p \in DOMAIN r : r[p] # NoValue
           m == MemoryReplace(r)
           new == [l \in Leaves |-> ValueAt(r, l)]
           able == faithful \ ({"sql"} \cup IF full THEN {} ELSE {"memory"})
<1>1. /\ memory' = m /\ collection' = doc /\ row' = row /\ written' = new /\ faithful' = able
      /\ written # Absent
  BY DEF ReplaceOne
<1>2. /\ HasNeeded(doc) /\ TypedDb(doc)
      /\ \A l \in Leaves : At(doc, l) = ModelToDB(ValueAt(r, l))
  BY RecordStored
<1>3. /\ HasNeeded(m)
      /\ full => TypedDb(m) /\ \A l \in Leaves : At(m, l) = ModelToDB(ValueAt(r, l))
  BY MemoryReplaced DEF MemoryReplace
<1>4. new \in [Leaves -> Scalars \cup {NoValue}] /\ new # Absent
  BY RecordTyped, WrittenValues, WrittenIsNoAbsence
<1>5. \A l \in Leaves : new[l] = ValueAt(r, l)
  OBVIOUS
<1>6. "sql" \notin able /\ ("memory" \in able => full)
  OBVIOUS
<1>7. row # Absent => row \in [Columns -> DbScalars] /\ \A l \in Needed : row[DbPath(l)] # NoValue
  BY DEF IInv, StoresInv
<1> HIDE DEF doc, full, m, new, able
<1>8. StoresInv(m, doc, row, new, able)
  BY <1>2, <1>3, <1>4, <1>5, <1>6, <1>7 DEF StoresInv
<1> QED
  BY <1>1, <1>8 DEF IInv

(* In all reachable states each store has the required fields, and those   *)
(* of drivers that were only asked for what they do as documented agree    *)
(* with what the caller has written.                                       *)
THEOREM StoredInvariant == StoredSpec => []IInv
<1>1. NothingStored => IInv
  BY DEF NothingStored, IInv, StoresInv
<1>2. IInv /\ [Write]_stores => IInv'
  <2> SUFFICES ASSUME IInv, [Write]_stores PROVE IInv'
    OBVIOUS
  <2>1. CASE \E r \in Records : InsertOne(r)
    BY <2>1, InsertKeeps
  <2>2. CASE \E c \in Updates : UpdateAll(c)
    BY <2>2, UpdateKeeps
  <2>3. CASE \E r \in Records : ReplaceOne(r)
    BY <2>3, ReplaceKeeps
  <2>4. CASE UNCHANGED stores
    BY <2>4 DEF stores, IInv, StoresInv, HasNeeded, TypedDb, At
  <2> QED
    BY <2>1, <2>2, <2>3, <2>4 DEF Write
<1> QED
  BY <1>1, <1>2, PTL DEF StoredSpec

(* Reads return what the caller last wrote, for every schema, all aliases, *)
(* nesting, projections and sequences of writes: documents and columns are *)
(* the same store.                                                         *)
THEOREM AlwaysStoredAsWritten == StoredSpec => []StoredAsWritten
<1>1. IInv => StoredAsWritten
  <2> SUFFICES ASSUME IInv, written # Absent, NEW p \in Selectable
               PROVE  /\ "memory" \in faithful =>
                           MemoryRead # Failed /\ \A l \in SelectedLeaves(p) : ValueAt(MemoryRead, l) = written[l]
                      /\ "mongo" \in faithful =>
                           MongoRead(p) # Failed /\ \A l \in SelectedLeaves(p) : ValueAt(MongoRead(p), l) = written[l]
                      /\ "sql" \in faithful /\ SelectsRequired(p) =>
                           SqlRead(p) # Failed /\ \A l \in SelectedLeaves(p) : ValueAt(SqlRead(p), l) = written[l]
    BY DEF StoredAsWritten
  <2>1. SelectedLeaves(p) \subseteq Leaves /\ Leaves \subseteq SchemaFields
    BY DEF SelectedLeaves, SchemaFields
  <2>2. \A l \in Leaves : DbToModel(ModelToDB(written[l])) = written[l]
    BY ValueConverted DEF IInv, StoresInv, ModelValues
  <2>3. ASSUME "memory" \in faithful
        PROVE  MemoryRead # Failed /\ \A l \in SelectedLeaves(p) : ValueAt(MemoryRead, l) = written[l]
    <3>1. TypedDb(memory) /\ \A l \in Leaves : At(memory, l) = ModelToDB(written[l])
      BY <2>3 DEF IInv, StoresInv
    <3>2. Decode(memory) # Failed /\ \A l \in SchemaFields : ValueAt(Decode(memory), l) = DbToModel(At(memory, l))
      BY <3>1, ReadAt
    <3> QED
      BY <3>1, <3>2, <2>1, <2>2 DEF MemoryRead
  <2>4. ASSUME "mongo" \in faithful
        PROVE  MongoRead(p) # Failed /\ \A l \in SelectedLeaves(p) : ValueAt(MongoRead(p), l) = written[l]
    <3> DEFINE found == MongoFind(AdaptProjection(p))
    <3>1. TypedDb(collection) /\ \A l \in Leaves : At(collection, l) = ModelToDB(written[l])
      BY <2>4 DEF IInv, StoresInv
    <3>2. TypedDb(found) /\ \A l \in SelectedLeaves(p) : At(found, l) = At(collection, l)
      BY <3>1, FoundInMongo
    <3> HIDE DEF found
    <3>3. Decode(found) # Failed /\ \A l \in SchemaFields : ValueAt(Decode(found), l) = DbToModel(At(found, l))
      BY <3>2, ReadAt
    <3>4. MongoRead(p) = Decode(found)
      BY DEF MongoRead, found
    <3> QED
      BY <3>1, <3>2, <3>3, <3>4, <2>1, <2>2
  <2>5. ASSUME "sql" \in faithful, SelectsRequired(p)
        PROVE  SqlRead(p) # Failed /\ \A l \in SelectedLeaves(p) : ValueAt(SqlRead(p), l) = written[l]
    <3>1. row \in [Columns -> DbScalars] /\ \A l \in Leaves : row[DbPath(l)] = ModelToDB(written[l])
      BY <2>5 DEF IInv, StoresInv
    <3>2. SqlRead(p) # Failed /\ \A l \in SelectedLeaves(p) : ValueAt(SqlRead(p), l) = DbToModel(row[DbPath(l)])
      BY <3>1, <2>5, RowRead
    <3> QED
      BY <3>1, <3>2, <2>1, <2>2
  <2> QED
    BY <2>3, <2>4, <2>5
<1> QED
  BY <1>1, StoredInvariant, PTL

(* Required fields that are inside of required objects only have a value   *)
(* in each store, whatever is inserted, changed, nulled or replaced.       *)
THEOREM RequiredAlwaysPresent == StoredSpec => []RequiredPresent
<1>1. IInv => RequiredPresent
  BY DEF IInv, StoresInv, HasNeeded, RequiredPresent, Needed
<1> QED
  BY <1>1, StoredInvariant, PTL
===============================================================================
