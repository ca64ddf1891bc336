----------------------------- MODULE MCQueries ------------------------------
(* Rows and conditions of small queries for TLC. *)
EXTENDS Queries

a == String(<<97>>)
A == String(<<65>>)
ab == String(<<97, 98>>)
b == String(<<98>>)

(* Three ages and four names, each of them missing once; each row has a level and a rank. *)
Row(age, name, level, rank) == [age |-> age, name |-> name, level |-> Number(level), rank |-> Number(rank)]

MCRows ==
  << Row(Number(1), a, 2, 1), Row(Number(1), A, 1, 2), Row(Number(1), ab, 1, 1), Row(Number(1), Missing, 2, 2),
     Row(Number(2), a, 1, 1), Row(Number(2), A, 2, 1), Row(Number(2), ab, 2, 2), Row(Number(2), Missing, 1, 2),
     Row(Missing, a, 2, 2), Row(Missing, A, 1, 1), Row(Missing, ab, 1, 2), Row(Missing, Missing, 2, 1) >>

MCConditions ==
  [age |->
     { [is |-> Number(1)], [eq |-> Number(2)], [ne |-> Number(1)], [in |-> {Number(1), Number(2)}], [nin |-> {}],
       [gte |-> Number(1), lt |-> Number(2)], [eq |-> Number(1), gt |-> Number(1)],
       [exists |-> FALSE] },
   name |->
     { [eq |-> a], [eq |-> A, mode |-> "insensitive"], [contains |-> b], [startsWith |-> A, mode |-> "sensitive"],
       [endsWith |-> A], [startsWith |-> ab, contains |-> a], [exists |-> TRUE] }]

(* Four of them. *)
MCFewConditions ==
  [age |-> {[is |-> Number(1)], [gte |-> Number(2)]}, name |-> {[ne |-> a], [exists |-> TRUE]}]

Question(by, op, field, having) == [by |-> by, op |-> op, field |-> field, having |-> having]
MCQuestions ==
  {Question(by, op, "age", {}) : by \in {{}, {"name"}}, op \in {"sum", "avg", "max", "min"}}
  \cup {Question(by, "count", field, {}) : by \in {{}, {"age", "level"}}, field \in {"name", NoField}}
  \cup {Question({"level"}, "sum", "age", {c}) :
          c \in {[is |-> Number(3)], [gte |-> Number(2), lt |-> Number(5)], [eq |-> Number(3), gt |-> Number(3)]}}
  \cup {Question({}, "max", "age", {[gt |-> Number(1)]})}
=============================================================================
