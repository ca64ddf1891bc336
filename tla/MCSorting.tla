----------------------------- MODULE MCSorting ------------------------------
(* Rows with two numbers to sort by for TLC, each pair of them twice. *)
EXTENDS Sorting

Ranked(level, rank) == [level |-> Number(level), rank |-> Number(rank)]

MCUnsorted ==
  << Ranked(2, 1), Ranked(1, 2), Ranked(1, 1), Ranked(2, 2), Ranked(1, 1), Ranked(2, 1), Ranked(2, 2), Ranked(1, 2) >>

Key(k, dir) == [key |-> k, dir |-> dir]

MCSortObjects ==
  { <<Key("level", "asc")>>, <<Key("level", "desc")>>, <<Key("rank", "asc")>>,
    <<Key("level", "asc"), Key("rank", "desc")>> }
=============================================================================
