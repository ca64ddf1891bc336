---------------------------- MODULE MCThreeDrivers --------------------------
(* The three drivers compared: either a query is walked, or rows are       *)
(* sorted, or a record is written and read back.                           *)
EXTENDS MCQueries, MCSorting, MCStoredDocuments

Start == Init /\ NotSorted /\ NothingStored

Continue ==
  \/ written = Absent /\ sorts = <<>> /\ Next /\ UNCHANGED <<sorting, stores>>
  \/ entries = 0 /\ written = Absent /\ Pass /\ UNCHANGED <<vars, stores>>
  \/ entries = 0 /\ sorts = <<>> /\ Write /\ UNCHANGED <<vars, sorting>>

QueryOrWrites == Start /\ [][Continue]_<<vars, sorting, stores>>
=============================================================================
