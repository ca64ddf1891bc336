\* Operations of every kind in and outside of two transactions.
CONSTANTS
  tx1 = tx1
  tx2 = tx2
  db1 = db1
  s1 = s1
  s2 = s2
  op1 = op1
  op2 = op2
  UserCount = 2
  UserHooks <- MCHooks
  Txs = {tx1, tx2}
  Sessions <- MCSessions
  Outer = Outer
  Datasources = {db1}
  Calls = {op1, op2}
  Kinds = {"find", "insert", "update"}
  Null = Null
SPECIFICATION Spec
CHECK_DEADLOCK FALSE
SYMMETRY Symmetric
INVARIANTS
  
  InsertsComplete
  InsideTransaction
  SessionIsolation
