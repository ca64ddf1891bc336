\* The reads of the posts of two users, against the documented number.
CONSTANTS
  users = users
  posts = posts
  a = a
  b = b
  c = c
  o1 = o1
  Daos <- MCDaos
  Keys = {a, b, c}
  Relations <- MCRelations
  Plans <- MCPlans
  Ops = {o1}
  NoOp = NoOp
  Null = Null
  PageSize = 3
  Workloads <- MCWorkloads
  MaxWrites = 0
SPECIFICATION ReadsSpec
CHECK_DEADLOCK FALSE
INVARIANT ImmuneToNPlusOne
