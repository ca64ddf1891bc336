\* A find that begins after a row was added, against the documented result.
CONSTANTS
  users = users
  posts = posts
  tags = tags
  userTags = userTags
  a = a
  b = b
  c = c
  o1 = o1
  o2 = o2
  Daos <- MCDaos
  Keys = {a, b, c}
  Relations <- MCRelations
  Plans <- TagsPlans
  Ops = {o1, o2}
  NoOp = NoOp
  Null = Null
  PageSize = 2
  Workloads <- TagsWorkloads
  MaxWrites = 1
SPECIFICATION Spec
CHECK_DEADLOCK FALSE
INVARIANT AllLinksCurrent
