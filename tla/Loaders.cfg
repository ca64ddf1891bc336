\* Users with posts, authors and tags; users with friends and a post.
CONSTANTS
  users = users
  posts = posts
  tags = tags
  userTags = userTags
  a = a
  b = b
  c = c
  o1 = o1
  o2 = o2
  Daos <- MCDaos
  Keys = {a, b, c}
  Relations <- MCRelations
  Plans <- MCPlans
  Ops = {o1, o2}
  NoOp = NoOp
  Null = Null
  PageSize = 2
  Workloads <- MCWorkloads
  MaxWrites = 1
SPECIFICATION FairSpec
CHECK_DEADLOCK FALSE
INVARIANTS
  LinksCurrent
  AwaitedKeysPending
  KeysReadOnce
  CachedAnswersReal
PROPERTIES
  OperationsEnd
