\* Two tenants and a system actor share a collection of two records.
CONSTANTS
  t1 = t1
  t2 = t2
  user1 = user1
  user2 = user2
  system = system
  x1 = x1
  x2 = x2
  v1 = v1
  Ids = {x1, x2}
  Vals = {v1}
  Tenants = {t1, t2}
  Actors = {user1, user2, system}
  SoftDeletes = {user1, user2}
  RawPolicy = "forbidden"
  TenantOf <- MCTenantOf
  Chains <- MCChains
  Filters <- MCFilters
  Changes <- MCChanges
  None = None
  Keep = Keep
  Compound = Compound
SPECIFICATION Spec
INVARIANTS
  AnswersInScope
PROPERTIES
  TenantsApart
  NothingElseHidden
  DeletedStay
  ImplementsViews
