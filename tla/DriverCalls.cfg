\* Three calls of two clients on each of the three drivers.
CONSTANTS
  None = None
  user = user
  admin = admin
  Clients = {user, admin}
  SoftClients = {user}
  Drivers = {"memory", "knex", "mongo"}
  Chains <- MCChains
  PageSize = 1
  Requests <- MCRequests
  MaxIds = 2
  MaxCalls = 3
SPECIFICATION Spec
CHECK_DEADLOCK FALSE
INVARIANTS
  AuditTrail
  InsertAnswersOwn
  PagesCurrent
PROPERTIES
  CallsAnswered
