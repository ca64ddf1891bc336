\* Five actors with different contexts use up to two posts.
CONSTANTS
  x1 = x1
  x2 = x2
  v1 = v1
  v2 = v2
  userId = userId
  teamId = teamId
  region = region
  creator = creator
  team = team
  manage = manage
  view = view
  audit = audit
  root = root
  title = title
  content = content
  author = author
  others = others
  nobody = nobody
  writer = writer
  writer2 = writer2
  pair = pair
  chief = chief
  Ids = {x1, x2}
  Values = {v1, v2}
  Keys = {userId, teamId, region}
  Fields = {creator, team}
  DomainMap <- MCDomainMap
  Permissions = {manage, view, audit}
  Policy <- MCPolicy
  Default <- MCDefault
  Actors = {nobody, writer, writer2, pair, chief}
  ContextOf <- MCContextOf
  Nodes = {root, title, content, author, others}
  Projections <- MCProjections
  Domains <- MCDomains
  Changes <- MCChanges
  Everywhere = Everywhere
  None = None
  Keep = Keep
SPECIFICATION Spec
INVARIANTS
  ReadsPermitted
  RefusalsExtend
PROPERTIES
  WritesPermitted
  GrantedSuffices
