SPECIFICATION Spec
CONSTANTS
  users = users
  stats = stats
  other = other
  page = page
  agent = agent
  mail = mail
  field = field
  list = list
  more = more
  rest = rest
  noBody = noBody
  blank = blank
  now = now
  v1 = v1
  v2 = v2
  Schemas <- MCSchemas
  Paths <- MCPaths
  Requests <- MCRequests
  NoBody = noBody
  Blank = blank
  Now = now
INVARIANTS
  TypeOK
  ConflictIsStartupError
  RequestIsEchoed
CHECK_DEADLOCK FALSE
