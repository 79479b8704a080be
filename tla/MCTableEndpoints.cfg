SPECIFICATION Spec
CONSTANTS
  authors = authors
  books = books
  reviews = reviews
  unknown = unknown
  favourite = favourite
  writer = writer
  editor = editor
  book = book
  missing = missing
  id = id
  path = path
  blank = blank
  unset = unset
  none = none
  noOrder = noOrder
  noLimit = noLimit
  one = one
  many = many
  label = label
  Tables <- MCTables
  Columns <- MCColumns
  Schemas <- MCSchemas
  Databases <- MCDatabases
  Endpoints <- MCEndpoints
  Contexts <- MCContexts
  Id = id
  Blank = blank
  Null = unset
  NoRow = none
  Alias <- MCAlias
  NoOrder = noOrder
  NoLimit = noLimit
INVARIANTS
  TypeOK
  AnswerIsDocumented
  LeftJoinKeepsRows
  ForwardIsAnswered
  RenderedAsDocumented
CHECK_DEADLOCK FALSE
