SPECIFICATION Spec
CONSTANTS
  t = t
  a = a
  b = b
  int = int
  text = text
  x = x
  y = y
  Tables = {t}
  Names = {a, b}
  Types = {int, text}
  Values = {x, y}
  NoTable = NoTable
  Pool <- SomeStatements
  Callbacks = {cb}
  Startup = startup
  Callers = {}
  EarlyBlocks = FALSE
  LedgerSurvives = TRUE
  MaxBlocks = 3
  MaxTxs = 2
  MaxCalls = 0
  MaxCrashes = 0
  Garbled = Garbled
INVARIANTS
  TypeOK
  DatabaseFollowsLedger
PROPERTY
  ImplementsSerialReplay
CHECK_DEADLOCK FALSE
