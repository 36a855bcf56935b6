SPECIFICATION FairSpec
CONSTANTS
  t = t
  a = a
  b = b
  int = int
  text = text
  x = x
  y = y
  Tables = {t}
  Names = {a, b}
  Types = {int, text}
  Values = {x, y}
  NoTable = NoTable
  Pool <- TableStatements
  Callbacks = {cb}
  Startup = startup
  Callers = {rpc}
  EarlyBlocks = FALSE
  LedgerSurvives = TRUE
  MaxBlocks = 2
  MaxTxs = 2
  MaxCalls = 1
  MaxCrashes = 2
  Garbled = Garbled
INVARIANTS
  TablesFollowLedger
  NothingSkipped
PROPERTY
  EveryBlockSynced
CHECK_DEADLOCK FALSE
