SPECIFICATION NodeSpec
CONSTANTS
  t = t
  a = a
  b = b
  int = int
  text = text
  x = x
  y = y
  Tables = {t}
  Names = {a, b}
  Types = {int, text}
  Values = {x, y}
  NoTable = NoTable
  Pool <- Requests
  Callbacks = {cb}
  Startup = startup
  Callers = {rpc}
  EarlyBlocks = FALSE
  LedgerSurvives = TRUE
  MaxBlocks = 2
  MaxTxs = 2
  MaxCalls = 1
  MaxCrashes = 1
  Garbled = Garbled
  Accounts = {"u", "u1"}
  Text <- Texts
  Leader = cb
  NoRound = NoRound
  MaxSequence <- Numbers
INVARIANTS
  AcceptedOnce
  AcceptedIsKnown
PROPERTIES
  CommittedStaysCommitted
  ProgressNeverGoesBack
  ImplementsTableSync
CHECK_DEADLOCK FALSE
