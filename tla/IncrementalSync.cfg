CONSTANTS
  t = t
  u = u
  alice = alice
  Tables = {t, u}
  Accounts = {alice}
  NoTable = NoTable
  NoAccount = NoAccount
  Pool <- WithBatch
  MaxBlocks = 3
  MaxTxs = 3
  LedgerSurvives = TRUE
  AskedAhead = 0
  AskedBelow = 1
  MaxUpdates = 2
  NotSaved = NotSaved
SPECIFICATION Spec
INVARIANTS
  TypeOK
  CacheIsTrue
  NothingLeftOut
  FeedIsAudit
