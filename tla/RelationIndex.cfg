CONSTANTS
  t = t
  u = u
  alice = alice
  Tables = {t, u}
  Accounts = {alice}
  NoTable = NoTable
  NoAccount = NoAccount
  Pool <- Statements
  MaxBlocks = 3
  MaxTxs = 3
  MaxIndexed = 4
SPECIFICATION Spec
INVARIANTS
  
  DegreesExact
  HistoryExact
CHECK_DEADLOCK FALSE
