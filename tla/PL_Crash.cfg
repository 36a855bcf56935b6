SPECIFICATION Spec
CONSTANTS
  Hashes = {h1, h2}
  Txs = {t1}
  ProposalIds = {8}
  SortRank <- AsStrings
  MaxProposalAge = 2
  MaxNumber = 2
  MaxCrashes = 2
  NoBlock = NoBlock
  NoHash = NoHash
INVARIANTS
  TypeOK
  ChainIsWhole
PROPERTIES
  HistoryIsKept
  RestartLosesNothing
CHECK_DEADLOCK FALSE
