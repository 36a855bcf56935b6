SPECIFICATION Spec
CONSTANTS
  Nodes = {l, f1}
  Linked <- Complete
  Leaders = {l, f1}
  Clients = {l, f1}
  TotalNodes = 3
  Txs = {t1, t2}
  Seconds = {1}
  BlockVoters = {l, f1}
  MayStop = {f1}
  MayRestart = {l}
  MayRaise = {f1}
  MayDuplicate = TRUE
  SwallowCancel = FALSE
  Synchronous = FALSE
  MaxRound = 1
  MaxBoots = 1
  NoVote = NoVote
  NoProposal = NoProposal
  NoBlock = NoBlock
  NoId = NoId
INVARIANTS
  RootsCommitToHistory
CHECK_DEADLOCK FALSE
SYMMETRY TxSymmetry
