SPECIFICATION FairSpec
CONSTANTS
  Nodes = {l, f1, f2}
  Linked <- Complete
  Leaders = {l}
  Clients = {l}
  TotalNodes = 3
  Txs = {t1, t2}
  Seconds = {1}
  BlockVoters = {f1, f2}
  MayStop = {}
  MayRestart = {}
  MayRaise = {}
  MayDuplicate = FALSE
  SwallowCancel = FALSE
  Synchronous = TRUE
  MaxRound = 2
  MaxBoots = 0
  NoVote = NoVote
  NoProposal = NoProposal
  NoBlock = NoBlock
  NoId = NoId
PROPERTIES
  Finality
CHECK_DEADLOCK FALSE
