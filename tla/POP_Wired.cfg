SPECIFICATION FairSpec
CONSTANTS
  Nodes = {l, f1, f2}
  Linked <- Complete
  Leaders = {l}
  Clients = {l}
  TotalNodes = 3
  Txs = {t1}
  Seconds = {1}
  BlockVoters = {}
  MayStop = {}
  MayRestart = {}
  MayRaise = {}
  MayDuplicate = FALSE
  SwallowCancel = FALSE
  Synchronous = TRUE
  MaxRound = 2
  MaxBoots = 0
  NoVote = NoVote
  NoProposal = NoProposal
  NoBlock = NoBlock
  NoId = NoId
PROPERTY
  Finality
CHECK_DEADLOCK FALSE
