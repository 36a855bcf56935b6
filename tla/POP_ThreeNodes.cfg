SPECIFICATION Spec
CONSTANTS
  Nodes = {l, f1, f2}
  Linked <- Star
  Leaders = {l}
  Clients = {l}
  TotalNodes = 3
  Txs = {t1, t2}
  Seconds = {1}
  BlockVoters = {f1}
  MayStop = {l}
  MayRestart = {}
  MayRaise = {l}
  MayDuplicate = FALSE
  SwallowCancel = FALSE
  Synchronous = FALSE
  MaxRound = 2
  MaxBoots = 0
  NoVote = NoVote
  NoProposal = NoProposal
  NoBlock = NoBlock
  NoId = NoId
INVARIANTS
  TypeOK
  Agreement
  BlockFits
  TxConservation
PROPERTIES
  CommitNeedsQuorums
  ImplementsReplicatedChain
CHECK_DEADLOCK FALSE
SYMMETRY TxSymmetry
