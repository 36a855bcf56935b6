SPECIFICATION Spec
CONSTANTS
  Voters = {v1, v2, v3, v4}
  ProposalIds = {p1, p2}
  NoVote = NoVote
  TotalNodes = 4
INVARIANTS
  TypeOK
  TallyExact
  OneVerdict
PROPERTY
  QuorumIsStable
