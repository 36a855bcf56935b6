CONSTANTS
  Peers = {p, q}
  Configured = {p}
  Tasks = {leader}
  Hole = Hole
  Usable = 5
  MaxConns = 3
  MaxBroadcasts = 1
SPECIFICATION Spec
INVARIANTS
  TypeOK
  EntriesAreRead
  BroadcastReachesAll
  SoleConnectionIsReachable
CHECK_DEADLOCK FALSE
