CONSTANTS
  Node = {1, 2}
  Service = {svc}
  Rank <- MCRank
  MaxWrites <- PairWrites
  MaxMsgs = 1
SPECIFICATION Spec
CHECK_DEADLOCK FALSE
INVARIANTS
  TypeOK
  NoGap
  Convergence
  NoGhostService
PROPERTY RemovalIsFinal
