CONSTANTS
  Node = {1, 2, 3}
  Service = {svc}
  Rank <- MCRank
  Conn = {c1, c2}
  Cookie <- TwoCookies
  Joins <- Ring
  Budgets <- AnOperation
  MaxInbox = 1
SPECIFICATION Spec
SYMMETRY AnyConn
CHECK_DEADLOCK FALSE
INVARIANTS
  TypeOK
  Isolation
  OnlyGoneRemoved
  HandleIsSession
PROPERTIES
  Refinement
