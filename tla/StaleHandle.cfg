CONSTANTS
  Node = {1, 2}
  Service = {svc}
  Rank <- MCRank
  Conn = {c1, c2}
  Cookie <- OneCookie
  Joins <- OneWay
  Budgets <- AFault
  MaxInbox = 1
SPECIFICATION Spec
SYMMETRY AnyConn
CHECK_DEADLOCK FALSE
INVARIANTS
  HandleIsSession
