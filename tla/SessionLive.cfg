CONSTANTS
  Node = {1, 2}
  Service = {svc}
  Rank <- MCRank
  Conn = {c1}
  Cookie <- OneCookie
  Joins <- OneWay
  Budgets <- OpsOrEndings
  MaxInbox = 1
SPECIFICATION FairSpec
CHECK_DEADLOCK FALSE
PROPERTIES
  GossipConverges
  SessionsEnd
