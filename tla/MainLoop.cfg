CONSTANTS
  Node = {1, 2, 3, 4, 5}
  Self = 1
  Addr = {0, 1, 2, 3, 5}
  Name = {host}
  At <- MCAt
  AddrOf <- MCAddrOf
  ToJoin = {3, host}
  ToLeave = {2}
  Mortal = {2}
  ChannelCap = 1
  MaxDials = 2
  Budgets <- MCBudgets
SPECIFICATION FairSpec
CHECK_DEADLOCK FALSE
INVARIANTS
  TypeOK
  QueuedOnce
  
PROPERTIES
  JoinsAreDialled
  StopHappens
  MeshFills
