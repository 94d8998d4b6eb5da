CONSTANTS
  Node = {n1, n2}
  Self = n1
  Client = {c1, c2}
  Prompt = {c1}
  ChannelCap = 1
  SocketCap = 1
  MaxEvents = 3
SPECIFICATION FairSpec
CHECK_DEADLOCK FALSE
INVARIANTS
  TypeOK
  StreamIsGapless
  SnapshotThenReplay
PROPERTIES
  EventArrives
  GoneIsNoticed
