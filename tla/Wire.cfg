CONSTANTS
  Pieces <- MCPieces
  ChannelCap = 1
  WireCap = 2
  First <- MCFirst
  Own <- MCOwn
  MaxOwn <- MCMaxOwn
SPECIFICATION FairSpec
CHECK_DEADLOCK FALSE
INVARIANTS
  TypeOK
  FramesIntact
PROPERTIES
  FrameArrives
  EndsTogether
