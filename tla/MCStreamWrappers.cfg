SPECIFICATION FairSpec
CONSTANTS
  PiecesOf <- MCPieces
  FinishAt = 3
  Idle = 2
  Abs = 4
  Slack = 1
  Interval = 1
  Late = 1
CHECK_DEADLOCK FALSE
INVARIANTS
  NothingLost
  AbortedInTime
  SlotCoversReads
PROPERTIES
  TruthfulReason
  EveryStreamEnds
