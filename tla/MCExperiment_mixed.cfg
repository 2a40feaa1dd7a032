SPECIFICATION FairSpec
CONSTANTS
  board0 = board0
  board1 = board1
  board3 = board3
  IPs <- Others
  Leader = board3
  pause_order <- Mixed
  Second = 4
  Moment = 1
  Latency = 3
INVARIANTS
  TypeOK
  OnlyInTurn
  LogsAligned
  AllCollected
PROPERTIES
  Completes
  KeepsTurns
CHECK_DEADLOCK FALSE
