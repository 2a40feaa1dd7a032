SPECIFICATION FairSpec
CONSTANTS
  board0 = board0
  board1 = board1
  board3 = board3
  IPs <- Nobody
  Leader = board3
  pause_order <- OnlyOwn
  Second = 4
  Moment = 1
  Latency = 3
PROPERTIES
  Completes
CHECK_DEADLOCK FALSE
