SPECIFICATION Spec
CONSTANTS
  a = a
  b = b
  c1 = c1
  Nobody = Nobody
  Task = {a, b}
  Unborn = {b}
  Caller = {c1}
  TDFs <- All
  MaxWall = 4
  SMP = FALSE
  Orderly = TRUE
  Redilates = FALSE
INVARIANTS
  TypeOK
  ExactCredit
  NoNegativeStretch
  NeverAheadOfWall
  StoppedCanContinue
  FrozenIsStopped
  VirtualPastBehind
  PhaseInv
PROPERTIES
  LeaderClockMonotone
