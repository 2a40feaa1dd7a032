SPECIFICATION FairSpec
CONSTANTS
  b1 = b1
  b2 = b2
  t1 = t1
  t2 = t2
  NoPid = NoPid
  Board = {b1, b2}
  Task = {t1, t2}
  home <- TwoBoards
  MAX_NUM_PIDS = 1
  TDFs <- NormalSpeed
  MaxWall = 1
  Mortal = {t2}
  SMP = TRUE
  Dips = {b1, b2}
  Discipline <- Scripts
INVARIANTS
  AllOrNone
PROPERTIES
  ImplementsSwitch
  FreezeReachesAll
  ResumeReachesAll
