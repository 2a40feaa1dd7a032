SPECIFICATION FairManagerSpec
CONSTANTS
  b1 = b1
  b2 = b2
  t1 = t1
  t2 = t2
  b3 = b3
  t3 = t3
  NoPid = NoPid
  Board = {b1, b2}
  Task = {t1, t2}
  home <- OneEach
  MAX_NUM_PIDS = 1
  TDFs = {}
  MaxWall = 1
  Mortal = {}
  SMP = FALSE
  Dips = {b1, b2}
  Discipline = {}
  MaxWork = 2
  Together = TRUE
  Prompt = TRUE
INVARIANTS
  ManagerTypeOK
  HeldUntilClash
  NobodyLeftStopped
PROPERTIES
  PausesEndOrClash
