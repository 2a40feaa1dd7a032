SPECIFICATION Spec
CONSTANTS
  b1 = b1
  b2 = b2
  t1 = t1
  t2 = t2
  NoPid = NoPid
  Board = {b1}
  Task = {t1, t2}
  home <- OneBoard
  MAX_NUM_PIDS = 2
  TDFs <- Factors
  MaxWall = 3
  Mortal = {}
  SMP = FALSE
  Dips = {b1}
  Discipline <- Scripts
INVARIANTS
  TypeOK
  ExactCredit
  BoardmatesAgree
PROPERTIES
  ClockMonotone
SYMMETRY Interchangeable
VIEW WithoutShown
