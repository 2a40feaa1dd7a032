SPECIFICATION FairSpec
CONSTANTS
  a = a
  b = b
  c1 = c1
  Nobody = Nobody
  Task = {a, b}
  Unborn = {b}
  Caller = {c1}
  TDFs <- Refused
  MaxWall = 2
  SMP = TRUE
  Orderly = FALSE
  Redilates = TRUE
INVARIANTS
  OutsideReadsWall
PROPERTIES
  FreezeTakesEffect
  UnfreezeTakesEffect
VIEW WithoutHistory
