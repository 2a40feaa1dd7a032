SPECIFICATION Spec
CONSTANTS
  a = a
  c1 = c1
  Nobody = Nobody
  Task = {a}
  Unborn = {}
  Caller = {c1}
  TDFs <- EnterOnly
  MaxWall = 4
  SMP = TRUE
  Orderly = TRUE
  Redilates = FALSE
PROPERTIES
  LeaderClockMonotone
