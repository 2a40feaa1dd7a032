SPECIFICATION Spec
CONSTANTS
  a = a
  b = b
  d = d
  c1 = c1
  Nobody = Nobody
  Task = {a, b, d}
  Unborn = {b, d}
  Caller = {c1}
  TDFs <- EnterLeave
  MaxWall = 3
  SMP = TRUE
  Orderly = TRUE
  Redilates = FALSE
PROPERTIES
  CreditReachesFamily
VIEW WithoutHistory
