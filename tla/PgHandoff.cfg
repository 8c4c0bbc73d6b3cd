SPECIFICATION Spec
CONSTANTS
  m1 = m1 m2 = m2 a = a b = b t1 = t1
  Migrations = {m1, m2}
  Tables = {a, b}
  Txns = {t1}
  Picked <- MCPicked
  Later <- MCLater
  MaxWal = 3 MaxWrites = 1 MaxRuns = 3
  None = None
INVARIANTS TypeOK NoGap
CHECK_DEADLOCK FALSE
