SPECIFICATION FairSpec
CONSTANTS
  r1 = r1 r2 = r2 r3 = r3 r4 = r4 r5 = r5 a = a b = b
  Rows = {r1, r2, r3, r4, r5}
  Poison = {r2, r5}
  Ranges = {a, b}
  Plans <- MCPlans
  Parallelism = 2
  Depth = 2
  MaxRetries = 2
  MaxAttempts = 2
  MaxQuarantine = 2
  MaxFaults = 1
  MaxDrops = 1
INVARIANTS LoadInv ResumeIsSettled
PROPERTIES IsTableLoad LoadReturns
CHECK_DEADLOCK FALSE
