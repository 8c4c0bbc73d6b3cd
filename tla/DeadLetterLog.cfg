SPECIFICATION Spec
CONSTANTS
  a = a l1 = l1 l2 = l2 p1 = p1 c1 = c1 c2 = c2
  Tables = {a}
  Lines = {l1, l2}
  Of <- MCOfOne
  Polls = {p1}
  Checks = {c1, c2}
  Unit = 10 Skew = 0 Grace = 20
  Lookback = 20 Furthest = 30 Slack = 0 ResumeAge = 10 Watchdog = 10
  Starts = {60}
  Earlier = {}
  First = 100 Last = 120 MaxReads = 3 MaxFaults = 1
  None = None
INVARIANTS LogInv
PROPERTIES ReadSpeaksForLedger
VIEW MCView
SYMMETRY MCSymmetry
CHECK_DEADLOCK FALSE
