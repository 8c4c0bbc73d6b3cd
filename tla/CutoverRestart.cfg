SPECIFICATION GateSpec
CONSTANTS
  a = a b = b l1 = l1
  Tables = {a}
  Lines = {l1}
  Of <- MCOf
  Unit = 10 Skew = 10 Grace = 20 Margin = 10
  Starts = {80}
  Earlier = {}
  First = 100 Last = 120
  Horizons = {80}
  Excuses = {}
  Gaps <- MCGapOrNot
  MaxSpent = 3 MaxFaults = 1
  None = None
INVARIANTS OpenIsRight
CHECK_DEADLOCK FALSE
