SPECIFICATION GateSpec
CONSTANTS
  a = a b = b l1 = l1
  Tables = {a, b}
  Lines = {l1}
  Of <- MCOf
  Unit = 10 Skew = 10 Grace = 20 Margin = 10
  Starts = {None}
  Earlier = {60}
  First = 100 Last = 120
  Horizons = {80}
  Excuses = {}
  Gaps <- MCGaps
  MaxSpent = 3 MaxFaults = 0
  None = None
INVARIANTS GateInv
CHECK_DEADLOCK FALSE
