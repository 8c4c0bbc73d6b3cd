SPECIFICATION Spec
CONSTANTS
  j1 = j1 j2 = j2 t1 = t1 t2 = t2
  Jobs = {j1, j2}
  Tables = {t1}
  Durable = {j1, j2}
  KeyRank <- MCKeyRank
  Keep = 1
  MaxBeats = 0
  MaxMisses = 0
  MaxRestarts = 1
  MaxNow = 1
PROPERTIES PruneKeepsNewest
CHECK_DEADLOCK FALSE
