SPECIFICATION FairSpec
CONSTANTS
  j1 = j1 j2 = j2 t1 = t1 t2 = t2
  Jobs = {j1, j2}
  Tables = {t1}
  Durable = {j1}
  KeyRank <- MCKeyRank
  Keep = 1
  MaxBeats = 1
  MaxMisses = 1
  MaxRestarts = 1
  MaxNow = 0
INVARIANTS JobInv DoneMeansLoaded EndedSaysWhy
PROPERTIES OutcomeStays RestartKeepsWork EveryJobEnds
CHECK_DEADLOCK FALSE
