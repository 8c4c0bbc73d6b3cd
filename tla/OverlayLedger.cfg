SPECIFICATION Spec
CONSTANTS
  t1 = t1 t2 = t2 c1 = c1 d1 = d1 d2 = d2
  Tables = {t1, t2}
  Columns = {c1}
  Defaults = {d1, d2}
  NoDefault = NoDefault
  NoRecord = NoRecord
  Ddls <- MCDdls
  MaxAttempts = 2
  MaxJobs = 4
  MaxFaults = 2
SYMMETRY MCSymmetry
INVARIANTS TypeOK OwedIsRecorded EmptyMeansEveryRow StreamLeavesNull
PROPERTIES LoadKeepsContract
CHECK_DEADLOCK FALSE
