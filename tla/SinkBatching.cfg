SPECIFICATION Spec
CONSTANTS
  k1 = k1 k2 = k2 ra = ra rb = rb rc = rc a = a b = b
  Keys <- MCKeys
  SourceKeyed <- MCSourceKeyed
  SourceKeyOf <- MCSourceKeyOf
  UVals = {a, b}
  DVals = {1, 2}
  Null = Null NoRow = NoRow Rejected = Rejected
  Offered <- MCOffered
  StartTables <- MCTables
  MaxChunk = 3
  MaxWeight = 4
  MaxBytes = 4
INVARIANTS BatchingKeepsOutcome NoKeyTwiceInARun PartitionIsRight
CHECK_DEADLOCK FALSE
