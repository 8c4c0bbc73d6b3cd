SPECIFICATION FairSpec
CONSTANTS
  k1 = k1 k2 = k2 k3 = k3 ra = ra rb = rb rc = rc a = a b = b c = c p1 = p1 p2 = p2
  Keys <- MCKeys
  SourceKeyed <- MCSourceKeyed
  SourceKeyOf <- MCSourceKeyOf
  UVals = {a, b, c}
  DVals = {0, 1, 2, 3, 4}
  Null = Null NoRow = NoRow Rejected = Rejected NoHold = NoHold
  Partitions = {p1, p2}
  Histories <- AllHistories
  BatchSize = 2
  Budget = 2
  DeleteEnabled = TRUE
  MaxPoll = 2
  MaxTransient = 1
  MaxRestarts = 1
INVARIANTS TypeOK CommitBehindHold CommittedIsSettled RowsCoverCommit ReportedOncePerDelivery PausedIsHeld NoCapAcrossRedelivery OffsetsInv
PROPERTIES TailWaits CommitAdvances CatchesUp
CHECK_DEADLOCK FALSE
