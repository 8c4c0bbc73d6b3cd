SPECIFICATION FairSpec
CONSTANTS
  r1 = r1 r2 = r2 r3 = r3 r4 = r4 Catalog = Catalog
  Rows = {r1, r2, r3, r4}
  Poison = {r2, r3}
  Refused = {r3}
  Units <- MCUnits
  MaxRetries = 3
  MaxFailures = 3
INVARIANTS SessionInv HealthyNotRejected
PROPERTIES CommitsItsUnit KeepsPromise PutReturns
CHECK_DEADLOCK FALSE
