SPECIFICATION FairSpec
CONSTANTS
  w1 = w1
  w2 = w2
  k1 = k1
  k2 = k2
  Writers = {w1, w2}
  Backfill = Backfill
  Keys = {k1, k2}
  Limit = 1
  MaxQueue = 2
  MaxId = 3
  MaxFail = 1
INVARIANT KeyOnce
INVARIANT PassedOnlyInFlight
INVARIANT BackfillComplete
PROPERTY InsertReturns
PROPERTY EveryRowIsRead
CHECK_DEADLOCK FALSE
