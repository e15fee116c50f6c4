SPECIFICATION FairSpec
CONSTANTS
  NumSats = 2
  Refresh = 5
  Update = 2
  FetchMax = 2
  Horizon = 10
INVARIANT PositionsFresh
INVARIANT ShutdownBounded
PROPERTY ShutdownCompletes
CHECK_DEADLOCK FALSE
