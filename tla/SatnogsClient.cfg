SPECIFICATION Spec
CONSTANTS
  NumSats = 2
  NumAudio = 2
  MinInterval = 3
  Timeout = 1
  Phases = 2
  DefaultRetry = 2
  MaxRetry = 3
  Headers <- AnyHeader
  NaN = NaN
  Unparsed = Unparsed
  Horizon = 26
INVARIANT CycleIsBounded
INVARIANT AllOrNothing
PROPERTY FirstRequestsPaced
CHECK_DEADLOCK FALSE
