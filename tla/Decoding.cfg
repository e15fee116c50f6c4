SPECIFICATION Spec
CONSTANTS
  SamplesPerSymbol = 4
  NonFinite = NonFinite
  Recordings <- AllRecordings
  RawFrames <- AllRawFrames
  DlqSizes = {0, 2}
  MaxLetters = 3
INVARIANT FramesArrive
INVARIANT NoForgery
INVARIANT SpecsTotal
INVARIANT ScoreSound
INVARIANT RecentAreNewest
CHECK_DEADLOCK FALSE
