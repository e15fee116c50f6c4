SPECIFICATION FairSpec
CONSTANTS
  d1 = d1
  d2 = d2
  a1 = a1
  m1 = m1
  m2 = m2
  r1 = r1
  r2 = r2
  r3 = r3
  o1 = o1
  Nothing = Nothing
  Workers = {a1, m1, m2}
  Role <- Recorded
  RawSources = {}
  AudioSources = {o1}
  MaxFrames = 2
  Max <- TwoEach
  MaxUpset = 2
INVARIANT EveryItemIsSomewhere
PROPERTY EveryItemSettles
PROPERTY GoesOneWay
CHECK_DEADLOCK FALSE
