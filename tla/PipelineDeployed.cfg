SPECIFICATION RawFairSpec
CONSTANTS
  d1 = d1
  d2 = d2
  a1 = a1
  m1 = m1
  m2 = m2
  r1 = r1
  r2 = r2
  r3 = r3
  o1 = o1
  Nothing = Nothing
  Workers = {d1, a1, m1}
  Role <- Deployed
  RawSources = {r1, r2}
  AudioSources = {o1}
  MaxFrames = 1
  Max <- OneEach
  MaxUpset = 2
INVARIANT InOrder
PROPERTY RawFramesLeave
CHECK_DEADLOCK FALSE
