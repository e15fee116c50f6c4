SPECIFICATION FairSpec
CONSTANTS
  w1 = w1
  w2 = w2
  b1 = b1
  NoTicket = NoTicket
  Workers = {w1, w2}
  RawFrames <- TwoStations
  AudioObs <- NoRecording
  MaxRaw = 1
  MaxAudio = 1
  MaxCrash = 1
  MaxWindow = 1
INVARIANT TypeOK
INVARIANT QueuedOnce
INVARIANT SeenIsAccountedFor
INVARIANT UnarmedHasOwner
INVARIANT BoundedOvershoot
INVARIANT ArchivedWasQueued
PROPERTY EvictsOldestOverflow
PROPERTY DeliversOnce
PROPERTY LostIsQueuedLater
