SPECIFICATION FairSpec
CONSTANTS
  w1 = w1
  w2 = w2
  b1 = b1
  NoTicket = NoTicket
  Workers = {w1}
  RawFrames <- OneFrame
  AudioObs <- NoRecording
  MaxRaw = 2
  MaxAudio = 1
  MaxCrash = 1
  MaxWindow = 1
PROPERTY SeenRollsOff
