CONSTANTS
  Workers = 2
  Horizon = 7
  MaxEntries = 5
  PreRoll = 2
  PostRoll = 3
  MaxDuration = 4
  PollInterval = 2
  MaxPollGap = 2
  MaxLag = 2
  MaxTime = 11
SPECIFICATION EventsSpec
CHECK_DEADLOCK FALSE
INVARIANT SeenMotionIsKept
INVARIANT ManifestIsTrue
PROPERTY BufferServesTheWindow
