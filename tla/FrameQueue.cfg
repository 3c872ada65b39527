CONSTANTS
  p = p
  g1 = g1
  g2 = g2
  None = None
  MaxSize = 3
  Getters = {g1, g2}
  Payloads = {p}
  MaxPuts = 4
SPECIFICATION FairSpec
CHECK_DEADLOCK FALSE
PROPERTY MotionIsShedLast
PROPERTY EveryFrameLeaves
PROPERTY WorkersEnd
PROPERTY IsLossyFifo
