CONSTANTS
  e1 = e1
  e2 = e2
  s = s
  x = x
  Events = {e1, x}
  Signature <- MCSignature
  Score <- MCScore
  Invalid = {x}
  Window = 0
  MaxEntries = 2
  MaxDeliver = 2
  Failing = {"publish","ack","nak","term"}
  MaxCopies = 1
  Overload = {"vlm.normal", "vlm.background"}
  MaxTime = 1
  MaxRestarts = 1
SPECIFICATION FairSpec
CHECK_DEADLOCK FALSE
INVARIANT AckedIsAccountedFor
PROPERTY EveryEventIsSettled
