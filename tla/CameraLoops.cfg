CONSTANTS
  c1 = c1
  c2 = c2
  s1 = s1
  s2 = s2
  l1 = l1
  l2 = l2
  l3 = l3
  l4 = l4
  r1 = r1
  r2 = r2
  NoSpec = NoSpec
  NoLoop = NoLoop
  NoOne = NoOne
  Cameras = {c1}
  Sensors = {{c1}}
  Specs = {s1, s2}
  LoopIds = {l1, l2, l3}
  Saved <- MCSaved
  Reconciles = {r1, r2}
  CanFail = TRUE
  MaxEdits = 1
  MaxAlerts = 1
  MaxTries = 2
SPECIFICATION FairSpec
INVARIANT LiveLoopIsRunning
INVARIANT PublishedTracksRunning
PROPERTY CaptureStartsOnlyWhileRunning
PROPERTY EventuallyMatchesOverrides
