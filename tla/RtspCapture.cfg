CONSTANTS
  c1 = c1
  c2 = c2
  t1 = t1
  t2 = t2
  t3 = t3
  configured = configured
  removed = removed
  bootstrap = bootstrap
  shutdown = shutdown
  NoTask = NoTask
  Cameras = {c1}
  Tasks = {t1, t2, t3}
  Adders = {configured, bootstrap}
  Removers = {removed}
  Closers = {shutdown}
  Workers = 2
  PoolSize = 9
SPECIFICATION FairSpec
CHECK_DEADLOCK FALSE
INVARIANT WorkersAreAccountedFor
PROPERTY EveryTaskGetsThere
