SPECIFICATION FairSpec
CONSTANTS
  Tasks = {m, a}
  Main = m
  NoTask = NoTask
INVARIANT NoSleepOnWork
PROPERTIES
  QueuedRuns
  BlockOnReturns
  IoServed
  ParkServes
CHECK_DEADLOCK FALSE
