SPECIFICATION FairSpec
CONSTANTS
  Ops = {o1, o2}
  Keys = {k1, k2}
  Tasks = {t1, t2}
  SqCap = 2
  FdOps = {o1}
  CloseOps = {o2}
  EnterFails = TRUE
  NoOp = NoOp
  NoTask = NoTask
INVARIANTS
  InFlightSound
  NoFdLeak
  LastPollerWoken
PROPERTY SlotReclaimed
CHECK_DEADLOCK FALSE
