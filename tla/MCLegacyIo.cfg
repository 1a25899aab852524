SPECIFICATION FairSpec
CONSTANTS
  Files = {f1, f2}
  Fds = {n1, n2}
  Ops = {o1, o2}
  Reader = o1
  MaxHandles = 2
  Dirs = {"Read", "Write"}
  dirOf <- Directions
  NoFile = NoFile
  NoOp = NoOp
  Busy = {f1}
INVARIANTS
  DescriptorsOwned
  NoLostReadiness
PROPERTY CancelEnds
CHECK_DEADLOCK FALSE
