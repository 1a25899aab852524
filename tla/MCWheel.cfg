SPECIFICATION Spec
CONSTANTS
  Timers = {a, b}
  Tasks = {k1, k2}
  Mult = 2
  NumLevels = 2
  Res = 2
  MaxInstant = 13
  Off = Off
  Pending = Pending
  NoTask = NoTask
INVARIANTS
  WheelConsistent
  OnTime
PROPERTIES
  Implements
SYMMETRY Alike
CHECK_DEADLOCK FALSE
