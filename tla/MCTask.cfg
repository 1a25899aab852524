SPECIFICATION FairSpec
CONSTANTS
  Remotes = {r1, r2}
  JoinWakers = {w1, w2}
  MaxChan = 2
  MaxLocal = 1
INVARIANTS
  RefCountExact
  NoLostWake
  NoDataRace
  NoPanicOnJoin
  JoinerWoken
  OutputNotFreedWithCell
PROPERTIES
  WakeLeadsToPoll
CHECK_DEADLOCK FALSE
