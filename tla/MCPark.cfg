SPECIFICATION FairSpec
CONSTANTS
  Senders = {s1, s2}
  Cap = 2
  MaxSends = 2
INVARIANT SleepsSafely
PROPERTY AllReceived
