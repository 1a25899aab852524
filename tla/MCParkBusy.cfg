SPECIFICATION BusySpec
CONSTANTS
  Senders = {s1}
  Cap = 2
  MaxSends = 1
INVARIANT NoLostUnpark
