CONSTANTS
  None = None
  s1 = s1
  s2 = s2
  a = a
  b = b
  c = c
  Servers = {s1, s2}
  Threads = {a, b, c}
  ServerOf <- MCServerOf
  Indexes = {0}
  LeastReleased = 0
  MaxTimes = 1
  MaxFaults = 1
SPECIFICATION FairSpec
INVARIANTS TypeOK Exclusive NoRowLeaks
PROPERTIES EverySessionEnds KeepsPromise
