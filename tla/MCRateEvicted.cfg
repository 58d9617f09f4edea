\* The documented limit against a cache that evicts.
SPECIFICATION WSpec
CONSTANTS
  Threads = {t1, t2}
  Buckets = {b1, b2, b3, b4}
  NoBucket = NoBucket
  NoClient = NoClient
  Clients <- Rivals
  Limits <- OneLimit
  Second = 1
  Minute = 1
  TimeToIdle = 2
  MaxCapacity = 1
  MaxStall = 1
  MaxNow = 3
  MaxCount = 5
VIEW MCWView
SYMMETRY MCSymmetry
INVARIANT DocumentedRate
