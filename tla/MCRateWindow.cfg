\* Two hosts of a /64 over several lives of their bucket.
SPECIFICATION WSpec
CONSTANTS
  Threads = {t1, t2}
  Buckets = {b1, b2, b3}
  NoBucket = NoBucket
  NoClient = NoClient
  Clients <- OneNet
  Limits <- MCLimits
  Second = 2
  Minute = 4
  TimeToIdle = 6
  MaxCapacity = 1
  MaxStall = 2
  MaxNow = 12
  MaxCount = 18
VIEW MCWView
SYMMETRY MCSymmetry
INVARIANT RateBound
INVARIANT RetryAfterKept
PROPERTY NoPostponement
PROPERTY ImplementsIdeal
