\* Two keys in a cache with room for one.
SPECIFICATION Spec
CONSTANTS
  Threads = {t1, t2}
  Buckets = {b1, b2, b3, b4}
  NoBucket = NoBucket
  Clients <- Rivals
  Limits <- OffOrOne
  Second = 1
  Minute = 1
  TimeToIdle = 2
  MaxCapacity = 1
  MaxStall = 1
  MaxNow = 3
VIEW MCView
SYMMETRY MCSymmetry
INVARIANT BucketInv
PROPERTY ImplementsIdeal
