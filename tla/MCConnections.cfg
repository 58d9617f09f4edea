\* Three clients for two connections, who may come back for ever.
SPECIFICATION LiveSpec
CONSTANTS
  Clients = {c1, c2, c3}
  MaxConnections = 2
  HeaderTimeout = 2
  QueueWait = 2
  RequestTimeout = 2
  GraceExtra = 2
  Backoff = 1
\* The process ends.
CHECK_DEADLOCK FALSE
INVARIANT SlotAccounting
PROPERTY InFlightDrained
PROPERTY SlowHeadersEnd
PROPERTY ShutdownReturns
PROPERTY ProcessExits
