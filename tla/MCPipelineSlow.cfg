\* RDNS_TIMEOUT longer than REQUEST_TIMEOUT and a resolver that may never answer.
SPECIFICATION LiveSpec
CONSTANTS
  Requests = {r1, r2, r3}
  Ips = {a}
  Nameless = {a}
  MaxConcurrency = 1
  RdnsMax = 1
  QueueWait = 1
  RequestTimeout = 2
  RdnsWait = 1
  RdnsTimeout = 3
\* Each request is served once, so the system comes to rest.
CHECK_DEADLOCK FALSE
INVARIANT PermitAccounting
INVARIANT MetricsAgree
INVARIANT AnswerInTime
PROPERTY EveryRequestEnds
PROPERTY AnswerEventuallyCached
