\* Three requests, two permits of each kind, waits that fit into REQUEST_TIMEOUT.
SPECIFICATION Spec
CONSTANTS
  Requests = {r1, r2, r3}
  Ips = {a, b}
  Nameless = {a}
  MaxConcurrency = 2
  RdnsMax = 2
  QueueWait = 2
  RequestTimeout = 3
  RdnsWait = 1
  RdnsTimeout = 1
SYMMETRY MCSymmetry
\* Each request is served once, so the system comes to rest.
CHECK_DEADLOCK FALSE
INVARIANT LookupsBounded
INVARIANT LookupsPerAddress
INVARIANT NoIdlePermit
INVARIANT NoGatewayTimeout
PROPERTY BusyOnlyWhenFull
PROPERTY ImplementsAdmission
