\* All deployments of the README.
SPECIFICATION Spec
CONSTANTS
  direct = direct
  exitAddr = exitAddr
  other = other
  cdnAddr = cdnAddr
  edgeAddr = edgeAddr
  NoAddr = NoAddr
  Addrs <- MCAddrs
  Direct = direct
  Exits <- MCExits
  Deployments <- MCDeployments
  SentHeaders <- MCSentHeaders
\* One request, which ends when it is judged.
CHECK_DEADLOCK FALSE
INVARIANT ExitResolved
INVARIANT VerdictCorrect
INVARIANT OnlySentEchoed
