SPECIFICATION Spec
CONSTANTS
  Symbols <- MCSymbols
  Checks <- MCChecks
  NonceOf <- MCNonceOf
  Direct <- MCDirect
  Spellings <- MCSpellings
  Nonces <- MCNonces
  Directs <- MCDirects
  Bodies <- MCBodies
  NonceChars <- MCNonceChars
  NonceLen <- MCNonceLen
  Replicas = {r1, r2}
  MaxRestarts = 1
  MaxAnswers = 2
SYMMETRY MCSymmetry
INVARIANT SignedInv
INVARIANT Genuine
INVARIANT Fresh
PROPERTY HonestVerified
CHECK_DEADLOCK FALSE
