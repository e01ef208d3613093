SPECIFICATION FairSpec
CONSTANTS
  Threads = {t1, t2}
  Addresses = {a1, a2}
  Objects <- Samples
  NoObject = NoObject
INVARIANTS VerdictIsTrue CacheIsTrue ScanInBounds
PROPERTY CallReturns
CHECK_DEADLOCK FALSE
