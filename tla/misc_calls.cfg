SPECIFICATION MiscSpec
CONSTANTS
  Threads = {t1, t2}
  Length = 3
  Chunk = 2
  MaxCount = 3
  MaxCalls = 2
  NoOffset = NoOffset
  Width = 5
  Second = 4
  Milli = 3
  WordBits = 4
  ByteBits = 2
  MaxSeconds = 4
  MaxBytes = 5
  NullTimeout = NullTimeout
  Builds = {"linux", "managarm"}
  Half <- Bits
  MaxErrno <- LastErrno
  ENOSYS = 9
  MaxResult <- LastResult
  FutexOps <- SomeOps
INVARIANTS CountIsSent SentInOrder NoByteTwice
INVARIANTS CallsExact TimeoutExact
INVARIANT CallersSeeFailure
PROPERTIES SendReturns ErrnoIsKernels
CHECK_DEADLOCK FALSE
