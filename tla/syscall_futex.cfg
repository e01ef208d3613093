SPECIFICATION SysSpec
CONSTANTS
  Builds = {"linux"}
  Half <- Bits
  MaxErrno <- LastErrno
  ENOSYS = 9
  MaxResult <- LastResult
  FutexOps <- SomeOps
INVARIANT FutexWaitReturnsErrors
