SPECIFICATION Spec
CONSTANTS
  Threads = {t1, t2}
  NoThread = NoThread
  Callers = {"mlibc"}
  Initialisers <- Shared
  Leftover <- Zero
  ClientMay = {}
  MaxHeld = 1
  MaxUint = 3
  Junk <- AnyFlags
  WakeErrors <- Wakes
INVARIANT NoAccessAfterDestroy
CHECK_DEADLOCK FALSE
