SPECIFICATION FairSpec
CONSTANTS
  Threads = {t1, t2, t3}
  NoThread = NoThread
  Callers = {"mlibc"}
  Initialisers <- Shared
  Leftover <- Zero
  ClientMay = {}
  MaxHeld = 1
  MaxUint = 3
  Junk <- AnyFlags
  WakeErrors <- Wakes
INVARIANTS DestroyedWhenUnlocked LateUnlockSucceeds
PROPERTIES SleepersWake FreeMutexIsTaken ObjectIsFreed
CHECK_DEADLOCK FALSE
