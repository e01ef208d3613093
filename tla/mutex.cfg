SPECIFICATION Spec
CONSTANTS
  Threads = {t1, t2, t3}
  NoThread = NoThread
  Callers = {"glibc"}
  Initialisers <- GlibcAll
  Leftover <- Zero
  ClientMay = {"relock_normal", "unimplemented"}
  MaxHeld = 2
  MaxUint = 3
INVARIANTS MutualExclusion HolderIsOwner NoLostWakeup AbortsAreReports
PROPERTY ImplementsLock
CHECK_DEADLOCK FALSE
