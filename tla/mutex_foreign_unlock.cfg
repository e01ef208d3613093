SPECIFICATION Spec
CONSTANTS
  Threads = {t1, t2, t3}
  NoThread = NoThread
  Callers = {"glibc"}
  Initialisers <- ErrorCheckStatic
  Leftover <- Zero
  ClientMay = {"unlock_unowned_errorcheck"}
  MaxHeld = 1
  MaxUint = 3
SYMMETRY Symmetry
INVARIANT HolderCounted
CHECK_DEADLOCK FALSE
