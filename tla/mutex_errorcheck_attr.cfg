SPECIFICATION Spec
CONSTANTS
  Threads = {t1, t2}
  NoThread = NoThread
  Callers = {"glibc"}
  Initialisers <- ErrorCheckByAttr
  Leftover <- Zero
  ClientMay = {}
  MaxHeld = 2
  MaxUint = 3
INVARIANT LegalRelockReturns
CHECK_DEADLOCK FALSE
