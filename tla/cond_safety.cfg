SPECIFICATION Spec
CONSTANTS
  Threads = {t1, t2, t3}
  NoThread = NoThread
  SeqMod = 3
  FirstSeq = {1}
  MaxBroadcasts = 2
  Reports <- AnyReport
  KernelMay = {"clock_fails", "wake_fails"}
SYMMETRY Symmetry
INVARIANTS NoLostSignal CondAbortsAreReports
PROPERTIES GenuineWakeupReturns ImplementsCond
CHECK_DEADLOCK FALSE
