SPECIFICATION FairJointSpec
CONSTANTS
  Threads = {t1, t2}
  NoThread = NoThread
  Callers = {"glibc"}
  Initialisers <- Normal
  Leftover = {0}
  ClientMay = {}
  MaxHeld = 1
  MaxUint = 3
  SeqMod = 5
  FirstSeq = {0, 1}
  MaxBroadcasts = 2
  Reports <- AsStub
  KernelMay = {}
PROPERTIES BothHold WaitersWake NotifiedReturn
