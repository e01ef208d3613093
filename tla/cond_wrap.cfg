SPECIFICATION Spec
CONSTANTS
  Threads = {t1, t2}
  NoThread = NoThread
  SeqMod = 3
  FirstSeq = {1}
  MaxBroadcasts = 2
  Reports <- AsStub
  KernelMay = {}
PROPERTY GenuineIsRecognised
