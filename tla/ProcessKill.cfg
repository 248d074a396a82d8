SPECIFICATION FairSpec
CONSTANTS
  idleproc = idle
  initproc = init
  u1 = u1
  u2 = u2
  u3 = u3
  kt = kt
  Procs = {idle, init, u1, u2}
  KThreads = {}
  FirstChildren = {u1}
  MaxProcess = 5
  SleepTimes = {1}
  MaxTimeSlice = 1
  KillInit = FALSE
  NoProc = NoProc
  AnyChild = AnyChild
PROPERTIES KilledExit
