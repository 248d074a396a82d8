SPECIFICATION SFairSpec
CONSTANTS
  idleproc = idle
  initproc = init
  u1 = u1
  u2 = u2
  Procs = {idle, init, u1, u2}
  KThreads = {}
  FirstChildren = {u1}
  MaxProcess = 5
  SleepTimes = {1}
  MaxTimeSlice = 1
  KillInit = FALSE
  NoProc = NoProc
  AnyChild = AnyChild
  x = x
  NUL = NUL
  DEL = DEL
  BS = BS
  Letters = {}
  CONSBUFSIZE = 2
  STDIN_BUFSIZE = 1
  MaxBurst = 1
  MaxRead = 2
INVARIANTS ReadersWake
PROPERTIES NoStarvation KilledExitOrBlocked SleepEnds OrphansReaped ReadEnds
