SPECIFICATION Spec
CONSTANTS
  idleproc = idle
  initproc = init
  u1 = u1
  u2 = u2
  u3 = u3
  kt = kt
  Procs = {idle, init, u1, u2, u3, kt}
  KThreads = {kt}
  FirstChildren = {u1, kt}
  MaxProcess = 5
  SleepTimes = {1, 2}
  MaxTimeSlice = 1
  KillInit = FALSE
  NoProc = NoProc
  AnyChild = AnyChild
SYMMETRY Slots
INVARIANTS TypeOK ControlOK RunQueue NoPanic SleepersHaveTimers NoLostChild LiveParent
