SPECIFICATION FairSpec
CONSTANTS
  idle = idle
  main = main
  idleproc = idle
  mainproc = main
  N = 3
  Times = 2
  MaxTimeSlice = 1
  Procs <- MCProcs
  Conds <- MCConds
INVARIANTS ForksExclusive WorkConserving OneActive
PROPERTY Finishes
