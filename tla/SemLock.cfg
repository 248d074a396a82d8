SPECIFICATION FairSpec
CONSTANTS
  idleproc = idle
  Procs = {idle, a, b, c}
  MaxTimeSlice = 1
  Permits = 1
INVARIANTS PermitsOK QueueOK NoPanic
PROPERTIES FifoSpec WaitersServed
