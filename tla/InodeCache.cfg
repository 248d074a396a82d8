SPECIFICATION FairSpec
CONSTANTS
  Threads = {t1, t2, t3}
  Inos = {i1, i2}
  Nodes = {n1, n2}
  NoIno = NoIno
  NoNode = NoNode
  NoThread = NoThread
  MaxVer = 1
  IOErrors = TRUE
INVARIANTS NoUseAfterFree ReclaimCount NoLostUpdate
PROPERTY NoLeak
