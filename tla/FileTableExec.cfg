SPECIFICATION Spec
CONSTANTS
  Procs = {init, p1, p2}
  InitProc = init
  Tables = {f1, f2}
  NFds = 3
  Files = {a}
  Root = root
  Stdin = stdin
  NoNode = NoNode
  NoTable = NoTable
  Modes = {"R"}
  Flags = {"CREAT", "EXCL"}
  MaxLeaks = 1
  AnyCall = FALSE
  StaleMemory = FALSE
SYMMETRY MCSymmetry
INVARIANT ExitedFree
