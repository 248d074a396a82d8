SPECIFICATION Spec
CONSTANTS
  p1 = p1
  p2 = p2
  Procs = {p1, p2}
  FirstProc = p1
  NPages = 18
  Fan = 2
  NULL = NULL
  Programs <- MCPrograms
  StackLow = 6
  StackPages = 1
  Values = {0, 1}
  MaxAccess = 2
  MaxSpaces = 3
INVARIANT TablesFreed
