SPECIFICATION Spec
CONSTANTS
  NPages = 9
  MaxAlloc = 3
  SpareTop = TRUE
  NULL = NULL
INVARIANT BlocksOK
PROPERTY AbstractSpec
