SPECIFICATION Spec
CONSTANTS
  NPages = 7
  MaxAlloc = 3
  SpareTop = FALSE
  NULL = NULL
INVARIANT Unlinked
