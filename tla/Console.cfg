SPECIFICATION Spec
CONSTANTS
  x = x
  NUL = NUL
  DEL = DEL
  BS = BS
  Letters = {x}
  CONSBUFSIZE = 3
  STDIN_BUFSIZE = 3
  MaxBurst = 3
  MaxRead = 3
PROPERTIES QueueSpec
