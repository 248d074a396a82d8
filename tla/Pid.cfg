SPECIFICATION PidSpec
CONSTANTS
  MAX_PROCESS = 5
  MAX_PID = 10
INVARIANT PidsUnique
