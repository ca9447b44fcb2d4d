CONSTANTS
  MAX_TASKS = 3
  MAX_PROCS = 2
  MAX_PID = 3
  CODES = {1}
  CHUNKS = 3
SPECIFICATION Spec
INVARIANTS AsSafe KstackPrivate ProcInv
CHECK_DEADLOCK FALSE
