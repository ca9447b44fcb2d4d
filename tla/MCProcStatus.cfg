CONSTANTS
  MAX_TASKS = 3
  MAX_PROCS = 2
  MAX_PID = 3
  CODES = {1, 2}
  CHUNKS = 3
SPECIFICATION Spec
CHECK_DEADLOCK FALSE
INVARIANT StatusKept
