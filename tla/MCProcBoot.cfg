CONSTANTS
  MAX_TASKS = 4
  MAX_PROCS = 2
  MAX_PID = 2
  CODES = {1, 2}
  CHUNKS = 3
SPECIFICATION FairBootSpec
CHECK_DEADLOCK FALSE
INVARIANTS StatusKept GetpidRight
PROPERTY WaitReturns
