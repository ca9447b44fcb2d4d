CONSTANTS
  APS = {1, 2}
  JOB_QUEUE = 2
  MAX_JOBS = 3
SPECIFICATION SmpSpec
INVARIANT SmpOwnJob
CHECK_DEADLOCK FALSE
