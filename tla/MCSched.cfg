CONSTANTS
  MAX_TASKS = 3
  STARVE_CAP = 2
  WATCHDOG_LIMITS = {0, 2}
SPECIFICATION TimedSpec
INVARIANTS RunningAgree NoMaskLeak SchedInv
PROPERTIES RoundRobin ImplementsTable ReadyRuns HogFlagged
CHECK_DEADLOCK FALSE
