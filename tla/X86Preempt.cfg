CONSTANTS
  TASKS = 3
  HOG = 1
  SCHED_QUANTUM = 2
  WATCHDOG_LIMIT = 4
SPECIFICATION PreemptSpec
PROPERTY TimeSliced
