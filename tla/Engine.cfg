CONSTANTS
  MAX_TICK_TASKS = 3
  AI_PERIOD_TICKS = 2
  AI_HIST_LEN = 2
  CMT_HIST_LEN = 2
  LEARN_MEMORY = 4
  LEARN_EVERY = 2
  SCAN_EVERY = 1
  DEBUG_MAX_ISSUES = 2
  DEBUG_MAX_FIXES = 2
  ERRORS_AFTER = 0
  HUNG_AFTER = 2
  HEAP_PCTS = {50, 80}
  MAX_TICKS = 3
  MAX_CALLS = 1
SPECIFICATION EngSpec
INVARIANT EngCadence
CHECK_DEADLOCK FALSE
