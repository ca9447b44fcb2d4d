CONSTANTS
  MAX_TASKS = 4
  ITEMS = 5
  PROD = 1
  CONS = 3
  APS = {1, 2}
  JOB_QUEUE = 2
  MAX_JOBS = 3
  PING_COUNT = 2
  MAX_PINGS = 2
  RX_BUFFERS = 2
  MAX_ARRIVALS = 3
  RS_MAX_TASKS = 3
  MAX_PRIORITY = 2
  BASE_SLICE = 1
  RS_QUEUED = 4
SPECIFICATION Spec
INVARIANTS
  Exclusive NoItemLost
  SmpTakenInOrder
  NetTrusted
  RsRunnableQueued
PROPERTIES
  LocksRetryFair DemoAllConsumed SmpAllTaken NetPingEnds RsTopRuns
CHECK_DEADLOCK FALSE
