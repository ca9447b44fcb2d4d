CONSTANTS
  AFS_MAX_FILES = 2
  AFS_MAX_FREE_EXTENTS = 2
  TOTAL = 9
  DISK = 8
  CHUNK = 2
  NAMES = {a, b, c}
  LONG = {c}
  FILE_SIZES = {1, 3}
  MAX_WRITES = 4
  QNUM = 8
  MAX_REQUESTS = 4
  RAM_NAMES = {f, g, h}
  FULL_NAMES = {h}
  RAMFS_MAX_FILES = 2
  RAMFS_MAX_SIZE = 2
  RAM_LENGTHS = {1, 3}
  DEVICE_NAMES = {d}
  DEV_MAX = 1
  OPEN_COUNTS = 3
  PROC_FD_MAX = 2
  PCBS = 2
  TASK_SLOTS = 3
  MAX_OPENS = 2
  LOG_MAX_ENTRIES = 2
  MAX_LOGGED = 4
  LINE_MAX = 4
  KEYS = {"x", "SPACE"}
  FRAMES = 9
  RESERVE_END = 4
  HEAP_FRAME = 3
  HEAP_SIZE = 6
  FRAME_UNITS = 2
  PAGE_COUNTS = {1, 2, 3}
  SIZES = {0, 1, 2}
  ALIGNS = {1, 4}
  BASES = {0, 4}
  RAM_SIZES = {1, 3, 9}
  RAM_START = 4
  KERNEL_MIN_SIZE = 2
  RAM_LIMIT = 8
  UART_BASE = 9
  DEFAULT_RAM_SIZE = 5
  MAX_TOKENS = 5
  MAX_DEPTH = 3
  IPC_MAX_QUEUES = 2
  IPC_MAX_MSG = 2
  IPC_MSG_SIZE = 1
  Payloads = {w}
  LENS = {0, 2}
  Senders = {s1}
  NULL = NULL
  MAX_TICK_TASKS = 3
  AI_PERIOD_TICKS = 2
  AI_HIST_LEN = 2
  CMT_HIST_LEN = 2
  LEARN_MEMORY = 4
  LEARN_EVERY = 2
  SCAN_EVERY = 1
  DEBUG_MAX_ISSUES = 2
  DEBUG_MAX_FIXES = 2
  ERRORS_AFTER = 0
  HUNG_AFTER = 2
  HEAP_PCTS = {50, 80}
  MAX_TICKS = 3
  MAX_CALLS = 2
  HOST_PERIOD_TICKS = 2
  HOST_HIST_LEN = 2
  FREE_PAGES = 1
  RATES = {5, 30, 490}
  PAGES = {1}
  MAX_READS = 2
  MAX_FORCED = 3
  MAX_CHANNELS = 2
  DATA_SIZE = 2
  CAPACITIES = {0, 2}
  LENGTHS = {1, 2}
  MAX_SENT = 3
  TOTAL_FRAMES = 6
  RESERVED_FRAMES = 2
  WORD = 3
  FREE_STACK_SIZE = 2
  USIZE = 8
  MAX_HELD = 2
  CAP_TASKS = 2
  CAP_SLOTS = 2
  AUDIT_SIZE = 3
  RESOURCES = {mem1, mem2}
  RIGHTS = {R, G}
  GRANT = G
  MAX_CAPS = 3
SPECIFICATION serialSpec
INVARIANTS
  NoOverlap Durable
  BlkCarriedOut
  RamTable
  DevDescriptors
  LogLatest
  ShellRunsShown
  MemSound
  LdrFromTree
  EngRecords
  HostBooks
  RiExactlyOnce
  RfSound
  RcNoAmplification RcTables
PROPERTIES
  ImplementsFifo EngFailSafe
CHECK_DEADLOCK FALSE
