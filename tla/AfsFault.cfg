CONSTANTS
  AFS_MAX_FILES = 2
  AFS_MAX_FREE_EXTENTS = 2
  TOTAL = 9
  DISK = 8
  CHUNK = 2
  NAMES = {a, b, c}
  LONG = {c}
  FILE_SIZES = {1, 3}
  MAX_WRITES = 5
SPECIFICATION FaultySpec
INVARIANT Durable
CHECK_DEADLOCK FALSE
