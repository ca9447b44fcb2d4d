CONSTANTS
  FRAMES = 9
  RESERVE_END = 4
  HEAP_FRAME = 3
  HEAP_SIZE = 6
  FRAME_UNITS = 2
  PAGE_COUNTS = {1, 2, 3}
  SIZES = {0, 1, 2}
  ALIGNS = {1, 4}
SPECIFICATION MemSpec
INVARIANT MemHeapReserved
CHECK_DEADLOCK FALSE
