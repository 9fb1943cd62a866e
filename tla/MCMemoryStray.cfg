CONSTANTS
  PAGE_NR = 21
  PTRS = 2
  VA_NR = 6
  WINDOW = 3
  WINDOW_END = 4
  SLOTS = 2
  INITIAL_GUESTS = 1
  MAX_IMAGE = 2
SPECIFICATION MemorySpec
INVARIANT WindowStaysClosed
CHECK_DEADLOCK FALSE
