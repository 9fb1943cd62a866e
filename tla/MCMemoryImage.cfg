CONSTANTS
  PAGE_NR = 40
  PTRS = 2
  VA_NR = 4
  WINDOW = 3
  WINDOW_END = 4
  SLOTS = 3
  INITIAL_GUESTS = 1
  MAX_IMAGE = 2
SPECIFICATION MemorySpec
INVARIANT RunsItsImage
CHECK_DEADLOCK FALSE
