CONSTANTS
  NR_TASKS = 3
  INITIAL_VMS = 2
  PRIORITY = 1
  Reg = {r0, r1}
  InitReg = r0
  PC_MOD = 2
  POOL = 4
  TASK_PAGES = 2
  CONSOLE_PAGES = 2
  IMAGE_PAGES = 1
  MAX_RX = 0
  PAGE_NR = 21
  PTRS = 2
  VA_NR = 6
  WINDOW = 3
  WINDOW_END = 4
  SLOTS = 2
  INITIAL_GUESTS = 1
  MAX_IMAGE = 2
SPECIFICATION HostSpec
INVARIANTS WellFormed PagesCounted DeviceTraps
PROPERTIES IsPrivateCpu IsAddressSpace
