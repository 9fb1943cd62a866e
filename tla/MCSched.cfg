CONSTANTS
  NR_TASKS = 3
  INITIAL_VMS = 1
  PRIORITY = 2
  Reg = {r0}
  InitReg = r0
  PC_MOD = 1
  POOL = 7
  TASK_PAGES = 2
  CONSOLE_PAGES = 2
  IMAGE_PAGES = 1
  MAX_RX = 1
SPECIFICATION FairSpec
INVARIANTS BoundsKept StacksAgree NoZombieRuns GuestHasOwnStage2 ConsoleConsistent
PROPERTIES NoStarvation TrapsReturn
