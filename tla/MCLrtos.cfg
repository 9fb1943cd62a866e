\* The guest kernel with its user program.
SPECIFICATION FairSpec
CONSTANTS
  PRIORITY = 2
  PoolSizes = {7, 14}
  MAX_LATE = 1
  MAX_DEPTH = 4
INVARIANTS StacksKept OneOwner
PROPERTIES ZombieStays TasksServed
