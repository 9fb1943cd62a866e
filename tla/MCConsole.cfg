\* The console, the devices and the interrupt lines of two VMs.
SPECIFICATION Spec
CONSTANTS
  FIFO_ROOM = 2
  Garbage = Garbage
  LAST = 2
  Mortal = {2}
  Keys = {"text", "@", "2", "enter", "esc"}
  Loads <- MCLoads
  Stores <- MCStores
  Timers = {1}
  RX_SIZE = 2
  MAX_OPS = 5
INVARIANTS BuffersTrue InterruptsTrue KeysStayPut OutputKept
PROPERTIES NoStepStrays
CHECK_DEADLOCK FALSE
