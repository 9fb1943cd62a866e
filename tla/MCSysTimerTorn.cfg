CONSTANTS
  NoVM = NoVM
  VM = {v1}
  Timer = {1}
  WORD = 4
  HIGH = 4
  MAX_TIME = 6
  STEP = 1
  TEARS = TRUE
SPECIFICATION Spec
INVARIANT CountIsPast
