CONSTANTS
  NoVM = NoVM
  VM = {v1, v2}
  Timer = {1}
  WORD = 3
  HIGH = 4
  MAX_TIME = 3
  STEP = 1
  TEARS = FALSE
SPECIFICATION FairSpec
INVARIANT TypeOK
PROPERTIES IsVirtualTimer DeadlineDelivered
