SPECIFICATION Spec
CONSTANTS
  Kinds <- TheKinds
  Versions = {0, 1, 2}
  TRIES = 6
  BLOCK = 2
  Lbas = {4, 6}
  Nums = {0, 1, 2, 3}
  Faults = {"lost", "unanswered", "garbled", "refused", "busy", "late", "unstable"}
  MAX_FAULTS = 3
INVARIANTS DriverAgrees ReadsRight
PROPERTIES CallsAdvance 
