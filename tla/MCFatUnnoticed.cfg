SPECIFICATION Spec
CONSTANTS
  SS = 8
  SZDIRE = 4
  MAX_FAT12 = 6
  MAX_FAT16 = 12
  MAX_FAT32 = 20
  MIN_SECTORS = 15
  MAX_DIR = 64
  PAGE_SIZE = 16
  Cards <- TheCards
  Paths <- ThePaths
  Sizes = {5, 19}
  Offsets = {0, 13, 32}
  Failures = {"unnoticed"}
  MAX_ACCESS = 3
INVARIANT LoadedIsFile
CHECK_DEADLOCK FALSE
