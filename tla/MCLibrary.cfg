CONSTANTS
  FIFO_SIZE = 3
  Zero = zero
  Val = {zero, a, b}
  LAST = 4
  CHUNK = 2
  ULONG = 32
  ALPHABETS <- MCAlphabets
  NTOA_BUFFER = 7
  CHAR_BITS = 2
  SHORT_BITS = 3
  INT_BITS = 4
  LONG_BITS = 6
  PTR_DIGITS = 2
  NoMemory = NoMemory
  NoDirective = NoDirective
  Directives <- MCDirectives
  Counts = {0, 2, 9}
  MailVM = {v1, v2}
  Null = null
  Page0 = page0
  Supported = {memory}
  OtherTag = other
  SHELL_CMD_MAX_LEN = 3
  Keys = {99, 50, 53, 32, 44, 46, 127, 13, 10, 27}
  Commands <- MCCommands
  TASK_IDS = 4
  Tasks = 2
  BODY = 3
  EXT = 2
  FF_VOLUMES = 1
  Alphabets <- MCNames
  NoText = NoText
SPECIFICATION LibrarySpec
INVARIANTS CountersAgree TextAsC PrintsAsC LoneCallCompletes CommandsRun NamesAgree
PROPERTIES IsBoundedQueue IsLineEditor
CHECK_DEADLOCK FALSE
