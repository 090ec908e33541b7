CONSTANTS
  chat = chat
  File = {chat}
  NoFile = NoFile
  MaxLines = 2
  Blank = {}
  Capacity = 1
  DebounceTicks = 1
  FtsTicks = 2
  MaxFaults = 0
  MaxRestarts = 0
SPECIFICATION FairSpec
PROPERTY WritesAreSynced
CHECK_DEADLOCK FALSE
