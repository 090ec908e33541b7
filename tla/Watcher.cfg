CONSTANTS
  chat = chat
  File = {chat}
  NoFile = NoFile
  MaxLines = 3
  Blank = {1}
  Capacity = 1
  DebounceTicks = 1
  FtsTicks = 2
  MaxFaults = 2
  MaxRestarts = 1
SPECIFICATION FairSpec
INVARIANTS TypeOK LagExplained StaleIsPlanned StartedOnce
PROPERTIES EventServed QuietThenFresh SignalEndsLoop
CHECK_DEADLOCK FALSE
