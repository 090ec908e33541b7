CONSTANTS
  daemon = daemon
  cli = cli
  Proc = {daemon}
  NoProc = NoProc
  NumLines = 1
  Kinds = {"record"}
  Cuts = {0, 1, 2}
  BatchSize = 1
  MayFail = FALSE
  MaxFaults = 0
SPECIFICATION Spec
INVARIANT PassedIsIngested
CHECK_DEADLOCK FALSE
