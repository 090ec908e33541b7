CONSTANTS
  daemon = daemon
  cli = cli
  Proc = {daemon}
  NoProc = NoProc
  NumLines = 2
  Kinds = {"record", "poison"}
  Cuts = {0}
  BatchSize = 2
  MayFail = FALSE
  MaxFaults = 0
SPECIFICATION FairSpec
PROPERTY SoundLinesIngested
