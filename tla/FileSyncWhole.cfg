\* Whole-line appends, no failing write, one kill or one lost offset.
CONSTANTS
  daemon = daemon
  cli = cli
  Proc = {daemon, cli}
  NoProc = NoProc
  NumLines = 3
  Kinds = {"record", "malformed"}
  Cuts = {0}
  BatchSize = 2
  MayFail = FALSE
  MaxFaults = 1
SPECIFICATION FairSpec
INVARIANTS
  PassedIsIngested
  OnlyMalformedReported
PROPERTIES
  DeliversAtLeastOnce
  EventuallyIngested
  CatchesUp
