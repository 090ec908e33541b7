\* Torn appends and failing statements: nothing is lost silently. With MayFail
\* every kill but of a call that wrote nothing is a TxFails, so MaxFaults is 0.
\* Whole, a wide line is a record like any other; torn, a poison line is.
CONSTANTS
  daemon = daemon
  cli = cli
  Proc = {daemon, cli}
  NoProc = NoProc
  NumLines = 2
  Kinds = {"wide", "poison"}
  Cuts = {0, 1, 2}
  BatchSize = 1
  MayFail = TRUE
  MaxFaults = 0
SYMMETRY ProcSymmetry
SPECIFICATION Spec
INVARIANTS
  TypeOK
  IInv
  NoSilentLoss
  WithinFile
  CountCoversRows
PROPERTY CommitAdvances
