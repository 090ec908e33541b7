CONSTANTS
  File <- MCFile
  Lines <- MCLines
  None <- NoValue
  MaxFaults = 1
  MaxRereads = 1
SPECIFICATION Spec
INVARIANTS
  TypeOK
  NothingRejected
  ResultsLinked
  Converged
  CountsCover
  ProjectNeverAhead
PROPERTIES
  FirstSeenKept
  ReingestChangesOnlyTallies
  RetroactiveHeals
CHECK_DEADLOCK FALSE
