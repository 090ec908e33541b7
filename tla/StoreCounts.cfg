CONSTANTS
  File <- MCFile
  Lines <- MCLines
  None <- NoValue
  MaxFaults = 0
  MaxRereads = 0
SPECIFICATION Spec
INVARIANT CountsExact
CHECK_DEADLOCK FALSE
