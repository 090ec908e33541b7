CONSTANTS
  File <- MCFile
  Lines <- MCLines
  None <- NoValue
  MaxFaults = 0
  MaxRereads = 1
SPECIFICATION Spec
PROPERTY NoCopies
CHECK_DEADLOCK FALSE
