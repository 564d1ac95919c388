SPECIFICATION Spec
CONSTANTS
  SectorSize = 4
  PageSize = 2
  RomSize = 16
  HeapSize = 4
  Requests <- MCRequests
  MaxCalls = 2
  MaxFaults = 1
INVARIANTS
  LengthMeansSuccess
CHECK_DEADLOCK FALSE
