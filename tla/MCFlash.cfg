SPECIFICATION Spec
CONSTANTS
  SectorSize = 4
  PageSize = 2
  RomSize = 16
  HeapSize = 4
  Requests <- MCRequests
  MaxCalls = 2
  MaxFaults = 2
INVARIANTS
  CountsRight
PROPERTIES
  OnlyAsked
CHECK_DEADLOCK FALSE
