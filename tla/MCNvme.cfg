SPECIFICATION Spec
CONSTANTS
  CSQ_SIZE = 3
  CCQ_SIZE = 3
  MQES = 4
  MaxTransfer = 2
  DirectBlocks = 1
  Requests <- MCRequests
  MaxRequests = 3
INVARIANTS
  DataMoved
  NoDeadWait
  ListsKept
PROPERTIES
  CommandsKept
CHECK_DEADLOCK FALSE
