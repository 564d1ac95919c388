SPECIFICATION Spec
CONSTANTS
  MaxBurst = 3
  WakeRetries = 3
  CommandSizes <- MCCommandSizes
  ResponseSizes <- MCResponseSizes
  RoomSize = 5
  MaxCalls = 3
  MaxFaults = 3
INVARIANTS
  ExecutesWhatWasSent
  AnswerIsTheCommands
  RecoversAtOnce
CHECK_DEADLOCK FALSE
