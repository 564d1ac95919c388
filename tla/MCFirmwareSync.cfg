SPECIFICATION FairSpec
CONSTANTS
  Bursts = 2
  Slow = {"erase", "write"}
  MaxPolls = 1
  MaxFaults = 2
  MaxHash = 1
  MaxHello = 1
  MaxLimit = 1
  Boards <- MCBoards
  ChipSets <- MCChipSets
INVARIANTS
  StartsIntact
  ChipsCurrent
  ProtectedAtBoot
  WritesAccepted
  RecoveryJustified
  LidMask
PROPERTIES
  CallsRunOnce
  Settles
CHECK_DEADLOCK FALSE
