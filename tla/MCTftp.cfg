SPECIFICATION FairSpec
CONSTANTS
  Tids = {1, 2}
  Files <- MCFiles
  MaxSizes = {2, 7}
  TftpMaxBlockSize = 2
  NumWrap = 3
  ChannelSize = 2
  ServerMayFail = {TRUE, FALSE}
  Noise = TRUE
INVARIANTS
  LockStep
PROPERTIES
  TransfersFile
  TransferSucceeds
CHECK_DEADLOCK FALSE
