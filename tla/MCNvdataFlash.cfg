SPECIFICATION FairSpec
CONSTANTS
  NBlobs = 4
  BlobsPerSector = 2
  Bits <- MCBits
  Images <- MCImages
INVARIANTS
  AckedDurable
  CacheCoherent
  ProgramFits
PROPERTIES
  OnlyTailChanges
  CallReturns
