SPECIFICATION Spec
CONSTANTS
  Top = 12
  Low = 6
  Page = 2
  Chunk = 5
  Block = 2
  Image <- MCImage
  Ramoops <- MCRamoops
  Maps <- MCMapsAll
  Faults <- MCFaults
INVARIANTS
  WipeExact
  VerdictRight
  ProgressRight
  TestsFreeMemory
