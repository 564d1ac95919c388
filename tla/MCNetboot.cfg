SPECIFICATION NetbootSpec
CONSTANTS
  KernelSize = 5
  Page = 2
  LineSize = 4
  ArgsFiles <- MCArgsFiles
  MaxRuns = 2
INVARIANTS
  RamdiskApart
  FileIsLine
CHECK_DEADLOCK FALSE
