SPECIFICATION FairHandoffSpec
INVARIANTS
  HandoffCommitted
  FailureSaved
  NestedPassReboots
PROPERTIES
  CommitBeforeTpmClose
  CleanupEnds
CHECK_DEADLOCK FALSE
