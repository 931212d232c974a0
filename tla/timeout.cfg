CONSTANTS
  None = None
  Status <- MCStatus
  MaxWrites = 2
SPECIFICATION FairSpec
INVARIANTS
  TypeOK
  ReportedOnce
  SilentMeansDone
  GaugeCountsRunning
  ObservedIsSent
PROPERTIES
  ResponseHasOneOwner
  EventuallyOver
CHECK_DEADLOCK FALSE
