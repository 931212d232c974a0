CONSTANTS
  Null = Null
  Conn = {c1, c2}
  Environment <- MCEnvironment
  ProbePeriod = 2
SPECIFICATION FairSpec
INVARIANTS
  TypeOK
  RoutedIsAccepted
  BegunIsAnswered
  CleanExit
PROPERTY
  SignalEndsProcess
CHECK_DEADLOCK FALSE
