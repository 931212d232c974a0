CONSTANTS
  None = None
  Status <- MCStatus
  MaxWrites = 2
SPECIFICATION Spec
INVARIANT PanicIsLogged
CHECK_DEADLOCK FALSE
