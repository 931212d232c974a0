CONSTANTS
  Null = Null
  MaxExp = 1
  Call <- MCCall
  OtherRequest <- MCOtherRequest
SPECIFICATION FairSpec
INVARIANTS
  TypeOK
  FailureIsAttributed
  ForeignPageIsShutOut
  MutationIsSentOnce
  AnswersAsDocumented
  EveryOperationHasAKey
PROPERTIES
  ImplementsEvaluation
  CallSettles
CHECK_DEADLOCK FALSE
