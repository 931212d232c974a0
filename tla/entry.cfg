CONSTANTS
  Null = Null
  MAX_ENTRY_DIGITS = 2
  Digit = {"0", "7"}
  Operator = {"add"}
  Text <- MCText
  Number <- MCNumber
  NumberOf <- MCNumberOf
  StringOf <- MCStringOf
  Neg <- JsNeg
  Zero <- JsZero
  NegZero <- JsNegZero
  One <- JsOne
  NonFinite <- JsNonFinite
  Response <- MCResponse
  ResponseText <- DisplayText
  Failure <- OneFailure
  MaxTicket = 2
  MaxPoint = 40
  TinyPoint = 40
  DEFAULT_MAX_SIGNIFICANT = 3
SPECIFICATION PageSpec
ACTION_CONSTRAINTS
  RetryOnly
  ShortSums
  LongStaysLong
INVARIANTS
  EntryIsNormal
  DisplayTellsTheNumber
PROPERTIES
  ShakeIsHonest
  StaleKeysAreHarmless
