CONSTANTS
  Null = Null
  MAX_ENTRY_DIGITS = 2
  Digit = {"7"}
  Operator = {"add"}
  Text <- MCText
  Number <- MCNumber
  NumberOf <- MCNumberOf
  StringOf <- MCStringOf
  Neg <- JsNeg
  Zero <- JsZero
  NegZero <- JsNegZero
  One <- JsOne
  NonFinite <- JsNonFinite
  Response <- MCResponse
  ResponseText <- ExponentText
  Failure <- MCFailure
  MaxTicket = 1
  MaxPoint = 40
  TinyPoint = 40
  DEFAULT_MAX_SIGNIFICANT = 12
SPECIFICATION Spec
INVARIANT DisplayTellsTheNumber
