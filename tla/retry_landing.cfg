CONSTANTS
  Null = Null
  MAX_ENTRY_DIGITS = 1
  Digit = {"7"}
  Operator = {"add"}
  Text <- MCText
  Number <- MCNumber
  NumberOf <- MCNumberOf
  StringOf <- MCStringOf
  Neg <- JsNeg
  Zero <- JsZero
  NegZero <- JsNegZero
  One <- JsOne
  NonFinite <- JsNonFinite
  Response <- MCResponse
  ResponseText <- PlainText
  Failure <- MCFailure
  MaxTicket = 2
  MaxPoint = 40
  TinyPoint = 40
SPECIFICATION Spec
PROPERTY AnswerKeepsOperator
