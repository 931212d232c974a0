CONSTANTS
  Null = Null
  MAX_ENTRY_DIGITS = 1
  Digit = {}
  Operator = {}
  Text <- MCText
  Number <- MCNumber
  NumberOf <- MCNumberOf
  StringOf <- MCStringOf
  Neg <- JsNeg
  Zero <- JsZero
  NegZero <- JsNegZero
  One <- JsOne
  NonFinite <- JsNonFinite
  Response <- MCResponse
  ResponseText <- ZeroText
  Failure <- OneFailure
  MaxTicket = 2
  MaxPoint = 40
  TinyPoint = 40
  MAX_HISTORY_ENTRIES = 2
  Stored <- MCStored
  Unreadable = Unreadable
  MaxAnswers = 3
SPECIFICATION AppSpec
INVARIANTS
  HistoryIsFaithful
  ReloadKeepsHistory
PROPERTY
  AnswersAreRecorded
