--------------------------- MODULE CalculatorEngine ---------------------------
(****************************************************************************)
(* lib/calculator-engine.ts: the calculator as a pure state machine.  Every *)
(* key is a function from a CalcState to a transition, a record of the next *)
(* state and the request the caller has to send (Null for none).            *)
(*                                                                          *)
(* JavaScript's numbers are a parameter: a set Number with the conversions  *)
(* Number(text) and String(number).  Text is the set of strings the display *)
(* can hold; any set closed under the edits will do.  JsNumber.tla is the   *)
(* instance the model checker uses.                                         *)
(****************************************************************************)
EXTENDS EntryText

CONSTANTS
  Null,            \* JavaScript's null, and the absent `b` of a unary request
  Digit,           \* the digit keys that are pressed
  Operator,        \* the operator keys that are pressed
  Text,            \* the strings the display may hold
  Number,          \* the JavaScript numbers, NaN and the infinities included
  NumberOf(_),     \* Number(text)
  StringOf(_),     \* String(number)
  Neg(_),          \* unary minus
  Zero, NegZero, One

ASSUME NumberAssumption ==
  /\ {Zero, NegZero, One} \subseteq Number
  /\ NegZero \notin {Zero, One}
  /\ Null \notin Number
  /\ StringOf(Zero) = <<"0">>
  /\ \A x \in Number : Neg(x) \in Number /\ StringOf(x) \in Text
  /\ \A t \in Text : NumberOf(t) \in Number

ASSUME TextAssumption ==
  /\ {<<"0">>, <<"0", ".">>} \subseteq Text
  /\ \A d \in Digit : <<d>> \in Text
  /\ \A t \in Text :
       /\ \A d \in Digit : AppendDigit(t, d) \in Text
       /\ AppendDecimal(t) \in Text
       /\ DropLastChar(t) \in Text
       /\ ToggleEntrySign(t) \in Text

-----------------------------------------------------------------------------
BinaryOperation == {"add", "subtract", "multiply", "divide", "power"}

UnaryKey == {"sqrt", "percent"}

ASSUME KeyAssumption == Digit \subseteq DigitChar /\ Operator \subseteq BinaryOperation

Phase == {"idle", "enteringA", "operatorSelected", "enteringB", "result", "error"}

Entering == {"enteringA", "enteringB"}

(* What the server is asked to compute; b is Null when the body has none.   *)
CalculateRequest ==
  [operation : BinaryOperation \cup UnaryKey, a : Number, b : Number \cup {Null}]

(* The sentences of lib/error-messages.ts, named by the code they are for.  *)
(* Two codes with the same sentence keep two names; FALLBACK is the rest.   *)
Message ==
  {"INVALID_BODY", "VALIDATION_FAILED", "UNSUPPORTED_OPERATION", "UNEXPECTED_OPERAND",
   "DIVISION_BY_ZERO", "DOMAIN_ERROR", "RESULT_NOT_FINITE", "UNSUPPORTED_MEDIA_TYPE",
   "PAYLOAD_TOO_LARGE", "NOT_FOUND", "METHOD_NOT_ALLOWED", "RATE_LIMITED", "INTERNAL",
   "NETWORK", "TIMEOUT", "UNEXPECTED", "INVALID_RESPONSE", "FALLBACK"}

CalcState ==
  [phase : Phase, display : Text, a : Number \cup {Null}, b : Number \cup {Null},
   operator : BinaryOperation \cup {Null}, error : Message \cup {Null},
   lastRequest : CalculateRequest \cup {Null}]

initialState ==
  [phase |-> "idle", display |-> <<"0">>, a |-> Null, b |-> Null,
   operator |-> Null, error |-> Null, lastRequest |-> Null]

Transition == [state : CalcState, effect : CalculateRequest \cup {Null}]

Stay(state) == [state |-> state, effect |-> Null]

Emit(state, request) == [state |-> state, effect |-> request]

-----------------------------------------------------------------------------
(* Helpers.                                                                 *)

OrZero(value) == IF value = Null THEN Zero ELSE value         \* value ?? 0

Unsigned(value) == IF value \in {Zero, NegZero} THEN Zero ELSE value

ParseEntry(entry) == Unsigned(NumberOf(entry))

Negate(value) == Unsigned(Neg(OrZero(value)))

BinaryRequest(operator, a, b) ==
  [operation |-> IF operator = Null THEN "add" ELSE operator, a |-> OrZero(a), b |-> b]

SqrtRequest(a) == [operation |-> "sqrt", a |-> a, b |-> Null]

PercentRequest(a, b) == [operation |-> "percent", a |-> a, b |-> b]

UnaryRequest(op, value) ==
  IF op = "sqrt" THEN SqrtRequest(value) ELSE PercentRequest(value, One)

-----------------------------------------------------------------------------
(* The keys.                                                                *)

InputDigit(state, digit) ==
  CASE state.phase \in {"idle", "result", "error"} ->
         Stay([initialState EXCEPT !.phase = "enteringA",
                                   !.display = AppendDigit(<<"0">>, digit)])
    [] state.phase \in Entering ->
         Stay([state EXCEPT !.display = AppendDigit(state.display, digit)])
    [] state.phase = "operatorSelected" ->
         Stay([state EXCEPT !.phase = "enteringB",
                            !.display = AppendDigit(<<"0">>, digit), !.b = Null])

InputDecimal(state) ==
  CASE state.phase \in {"idle", "result", "error"} ->
         Stay([initialState EXCEPT !.phase = "enteringA", !.display = <<"0", ".">>])
    [] state.phase \in Entering ->
         Stay([state EXCEPT !.display = AppendDecimal(state.display)])
    [] state.phase = "operatorSelected" ->
         Stay([state EXCEPT !.phase = "enteringB", !.display = <<"0", ".">>, !.b = Null])

ToggleSign(state) ==
  CASE state.phase \in {"idle", "error"} -> Stay(initialState)
    [] state.phase \in Entering ->
         Stay([state EXCEPT !.display = ToggleEntrySign(state.display)])
    [] state.phase \in {"operatorSelected", "result"} ->
         LET value == Negate(state.a)
         IN  Stay([state EXCEPT !.a = value, !.display = StringOf(value)])

Backspace(state) ==
  CASE state.phase \in {"idle", "error"} -> Stay(initialState)
    [] state.phase \in Entering ->
         Stay([state EXCEPT !.display = DropLastChar(state.display)])
    [] state.phase \in {"operatorSelected", "result"} -> Stay(state)

ClearEntry(state) ==
  CASE state.phase \in {"idle", "enteringA", "result", "error"} -> Stay(initialState)
    [] state.phase = "operatorSelected" -> Stay(state)
    [] state.phase = "enteringB" ->
         Stay([state EXCEPT !.phase = "operatorSelected",
                            !.display = StringOf(OrZero(state.a)), !.b = Null])

ClearAll(state) == Stay(initialState)

SetOperator(state, operator) ==
  CASE state.phase \in {"idle", "error"} ->
         Stay([initialState EXCEPT !.phase = "operatorSelected", !.a = Zero,
                                   !.operator = operator])
    [] state.phase = "enteringA" ->
         LET a == ParseEntry(state.display)
         IN  Stay([state EXCEPT !.phase = "operatorSelected", !.a = a,
                                !.display = StringOf(a), !.operator = operator])
    [] state.phase = "operatorSelected" -> Stay([state EXCEPT !.operator = operator])
    [] state.phase = "result" ->
         Stay([state EXCEPT !.phase = "operatorSelected", !.operator = operator, !.b = Null])
    [] state.phase = "enteringB" ->
         Emit([state EXCEPT !.phase = "operatorSelected", !.a = Null, !.b = Null,
                            !.operator = operator],
              BinaryRequest(state.operator, state.a, ParseEntry(state.display)))

(* A mistake: a repeated `=` leaves the request of the first one behind.    *)
EvaluateKeepsFirst(state) ==
  CASE state.phase \in {"idle", "error"} -> Stay(initialState)
    [] state.phase = "enteringA" ->
         LET a == ParseEntry(state.display)
         IN  Stay([initialState EXCEPT !.phase = "result", !.a = a, !.display = StringOf(a)])
    [] state.phase \in {"operatorSelected", "enteringB"} ->
         LET b == IF state.phase = "enteringB" THEN ParseEntry(state.display) ELSE OrZero(state.a)
             request == BinaryRequest(state.operator, state.a, b)
         IN  Emit([state EXCEPT !.phase = "result", !.b = b, !.lastRequest = request], request)
    [] state.phase = "result" ->
         IF state.lastRequest = Null THEN Stay(state)
         ELSE Emit(state, [state.lastRequest EXCEPT !.a = OrZero(state.a)])

RequestEvaluate(state) ==
  CASE state.phase \in {"idle", "error"} -> Stay(initialState)
    [] state.phase = "enteringA" ->
         LET a == ParseEntry(state.display)
         IN  Stay([initialState EXCEPT !.phase = "result", !.a = a, !.display = StringOf(a)])
    [] state.phase = "operatorSelected" ->
         LET a == OrZero(state.a)
             request == BinaryRequest(state.operator, a, a)
         IN  Emit([state EXCEPT !.phase = "result", !.b = a, !.lastRequest = request], request)
    [] state.phase = "enteringB" ->
         LET b == ParseEntry(state.display)
             request == BinaryRequest(state.operator, state.a, b)
         IN  Emit([state EXCEPT !.phase = "result", !.b = b, !.lastRequest = request], request)
    [] state.phase = "result" ->
         IF state.lastRequest = Null THEN Stay(state)
         ELSE LET request == [state.lastRequest EXCEPT !.a = OrZero(state.a)]
              IN  Emit([state EXCEPT !.lastRequest = request], request)

ApplyUnary(state, op) ==
  CASE state.phase \in {"idle", "error"} ->
         Emit([initialState EXCEPT !.phase = "result"], UnaryRequest(op, Zero))
    [] state.phase = "enteringA" ->
         Emit([state EXCEPT !.phase = "result"], UnaryRequest(op, ParseEntry(state.display)))
    [] state.phase \in {"operatorSelected", "result"} ->
         Emit(state, UnaryRequest(op, OrZero(state.a)))
    [] state.phase = "enteringB" ->
         LET entry == ParseEntry(state.display)
         IN  Emit(state, IF op = "sqrt" THEN SqrtRequest(entry)
                                        ELSE PercentRequest(OrZero(state.a), entry))

-----------------------------------------------------------------------------
(* The two ways an answer comes back.                                       *)

(* A mistake: the result is shown and not kept as the operand.              *)
ResultNotKept(state, value) ==
  Stay([state EXCEPT !.display = StringOf(value), !.error = Null])

ApplyResult(state, value) ==
  CASE state.phase \in Entering ->
         Stay([state EXCEPT !.display = StringOf(value), !.error = Null])
    [] state.phase \in {"operatorSelected", "result"} ->
         Stay([state EXCEPT !.a = value, !.b = Null, !.display = StringOf(value),
                            !.error = Null])
    [] state.phase \in {"idle", "error"} ->
         Stay([initialState EXCEPT !.phase = "result", !.a = value,
                                   !.display = StringOf(value)])

ApplyError(state, message) ==
  Stay([state EXCEPT !.phase = "error", !.error = message])
-----------------------------------------------------------------------------
(* The line above the number, as the tokens it is joined from; an operation *)
(* stands for its symbol, each has one of its own.                          *)
expressionOf(state) ==
  CASE state.phase \in {"idle", "enteringA", "error"} -> <<>>
    [] state.phase \in {"operatorSelected", "enteringB"} ->
         IF state.operator = Null THEN <<>> ELSE <<StringOf(OrZero(state.a)), state.operator>>
    [] state.phase = "result" ->
         LET last == state.lastRequest
         IN  IF last = Null THEN <<>>
             ELSE IF last.b = Null THEN <<StringOf(last.a), last.operation, "=">>
             ELSE <<StringOf(last.a), last.operation, StringOf(last.b), "=">>
=============================================================================
