------------------------------- MODULE ApiClient -------------------------------
(****************************************************************************)
(* lib/api.ts and the two hooks that call it, as far as they compute: what  *)
(* a response becomes, what a rejection becomes, how often a call is tried, *)
(* and the row of keys that is drawn from the operations the server lists.  *)
(*                                                                          *)
(* A response, as the browser lets the page see it, is its status, the      *)
(* X-Request-ID it may read or Null, and its body.  A body is "html" (or    *)
(* anything else that is not JSON) or the JSON of a problem, of one of the  *)
(* two answers, or of something else.                                       *)
(****************************************************************************)
EXTENDS HttpApi

ApiError(status, code, requestId) ==
  [ok |-> FALSE, status |-> status, code |-> code, requestId |-> requestId, value |-> Null]

Parsed(value) == [ok |-> TRUE, status |-> 200, code |-> Null, requestId |-> Null, value |-> value]

(* A mistake: whichever signal has fired, it is called a time-out.          *)
rejectionMerged(timedOut, aborted) ==
  ApiError(0, IF timedOut \/ aborted THEN "TIMEOUT" ELSE "NETWORK", Null)

(* The catch around fetch() and text(): `timeout.aborted` decides.          *)
rejection(timedOut, aborted) == ApiError(0, IF timedOut THEN "TIMEOUT" ELSE "NETWORK", Null)

errorFromResponse(response) ==
  IF response.body.kind = "problem"
  THEN ApiError(response.status, response.body.code,
                IF response.body.requestId # Null THEN response.body.requestId
                                                  ELSE response.requestId)
  ELSE ApiError(response.status, "UNEXPECTED", response.requestId)

(* The schema of a kind of call accepts the answer to that kind only.       *)
answerOf(kind, response) ==
  IF response.status # 200 THEN errorFromResponse(response)
  ELSE IF response.body.kind = "html" THEN ApiError(200, "UNEXPECTED", response.requestId)
  ELSE IF response.body.kind # kind THEN ApiError(200, "INVALID_RESPONSE", response.requestId)
  ELSE Parsed(response.body.value)

(* A mistake: a calculation is retried like a query.                        *)
retriesOfAll(kind) == 1

(* A mistake: one try too many.                                             *)
retriesTwice(kind) == IF kind = "operations" THEN 2 ELSE 0

retries(kind) == IF kind = "operations" THEN 1 ELSE 0

-----------------------------------------------------------------------------
FALLBACK_OPERATIONS ==
  {[name |-> op, arity |-> 2] :
     op \in {"add", "subtract", "multiply", "divide", "power", "percent"}}
  \cup {[name |-> "sqrt", arity |-> 1]}

(* A mistake: nothing is listed until the server has answered.              *)
operationsWithoutFallback(result) ==
  IF result # Null /\ result.ok THEN result.value ELSE {}

(* useOperations(): the server's list, or the built-in one.                 *)
useOperations(result) ==
  IF result # Null /\ result.ok THEN result.value ELSE FALLBACK_OPERATIONS

KEYPAD_OPERATIONS == {"add", "subtract", "multiply", "divide"}

(* What a key of the bar does, Null when this build has no action for it.   *)
pressHandler(name) ==
  CASE name \in {"sqrt", "percent"} -> "applyUnary"
    [] name \in {"add", "subtract", "multiply", "divide", "power"} -> "setOperator"
    [] OTHER -> Null

(* The keys of the bar: an operation without an action is shown, disabled.  *)
OperationsBar(operationList, busy) ==
  LET extras == {operation \in operationList : operation.name \notin KEYPAD_OPERATIONS}
  IN  {[name |-> operation.name, press |-> pressHandler(operation.name),
        disabled |-> busy \/ pressHandler(operation.name) = Null] : operation \in extras}
=============================================================================
