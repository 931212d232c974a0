---------------------------- MODULE CalculatorStore ----------------------------
(****************************************************************************)
(* stores/useCalculatorStore.ts: the engine plus the request in flight.     *)
(*                                                                          *)
(* A key is handled to the end before the next one (one JavaScript thread), *)
(* so every operation of the store is one action.  What interleaves with    *)
(* them are the answers: a call the store made stays in `calls` until its   *)
(* promise settles, also after AC made its answer stale, so several calls   *)
(* can be out at once and come back in any order.                           *)
(****************************************************************************)
EXTENDS CalculatorEngine

CONSTANTS
  NonFinite,     \* NaN and the infinities: JSON has no text for them
  Response,      \* the numbers the server answers with
  Failure,       \* the ways a call is rejected: [code, withId]
  MaxTicket      \* bound on the number of requests and AC presses

ASSUME StoreAssumption ==
  /\ NonFinite \subseteq Number
  /\ Response \subseteq Number \ (NonFinite \cup {NegZero})
  /\ \A x \in Response : NormalEntry(StringOf(x))
  /\ Failure \subseteq [code : Message, withId : BOOLEAN]
  /\ MaxTicket \in Nat

(* An outcome of the evaluator's promise.  The request id of a failure is   *)
(* given by the server, one per request: the ticket stands for it.          *)
Outcome == [ok : {TRUE}, result : Response] \cup [ok : {FALSE}, failure : Failure]

(* Null is none of the values it stands in for.                             *)
ASSUME NullAssumption ==
  /\ Null \notin Nat \cup BinaryOperation \cup Message \cup CalculateRequest
  /\ Null \notin [request : CalculateRequest, outcome : Outcome \cup {Null}]

VARIABLES
  calc,             \* the engine's state
  pending,          \* a calculation was sent and its answer is not applied yet
  errorRequestId,   \* request id of the failed call, or Null
  canRetry,         \* the Retry button is offered
  wired,            \* an evaluator is set (`evaluator !== null`)
  ticket,           \* identity of the request the store is waiting for
  lastSentRequest,  \* what retry() sends again
  calls             \* the promises of the evaluator that have not settled

storeState == <<calc, pending, errorRequestId, canRetry>>
vars == <<storeState, wired, ticket, lastSentRequest, calls>>

Call == [ticket : 1..MaxTicket, request : CalculateRequest, outcome : Outcome \cup {Null}]

RETRYABLE_ERROR_CODES == {"NETWORK", "TIMEOUT", "RATE_LIMITED"}

Init ==
  /\ calc = initialState
  /\ pending = FALSE
  /\ errorRequestId = Null
  /\ canRetry = FALSE
  /\ wired = FALSE
  /\ ticket = 0
  /\ lastSentRequest = Null
  /\ calls = {}

-----------------------------------------------------------------------------
(* settle() and settleError(): nothing happens unless the answer is the one *)
(* the store waits for.                                                     *)
ShowResult(state, result) ==
  /\ calc' = ApplyResult(state, result).state
  /\ pending' = FALSE
  /\ errorRequestId' = Null
  /\ canRetry' = FALSE

(* A mistake: an error leaves the keys locked.                              *)
ErrorStaysPending(state, message, requestId, retryable) ==
  /\ calc' = ApplyError(state, message).state
  /\ errorRequestId' = requestId
  /\ canRetry' = retryable
  /\ UNCHANGED pending

ShowError(state, message, requestId, retryable) ==
  /\ calc' = ApplyError(state, message).state
  /\ pending' = FALSE
  /\ errorRequestId' = requestId
  /\ canRetry' = retryable

(* A mistake: the request is sent and not remembered for retry().           *)
SendForgets(state, request) ==
  /\ ticket < MaxTicket
  /\ wired
  /\ ticket' = ticket + 1
  /\ calc' = state
  /\ pending' = TRUE
  /\ errorRequestId' = Null
  /\ canRetry' = FALSE
  /\ calls' = calls \cup {[ticket |-> ticket + 1, request |-> request, outcome |-> Null]}
  /\ UNCHANGED <<wired, lastSentRequest>>

(* send(): a new ticket, then the evaluator; with none wired the press      *)
(* fails on the spot with an error that is not an ApiError.                 *)
Send(state, request) ==
  /\ ticket < MaxTicket
  /\ ticket' = ticket + 1
  /\ lastSentRequest' = request
  /\ \/ /\ wired
        /\ calc' = state
        /\ pending' = TRUE
        /\ errorRequestId' = Null
        /\ canRetry' = FALSE
        /\ calls' = calls \cup {[ticket |-> ticket + 1, request |-> request, outcome |-> Null]}
     \/ /\ ~wired
        /\ ShowError(state, "FALLBACK", Null, FALSE)
        /\ UNCHANGED calls
  /\ UNCHANGED wired

(* apply(): without an effect only `calc` is set.                           *)
Apply(transition) ==
  \/ /\ transition.effect = Null
     /\ calc' = transition.state
     /\ UNCHANGED <<pending, errorRequestId, canRetry, wired, ticket, lastSentRequest, calls>>
  \/ /\ transition.effect # Null
     /\ Send(transition.state, transition.effect)

(* A mistake: the keys work while an answer is awaited.                     *)
InputWhileBusy(transition) == Apply(transition)

(* input(): keys are inert while the server is answering.                   *)
Input(transition) == ~pending /\ Apply(transition)

-----------------------------------------------------------------------------
(* The operations of the store.                                             *)

SetEvaluator(next) ==
  /\ wired' = next
  /\ UNCHANGED <<storeState, ticket, lastSentRequest, calls>>

PressDigit == \E d \in Digit : Input(InputDigit(calc, d))
PressDecimal == Input(InputDecimal(calc))
PressSign == Input(ToggleSign(calc))
PressBackspace == Input(Backspace(calc))
PressClearEntry == Input(ClearEntry(calc))
PressOperator == \E op \in Operator : Input(SetOperator(calc, op))
PressEquals == Input(RequestEvaluate(calc))
PressUnary == \E op \in UnaryKey : Input(ApplyUnary(calc, op))

(* A mistake: AC does not make the answer it abandons stale.                *)
ClearAllKeepsTicket ==
  /\ calc' = ClearAll(calc).state
  /\ pending' = FALSE
  /\ errorRequestId' = Null
  /\ canRetry' = FALSE
  /\ UNCHANGED <<wired, ticket, lastSentRequest, calls>>

PressClearAll ==
  /\ ticket < MaxTicket
  /\ ticket' = ticket + 1
  /\ calc' = ClearAll(calc).state
  /\ pending' = FALSE
  /\ errorRequestId' = Null
  /\ canRetry' = FALSE
  /\ UNCHANGED <<wired, lastSentRequest, calls>>

(* A mistake: retry() does not look at what there is to send.               *)
RetryAnything ==
  /\ ~pending
  /\ Send(calc, lastSentRequest)

Retry ==
  /\ ~pending
  /\ canRetry
  /\ lastSentRequest # Null
  /\ Send(calc, lastSentRequest)

(* recall(): the values in the history are results of the server.           *)
Recall(value) ==
  /\ ~pending
  /\ calc' = [initialState EXCEPT !.phase = "enteringA", !.display = StringOf(value)]
  /\ errorRequestId' = Null
  /\ canRetry' = FALSE
  /\ UNCHANGED <<pending, wired, ticket, lastSentRequest, calls>>

-----------------------------------------------------------------------------
(* The evaluator.  The outcome of a call is decided once, away from the     *)
(* store; an operand that is not finite goes over the wire as null, which   *)
(* the server refuses.                                                      *)
Answer(call, outcome) ==
  /\ call.outcome = Null
  /\ outcome.ok => {call.request.a, call.request.b} \cap NonFinite = {}
  /\ calls' = (calls \ {call}) \cup {[call EXCEPT !.outcome = outcome]}
  /\ UNCHANGED <<storeState, wired, ticket, lastSentRequest>>

(* A mistake: late answers are taken for the current one.                   *)
SettleLate(call) ==
  /\ call.outcome # Null
  /\ calls' = calls \ {call}
  /\ \/ call.outcome.ok /\ ShowResult(calc, call.outcome.result)
     \/ /\ ~call.outcome.ok
        /\ ShowError(calc, call.outcome.failure.code,
                     IF call.outcome.failure.withId THEN call.ticket ELSE Null, FALSE)
  /\ UNCHANGED <<wired, ticket, lastSentRequest>>

(* The promise settles and the store's callback runs.                       *)
Settle(call) ==
  /\ call.outcome # Null
  /\ calls' = calls \ {call}
  /\ \/ /\ call.ticket # ticket
        /\ UNCHANGED storeState
     \/ /\ call.ticket = ticket
        /\ call.outcome.ok
        /\ ShowResult(calc, call.outcome.result)
     \/ /\ call.ticket = ticket
        /\ ~call.outcome.ok
        /\ LET failure == call.outcome.failure
           IN  ShowError(calc, failure.code,
                         IF failure.withId THEN call.ticket ELSE Null,
                         failure.code \in RETRYABLE_ERROR_CODES)
  /\ UNCHANGED <<wired, ticket, lastSentRequest>>

Key ==
  \/ PressDigit \/ PressDecimal \/ PressSign \/ PressBackspace
  \/ PressClearEntry \/ PressOperator \/ PressEquals \/ PressUnary

Next ==
  \/ \E next \in BOOLEAN : SetEvaluator(next)
  \/ Key
  \/ PressClearAll
  \/ Retry
  \/ \E value \in Response : Recall(value)
  \/ \E call \in calls : \/ \E outcome \in Outcome : Answer(call, outcome)
                         \/ Settle(call)

Spec == Init /\ [][Next]_vars

(* Every call settles.  apiFetch gives each one a deadline of its own (an   *)
(* AbortSignal.timeout merged into the fetch), so a server that never       *)
(* answers is a TIMEOUT; nothing obliges the user to press a key.           *)
Fairness ==
  /\ WF_vars(\E call \in calls : \E outcome \in Outcome : Answer(call, outcome))
  /\ WF_vars(\E call \in calls : Settle(call))

FairSpec == Spec /\ Fairness

-----------------------------------------------------------------------------
(* Properties.                                                              *)

(* The types useCalculatorStore.ts and calculator-engine.ts declare.        *)
TypeOK ==
  /\ calc \in CalcState
  /\ pending \in BOOLEAN
  /\ errorRequestId \in (1..MaxTicket) \cup {Null}
  /\ canRetry \in BOOLEAN
  /\ wired \in BOOLEAN
  /\ ticket \in 0..MaxTicket
  /\ lastSentRequest \in CalculateRequest \cup {Null}
  /\ calls \in SUBSET Call

(* The store is busy exactly while the call with the current ticket is out, *)
(* and that call carries the request retry() would send: `pending` is never *)
(* left on by an answer that was thrown away, nor switched off by one.      *)
BusyIffCurrentCallOut ==
  /\ pending <=> \E call \in calls : call.ticket = ticket
  /\ \A call \in calls : call.ticket = ticket => call.request = lastSentRequest

(* Whenever a key can build a request, the operands it needs are there: the *)
(* `?? 0` and `?? "add"` fallbacks of the engine are never taken.           *)
OperandsPresent ==
  /\ calc.phase = "enteringB" => calc.a # Null /\ calc.operator # Null
  /\ ~pending /\ calc.phase = "operatorSelected" => calc.a # Null /\ calc.operator # Null
  /\ ~pending /\ calc.phase = "result" => calc.a # Null

(* When nothing is being typed and no answer is awaited, the number on the  *)
(* display is the operand the next key will use.                            *)
DisplayIsOperand ==
  ~pending /\ calc.phase \in {"operatorSelected", "result"} =>
    calc.display = StringOf(calc.a)

(* The next key finds the operands it needs, and they are what is shown.    *)
OperandsAreReady == OperandsPresent /\ DisplayIsOperand

(* An error sentence is shown in the error phase and in no other.           *)
ErrorOnlyInErrorPhase == calc.error # Null <=> calc.phase = "error"

(* No negative zero is kept as an operand or put on the wire.               *)
NoNegativeZero ==
  /\ NegZero \notin {calc.a, calc.b}
  /\ \A call \in calls : NegZero \notin {call.request.a, call.request.b}

(* A request names two operands unless it is a square root: sending `b`     *)
(* with sqrt, or leaving it out elsewhere, is a 422.                        *)
RequestArity ==
  \A call \in calls : call.request.b = Null <=> call.request.operation = "sqrt"

(* NaN and the infinities have no text in JSON: JSON.stringify writes null, *)
(* which the server refuses.                                                *)
OperandsFinite ==
  /\ {calc.a, calc.b} \cap NonFinite = {}
  /\ \A call \in calls : {call.request.a, call.request.b} \cap NonFinite = {}

(* No request in flight is one the server refuses for its form: it has the  *)
(* operands its operation takes, JSON can carry each, and none is a         *)
(* negative zero.  The results are taken to be printed without an exponent  *)
(* (a recalled 7e-7 that a point is typed behind is NaN).                   *)
RequestsAreServable == NoNegativeZero /\ RequestArity /\ OperandsFinite

(* The request id on the alert is the one of the request sent last.         *)
ErrorIdIsCurrent ==
  errorRequestId # Null => errorRequestId = ticket /\ lastSentRequest # Null

(* The alert has a sentence in the error phase and in no other, and its     *)
(* request id, if any, is that of the request sent last.                    *)
ErrorIsCurrent == ErrorOnlyInErrorPhase /\ ErrorIdIsCurrent

(* The line above the number tells the truth about `=`.  Without an answer  *)
(* to wait for, it names what `=` would send now: the left operand and the  *)
(* operator while a sum is open, the operator and the second operand after  *)
(* one.  While the answer to a calculation is awaited it names the request  *)
(* sent, or nothing (a Retry that was pressed late).                        *)
LineTellsEquals ==
  LET line == expressionOf(calc)
      next == RequestEvaluate(calc).effect
  IN  /\ ~pending /\ calc.phase \in {"operatorSelected", "enteringB"} =>
           line = <<StringOf(next.a), next.operation>>
      /\ ~pending /\ calc.phase = "result" =>
           IF next = Null THEN line = <<>>
           ELSE line = <<StringOf(calc.lastRequest.a), next.operation, StringOf(next.b), "=">>
      /\ pending /\ calc.phase = "result" /\ lastSentRequest.operation \in BinaryOperation =>
           line \in {<<>>, <<StringOf(lastSentRequest.a), lastSentRequest.operation,
                            StringOf(lastSentRequest.b), "=">>}

(* `=` pressed on a result repeats an evaluation `=` asked for, with its    *)
(* operator and second operand: whatever changes lastRequest is a request   *)
(* just sent, or a reset.                                                   *)
RepeatsWhatWasSent ==
  [][calc'.lastRequest # calc.lastRequest =>
       calc'.lastRequest = Null \/ (ticket' # ticket /\ calc'.lastRequest = lastSentRequest')]_vars

(* The entry is one number being typed, whichever keys and answers came     *)
(* before: never empty, a lone sign or a negative zero, one point at most,  *)
(* and no zero in front of another digit.                                   *)
EntryIsNormal == calc.phase \in Entering => NormalEntry(calc.display)

(* Retry and the request id are offered for the current error, and only     *)
(* while there is one.                                                      *)
RetryOnlyForCurrentError ==
  canRetry \/ errorRequestId # Null => calc.phase = "error"

(* A request that a chained operator sent is awaited, or its retry is: the  *)
(* operator was pressed and its left operand is still to come.              *)
ChainedAwaited == pending /\ calc.operator # Null /\ calc.a = Null

(* The answer to a chained operation lands in the phase the operator key    *)
(* set, with the operator still there for the next operand.                 *)
AnswerKeepsOperator ==
  [][ChainedAwaited /\ ~pending' /\ ticket' = ticket /\ calc'.phase # "error" =>
       calc'.phase = "operatorSelected" /\ calc'.operator = calc.operator]_vars

(* The tickets, the promises and the late answers together keep the simple  *)
(* promise of CancellableCall: an answer reaches the screen only while its  *)
(* own request is waited for, and the screen stands still meanwhile.        *)
CurrentCall ==
  IF pending
  THEN LET current == CHOOSE call \in calls : call.ticket = ticket
       IN  [request |-> current.request, outcome |-> current.outcome]
  ELSE Null

Showing(state, outcome) ==
  IF outcome.ok THEN ApplyResult(state, outcome.result).state
                ELSE ApplyError(state, outcome.failure.code).state

Cancellable ==
  INSTANCE CancellableCall WITH
    Screen <- CalcState, Blank <- initialState, Request <- CalculateRequest,
    Show <- Showing, screen <- calc, call <- CurrentCall

ImplementsCancellableCall == Cancellable!Spec

(* The keyboard is never locked for good.                                   *)
EventuallyIdle == pending ~> ~pending
=============================================================================
