------------------------------- MODULE RoundTrip -------------------------------
(****************************************************************************)
(* One call of the page to the backend and back: lib/api.ts and the hooks   *)
(* that use it, the browser, whatever sits between (nginx, the network, a   *)
(* host that is not the backend at all), the middleware chain of            *)
(* cmd/server/main.go and the handlers of internal/httpapi.  Requests of    *)
(* clients other than the page go through the same chain.                   *)
(*                                                                          *)
(* A query may be tried twice, and what the first attempt started goes on   *)
(* in the server meanwhile: the server's state is kept by attempt.  The     *)
(* middlewares are folded into the effect each has on the answer; their     *)
(* own races are the subject of RequestTimeout and RateLimiter.             *)
(****************************************************************************)
EXTENDS ApiClient, FiniteSets

CONSTANTS
  Call,           \* what the page asks: records with kind, operation, a, b
  OtherRequest    \* what clients other than the page send

(* What the types of CalculateRequest leave, for numbers of any kind.       *)
ASSUME CallAssumption ==
  /\ \A c \in Call :
       \/ c.kind = "operations"
       \/ /\ c.kind = "calculate" /\ c.operation \in Registry /\ c.a \in Float
          /\ IF c.operation \in Binary THEN c.b \in Float ELSE c.b = Null
  /\ Null \notin Call \cup Nat \cup Float \cup Code
  /\ Null \notin {"ErrDivisionByZero", "ErrDomain", "ErrNotFinite", "applyUnary", "setOperator"}

(* JSON has no number that is not finite.                                   *)
ASSUME RequestAssumption ==
  \A r \in OtherRequest :
    r.path = "/v1/calculate" /\ r.method = "POST" /\ r.media = "application/json" =>
      /\ r.body.first \in {"object", "null", "bad", "tooLarge"}
      /\ r.body.rest \in {"eof", "more", "tooLarge"}
      /\ {r.body.a, r.body.b} \subseteq {x \in Float : isFinite(x)} \cup {Null}

VARIABLES
  origin,     \* of the page: "same", "allowed" by CORS_ALLOWED_ORIGINS, or "foreign"
  request,    \* the HTTP request on its way, Null when there is none
  call,       \* the page's call, Null when another client sent the request
  client,     \* apiFetch: "idle", "sending", "reading", "waiting" to retry, "settled"
  attempt,    \* the number of the attempt, 0 before the first
  timedOut,   \* AbortSignal.timeout of the current attempt has fired
  aborted,    \* the caller's signal has been aborted
  result,     \* what the last attempt came to, Null before
  handler,    \* by attempt: "none", "queued", "running", "done", "panicked"
  answer      \* by attempt: the response; its `part` is "none" before the status line

clientVars == <<origin, request, call, client, attempt, timedOut, aborted, result>>
serverVars == <<handler, answer>>
vars == <<clientVars, serverVars>>

Attempt == 1..2

Answered(n) == answer[n].part # "none"

Init ==
  /\ origin \in {"same", "allowed", "foreign"}
  /\ request = Null /\ call = Null /\ client = "idle" /\ attempt = 0
  /\ timedOut = FALSE /\ aborted = FALSE /\ result = Null
  /\ handler = [n \in Attempt |-> "none"]
  /\ answer = [n \in Attempt |-> [part |-> "none"]]

-----------------------------------------------------------------------------
(* The request apiFetch sends for a call of the page.                       *)
HttpRequest(c) ==
  IF c.kind = "operations"
  THEN [method |-> "GET", path |-> "/v1/operations", media |-> Null, body |-> Null]
  ELSE [method |-> "POST", path |-> "/v1/calculate", media |-> "application/json",
        body |-> [first |-> "object", rest |-> "eof", operation |-> c.operation,
                  a |-> JsonNumber(c.a, Null),
                  b |-> IF c.b = Null THEN Null ELSE JsonNumber(c.b, Null)]]

(* A mistake: every origin is allowed.                                      *)
corsOfAnyOrigin(headers) == headers \cup {"cors"}

(* CORS(): the origin is echoed when it is on the list.                     *)
cors(headers) == IF origin = "allowed" THEN headers \cup {"cors"} ELSE headers

(* A body of JSON with no type that the browser knows makes a cross-origin  *)
(* POST wait for a preflight, which only an allowed origin passes.          *)
PassesPreflight ==
  origin = "same" \/ request'.method = "GET" \/ "cors" \in cors({})

(* fetch() sends a new attempt, with a time-out of its own.                 *)
Send ==
  /\ client' = "sending"
  /\ attempt' = attempt + 1
  /\ timedOut' = FALSE
  /\ handler' = IF PassesPreflight THEN [handler EXCEPT ![attempt'] = "queued"] ELSE handler

Ask(c) ==
  /\ client = "idle"
  /\ request' = HttpRequest(c)
  /\ call' = c
  /\ Send
  /\ UNCHANGED <<origin, aborted, result, answer>>

(* Another client: what it makes of the answer is its own affair.           *)
AskOtherwise(r) ==
  /\ client = "idle"
  /\ request' = r
  /\ client' = "settled"
  /\ attempt' = 1
  /\ handler' = [handler EXCEPT ![1] = "queued"]
  /\ UNCHANGED <<origin, call, timedOut, aborted, result, answer>>

(* The promise of one attempt settles; a query that failed is tried again.  *)
Settle(r) ==
  /\ result' = r
  /\ client' = IF ~r.ok /\ ~aborted' /\ attempt <= retries(call.kind) THEN "waiting" ELSE "settled"
  /\ UNCHANGED <<origin, request, call, attempt, serverVars>>

Retry ==
  /\ client = "waiting"
  /\ UNCHANGED request
  /\ Send
  /\ UNCHANGED <<origin, call, aborted, result, answer>>

(* A mistake: the timer's signal is not handed to fetch().                  *)
TimerUnheard ==
  /\ client \in {"sending", "reading"}
  /\ ~timedOut
  /\ timedOut' = TRUE
  /\ UNCHANGED <<origin, request, call, client, attempt, aborted, result, serverVars>>

TimerFires ==
  /\ client \in {"sending", "reading"}
  /\ timedOut' = TRUE
  /\ UNCHANGED aborted
  /\ Settle(rejection(timedOut', aborted'))

(* The query is canceled (its component is gone); a mutation has no signal. *)
(* anySignal() makes either signal abort the fetch.                         *)
Abort ==
  /\ call # Null /\ call.kind = "operations"
  /\ client \in {"sending", "reading", "waiting"}
  /\ aborted' = TRUE
  /\ UNCHANGED timedOut
  /\ Settle(IF client = "waiting" THEN result ELSE rejection(timedOut', aborted'))

(* The connection breaks, or a preflight is refused: fetch() or text()      *)
(* rejects.  What the server does with the request is another matter.       *)
NetworkBreaks ==
  /\ client \in {"sending", "reading"}
  /\ UNCHANGED <<timedOut, aborted>>
  /\ Settle(rejection(timedOut', aborted'))

(* fetch() resolves when the headers are there; the browser keeps a         *)
(* response without the CORS header from a page of another origin.          *)
HeadersArrive ==
  /\ client = "sending"
  /\ Answered(attempt)
  /\ UNCHANGED <<timedOut, aborted>>
  /\ \/ /\ origin = "same" \/ "cors" \in answer[attempt].headers
        /\ client' = "reading"
        /\ UNCHANGED <<origin, request, call, attempt, result, serverVars>>
     \/ /\ origin # "same" /\ "cors" \notin answer[attempt].headers
        /\ Settle(rejection(timedOut, aborted))

(* What the page may see: no header is exposed to another origin.           *)
Visible(response) ==
  [status |-> response.status, body |-> response.body,
   requestId |-> IF origin = "same" /\ "X-Request-ID" \in response.headers
                 THEN response.requestId ELSE Null]

(* text() resolves with the whole body or rejects: Content-Length tells.    *)
BodyArrives ==
  /\ client = "reading"
  /\ answer[attempt].part \in {"whole", "cut"}
  /\ UNCHANGED <<timedOut, aborted>>
  /\ Settle(IF answer[attempt].part = "whole"
            THEN answerOf(call.kind, Visible(answer[attempt]))
            ELSE rejection(timedOut, aborted))

PageStep ==
  \/ \E c \in Call : Ask(c)
  \/ Retry \/ TimerFires \/ Abort \/ NetworkBreaks \/ HeadersArrive \/ BodyArrives

-----------------------------------------------------------------------------
(* What stands between, when it answers itself: a proxy's error page, the   *)
(* index.html of a static host, JSON of some other service, or a newer      *)
(* server that knows an operation more.                                     *)
NewerOperations == operations \cup {[name |-> "modulo", arity |-> 2]}

Foreign(status, kind, value) ==
  [status |-> status, headers |-> cors({}), requestId |-> Null, part |-> "whole",
   body |-> [kind |-> kind, code |-> Null, requestId |-> Null, value |-> value]]

ForeignAnswer ==
  {Foreign(502, "html", Null), Foreign(200, "html", Null), Foreign(200, "other", Null),
   Foreign(502, "other", Null), Foreign(200, "operations", NewerOperations)}

Proxy(n) ==
  /\ call # Null
  /\ handler[n] = "queued"
  /\ ~Answered(n)
  /\ \E foreign \in ForeignAnswer : answer' = [answer EXCEPT ![n] = foreign]
  /\ UNCHANGED <<clientVars, handler>>

-----------------------------------------------------------------------------
(* Write(): the problem carries the ID RequestID() gave this request.       *)
Problem(n, code, headers) ==
  [status |-> Status(code), headers |-> headers, requestId |-> n, part |-> "head",
   body |-> [kind |-> "problem", code |-> code, requestId |-> n, value |-> Null]]

(* writeJSON(), with what the route came to; for a HEAD the mux answers as  *)
(* for a GET.                                                               *)
Response(n, outcome) ==
  [status |-> 200, headers |-> cors({"X-Request-ID", "security"}), requestId |-> n, part |-> "head",
   body |-> [kind |-> IF request.method = "POST" THEN "calculate" ELSE "operations",
             code |-> Null, requestId |-> Null, value |-> outcome.response]]

(* The answer of the chain below Timeout; after a deadline, or an answer    *)
(* that came from elsewhere, it is dropped.                                 *)
Answers(n, response) ==
  answer' = IF Answered(n) THEN answer ELSE [answer EXCEPT ![n] = response]

(* RateLimit() turns the request away.                                      *)
Limit(n) ==
  /\ handler[n] = "queued"
  /\ handler' = [handler EXCEPT ![n] = "done"]
  /\ Answers(n, Problem(n, "RATE_LIMITED", cors({"X-Request-ID", "security", "Retry-After"})))
  /\ UNCHANGED clientVars

(* A preflight that CORS() answers itself never reaches the router.         *)
Preflight(n) ==
  /\ handler[n] = "queued"
  /\ request.method = "OPTIONS" /\ origin = "allowed"
  /\ handler' = [handler EXCEPT ![n] = "done"]
  /\ Answers(n, [status |-> 204, headers |-> cors({"X-Request-ID", "security"}), requestId |-> n,
                 part |-> "whole",
                 body |-> [kind |-> "html", code |-> Null, requestId |-> Null, value |-> Null]])
  /\ UNCHANGED clientVars

(* The router and its handler, up to the answer.                            *)
Handle(n) ==
  /\ handler[n] = "queued"
  /\ ~(request.method = "OPTIONS" /\ origin = "allowed")
  /\ handler' = [handler EXCEPT ![n] = "running"]
  /\ UNCHANGED <<clientVars, answer>>

Commit(n) ==
  /\ handler[n] = "running"
  /\ handler' = [handler EXCEPT ![n] = "done"]
  /\ LET outcome == Route(request)
     IN  Answers(n, IF outcome.code = Null THEN Response(n, outcome)
                    ELSE Problem(n, outcome.code, cors({"X-Request-ID", "security"})))
  /\ UNCHANGED clientVars

Finish(n) ==
  /\ answer[n].part = "head"
  /\ answer' = [answer EXCEPT ![n].part = "whole"]
  /\ UNCHANGED <<clientVars, handler>>

(* What Recover and Timeout answer themselves: only the request ID was set  *)
(* outside them, and nothing cuts their body short.                         *)
OuterProblem(n, code) == [Problem(n, code, {"X-Request-ID"}) EXCEPT !.part = "whole"]

Panic(n) ==
  /\ handler[n] = "queued"
  /\ handler' = [handler EXCEPT ![n] = "panicked"]
  /\ Answers(n, OuterProblem(n, "INTERNAL"))
  /\ UNCHANGED clientVars

(* Timeout(): a 503 while nothing is sent, the end of the body afterwards.  *)
Deadline(n) ==
  /\ handler[n] # "none"
  /\ \/ /\ ~Answered(n)
        /\ answer' = [answer EXCEPT ![n] = OuterProblem(n, "TIMEOUT")]
     \/ /\ answer[n].part = "head"
        /\ answer' = [answer EXCEPT ![n].part = "cut"]
  /\ UNCHANGED <<clientVars, handler>>

ServerStep(n) ==
  \/ Limit(n) \/ Preflight(n) \/ Handle(n) \/ Commit(n) \/ Finish(n) \/ Panic(n) \/ Deadline(n)

Next ==
  \/ PageStep
  \/ \E r \in OtherRequest : AskOtherwise(r)
  \/ \E n \in Attempt : Proxy(n) \/ ServerStep(n)

Spec == Init /\ [][Next]_vars

(* The browser's clock runs and react-query tries again.  Neither the       *)
(* network nor the server has to answer.                                    *)
FairSpec == Spec /\ WF_vars(TimerFires) /\ WF_vars(Retry)

-----------------------------------------------------------------------------
(* What docs/errors.md says a request comes to, by arithmetic with a wider  *)
(* range: `Expected` is the code of the refusal, or the result.             *)
Refusal(code) == [code |-> code, value |-> Null]

Expected(op, a, b) ==
  LET Result(x) == IF IsInf(x) THEN Refusal("RESULT_NOT_FINITE")
                   ELSE [code |-> Null,
                         value |-> [operation |-> op, a |-> a, b |-> b,
                                    result |-> JsonNumber(x, Null)]]
  IN  CASE op = "divide" /\ IsZero(b)                    -> Refusal("DIVISION_BY_ZERO")
        [] op = "power" /\ IsZero(a) /\ IsNegative(b)    -> Refusal("DIVISION_BY_ZERO")
        [] op = "power" /\ IsNegative(a) /\ b.exp < 0 /\ ~IsZero(b) -> Refusal("DOMAIN_ERROR")
        [] op = "sqrt" /\ IsNegative(a)                  -> Refusal("DOMAIN_ERROR")
        [] op = "percent" -> Result(IF IsZero(a) \/ IsZero(b) THEN Zero(1)
                                    ELSE Num(a.sign * b.sign, a.exp + b.exp - Hundred.exp))
        [] OTHER -> Result(fn(op, a, b).value)

Meaning(c) ==
  IF c.kind = "operations"
  THEN {[code |-> Null, value |-> list] : list \in {operations, NewerOperations}}
  ELSE LET a == JsonNumber(c.a, Null)
           b == IF c.b = Null THEN Null ELSE JsonNumber(c.b, Null)
       IN  IF a = Null \/ (c.b # Null /\ b = Null) THEN {Refusal("VALIDATION_FAILED")}
           ELSE {Expected(c.operation, a, b)}

Failure ==
  {Refusal(code) : code \in {"NETWORK", "TIMEOUT", "UNEXPECTED", "INVALID_RESPONSE",
                             "RATE_LIMITED", "INTERNAL"}}

Promise == INSTANCE Evaluation WITH
  asked <- call,
  outcome <- IF call = Null \/ client # "settled" THEN Null
             ELSE [code |-> result.code, value |-> result.value]

-----------------------------------------------------------------------------
(* The values the page and the server go through.                           *)
TypeOK ==
  /\ origin \in {"same", "allowed", "foreign"}
  /\ request = Null \/ request \in OtherRequest \/ request = HttpRequest(call)
  /\ call \in Call \cup {Null}
  /\ client \in {"idle", "sending", "reading", "waiting", "settled"}
  /\ attempt \in 0..2
  /\ {timedOut, aborted} \subseteq BOOLEAN
  /\ handler \in [Attempt -> {"none", "queued", "running", "done", "panicked"}]
  /\ \A n \in Attempt : Answered(n) =>
       answer[n].part \in {"head", "whole", "cut"} /\ answer[n].status \in 200..599

(* Whatever happens on the way, a call ends once, and a result the page     *)
(* takes is the one its own request means, whole, right and echoing it; a   *)
(* refusal is the documented one for those operands.  In particular a 200   *)
(* cut short, a page of HTML or somebody else's JSON is never a result, and *)
(* the page is never told that its request was malformed.                   *)
ImplementsEvaluation == Promise!Spec

(* A failure is put down to what caused it, in the attempt that is over: a  *)
(* code the backend gave carries the request ID of that attempt, whichever  *)
(* origin the page has; without an answer it is TIMEOUT exactly when the    *)
(* call's own timer ended it, never for a query that was canceled.          *)
FailureIsAttributed ==
  client \in {"waiting", "settled"} /\ result # Null /\ ~result.ok =>
    IF result.status = 0 THEN result.code = IF timedOut THEN "TIMEOUT" ELSE "NETWORK"
    ELSE result.code \in Code => result.requestId = attempt

(* A page of an origin that is not allowed gets no calculation done and     *)
(* learns nothing, not even the failure.                                    *)
ForeignPageIsShutOut ==
  origin = "foreign" /\ call # Null =>
    /\ result # Null => ~result.ok /\ result.status = 0
    /\ call.kind = "calculate" => \A n \in Attempt : handler[n] = "none"

(* One press asks the server at most once, whatever became of the answer.   *)
MutationIsSentOnce ==
  call # Null /\ call.kind = "calculate" =>
    Cardinality({n \in Attempt : handler[n] # "none"}) <= 1

(* The table of docs/errors.md: when a code may be given for a request.     *)
Applies(code, n) ==
  LET body == request.body
      calculates == request.path = "/v1/calculate" /\ request.method = "POST"
      json == calculates /\ request.media = "application/json"
      single == json /\ body.first = "object" /\ body.rest = "eof"
      missing == body.a = Null \/ (body.operation \in Binary /\ body.b = Null)
      known == single /\ body.operation \in Registry
  IN  CASE code = "INVALID_BODY" -> json /\ (body.first \in {"null", "bad"} \/ body.rest = "more")
        [] code = "PAYLOAD_TOO_LARGE" -> json /\ "tooLarge" \in {body.first, body.rest}
        [] code = "UNSUPPORTED_MEDIA_TYPE" -> calculates /\ ~json
        [] code = "VALIDATION_FAILED" -> single /\ (body.operation = "" \/ missing)
        [] code = "UNSUPPORTED_OPERATION" -> single /\ ~known
        [] code = "UNEXPECTED_OPERAND" -> known /\ body.operation = "sqrt" /\ body.b # Null
        [] code \in {"DIVISION_BY_ZERO", "DOMAIN_ERROR", "RESULT_NOT_FINITE"} ->
             known /\ ~missing /\ Expected(body.operation, body.a, body.b).code = code
        [] code = "METHOD_NOT_ALLOWED" ->
             \/ request.path = "/v1/calculate" /\ ~calculates
             \/ request.path = "/v1/operations" /\ request.method \notin {"GET", "HEAD"}
        [] code = "NOT_FOUND" -> request.path \notin {"/v1/calculate", "/v1/operations"}
        [] code = "INTERNAL" -> handler[n] = "panicked"
        [] OTHER -> code \in {"RATE_LIMITED", "TIMEOUT"}

(* Every answer of the server is the documented one: a code that applies to *)
(* the request, and a 200 only when none about the request does.  INTERNAL  *)
(* is for panics alone.                                                     *)
AnswersAsDocumented ==
  \A n \in Attempt : Answered(n) /\ answer[n].requestId = n =>
    CASE answer[n].status = 200 -> \A code \in Code \ {"RATE_LIMITED", "TIMEOUT"} : ~Applies(code, n)
      [] answer[n].status = 204 -> request.method = "OPTIONS"
      [] OTHER -> /\ Applies(answer[n].body.code, n)
                  /\ answer[n].status = Status(answer[n].body.code)

(* Before, while and after the list of operations loads, or fails to, every *)
(* operation of the engine has a key, and an enabled key of the bar sends   *)
(* an operation that the backend knows.                                     *)
EveryOperationHasAKey ==
  LET list == IF call # Null /\ call.kind = "operations" THEN useOperations(result)
                                                         ELSE FALLBACK_OPERATIONS
      enabled == {key.name : key \in {k \in OperationsBar(list, FALSE) : ~k.disabled}}
  IN  KEYPAD_OPERATIONS \cup enabled = Registry

(* Every call of the page comes to an end, with a server or without.        *)
CallSettles == call # Null ~> client = "settled"
=============================================================================
