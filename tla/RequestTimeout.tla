---------------------------- MODULE RequestTimeout ----------------------------
(****************************************************************************)
(* One request on its way through the middleware of the server: Recover,    *)
(* Logger, Timeout and Metrics (internal/middleware), assembled in that     *)
(* order by cmd/server.  Timeout runs everything below it on a goroutine of *)
(* its own, so two threads share the response: the outer one, which net/http *)
(* called, and the handler, which may outlive it.                           *)
(*                                                                          *)
(* Requests share nothing but counters and the log, so one is enough.  What *)
(* lies between Timeout and Metrics (CORS, the rate limiter) may answer by  *)
(* itself: then the request is not metered.                                 *)
(****************************************************************************)
EXTENDS Integers, Sequences

CONSTANTS
  None,
  Status,      \* the status codes handlers answer with
  MaxWrites    \* bound on the pieces of a response's body

ASSUME StatusAssumption ==
  /\ 200 \in Status
  /\ Status \subseteq 200..599
  /\ None \notin 200..599
  /\ None \notin [code : 200..599, author : {"handler", "timeout", "recover"}]
  /\ MaxWrites \in Nat

VARIABLES
  outer,        \* where the goroutine of net/http is
  handler,      \* where the goroutine Timeout started is
  ctx,          \* the request's context: live, or why it is done
  metered,      \* the request reached Metrics
  wroteHeader,  \* timeoutWriter.wroteHeader
  closed,       \* timeoutWriter.closed
  committed,    \* the headers the handler staged are on the response
  statusLine,   \* the status line on the wire and who wrote it, or None
  body,         \* who wrote each piece of the body on the wire
  seen,         \* the status in the recorder of Metrics, None before any
  accessLog,    \* the statuses Logger reported
  panicLog,     \* how often Recover reported a panic
  inFlight,     \* the in-flight gauge
  observed      \* the statuses Metrics counted

response == <<statusLine, body, committed>>
writer == <<wroteHeader, closed>>
metrics == <<metered, seen, inFlight, observed>>
logs == <<accessLog, panicLog>>
vars == <<outer, handler, ctx, writer, response, metrics, logs>>

Author == {"handler", "timeout", "recover"}

Init ==
  /\ outer = "select"
  /\ handler = "new"
  /\ ctx = "live"
  /\ metered = FALSE
  /\ wroteHeader = FALSE
  /\ closed = FALSE
  /\ committed = FALSE
  /\ statusLine = None
  /\ body = <<>>
  /\ seen = None
  /\ accessLog = <<>>
  /\ panicLog = 0
  /\ inFlight = 0
  /\ observed = <<>>

-----------------------------------------------------------------------------
(* recorder.WriteHeader(): the first status is the one the client gets.     *)
(* The recorders of Recover and Logger both pass it on, so one status line  *)
(* stands for the two and for the wire.                                     *)
SendStatus(code, author) ==
  statusLine' = IF statusLine = None THEN [code |-> code, author |-> author] ELSE statusLine

(* httpapi.Write(): a whole problem document.                               *)
Problem(code, author) ==
  /\ SendStatus(code, author)
  /\ body' = Append(body, author)
  /\ UNCHANGED committed

(* A mistake: no status is passed on as no status.                          *)
CodeAsIs(code) == code

(* 200 is what net/http sends for a response nobody gave a status.          *)
CodeOr200(code) == IF code = None THEN 200 ELSE code

-----------------------------------------------------------------------------
(* The handler's goroutine.                                                 *)

Enter ==
  /\ handler = "new"
  /\ handler' = "running"
  /\ metered' \in BOOLEAN
  /\ inFlight' = IF metered' THEN inFlight + 1 ELSE inFlight
  /\ UNCHANGED <<outer, ctx, writer, response, seen, observed, logs>>

(* timeoutWriter.writeHeaderLocked().                                       *)
WriteHeaderLocked(code) ==
  IF closed \/ wroteHeader THEN UNCHANGED <<wroteHeader, committed, statusLine>>
  ELSE /\ wroteHeader' = TRUE
       /\ committed' = TRUE
       /\ SendStatus(code, "handler")

(* A mistake: the recorder of Metrics keeps the last status, not the first. *)
LastStatusSeen(code) ==
  /\ handler = "running"
  /\ seen' = code
  /\ WriteHeaderLocked(code)
  /\ UNCHANGED <<outer, handler, ctx, closed, body, metered, inFlight, observed, logs>>

(* timeoutWriter.WriteHeader(), and Flush(), which commits a 200.           *)
WriteHeader(code) ==
  /\ handler = "running"
  /\ seen' = IF seen = None THEN code ELSE seen
  /\ WriteHeaderLocked(code)
  /\ UNCHANGED <<outer, handler, ctx, closed, body, metered, inFlight, observed, logs>>

(* timeoutWriter.Write().                                                   *)
Write ==
  /\ handler = "running"
  /\ Len(body) < MaxWrites
  /\ seen' = CodeOr200(seen)
  /\ IF closed THEN UNCHANGED <<wroteHeader, response>>
     ELSE /\ WriteHeaderLocked(200)
          /\ body' = Append(body, "handler")
  /\ UNCHANGED <<outer, handler, ctx, closed, metered, inFlight, observed, logs>>

(* The deferred DecInFlight() of Metrics.                                   *)
Dec == inFlight' = IF metered THEN inFlight - 1 ELSE inFlight

Return ==
  /\ handler = "running"
  /\ handler' = "returned"
  /\ Dec
  /\ observed' = IF metered THEN Append(observed, CodeOr200(seen)) ELSE observed
  /\ UNCHANGED <<outer, ctx, writer, response, metered, seen, logs>>

(* A mistake: the gauge comes down on the happy path only.                  *)
PanicKeepsGauge ==
  /\ handler = "running"
  /\ handler' \in {"panicked", "aborted"}
  /\ UNCHANGED <<outer, ctx, writer, response, metrics, logs>>

(* A panic unwinds to the recover() of the goroutine, which hands it to a   *)
(* channel with room for it; `aborted` is http.ErrAbortHandler.             *)
Panic ==
  /\ handler = "running"
  /\ handler' \in {"panicked", "aborted"}
  /\ Dec
  /\ UNCHANGED <<outer, ctx, writer, response, metered, seen, observed, logs>>

-----------------------------------------------------------------------------
(* The context.                                                             *)
Deadline ==
  /\ outer = "select"
  /\ ctx = "live"
  /\ ctx' = "deadline"
  /\ UNCHANGED <<outer, handler, writer, response, metrics, logs>>

ClientGone ==
  /\ outer = "select"
  /\ ctx = "live"
  /\ ctx' = "canceled"
  /\ UNCHANGED <<outer, handler, writer, response, metrics, logs>>

-----------------------------------------------------------------------------
(* The outer goroutine.  When several cases of the select are ready, any of *)
(* them may be taken.                                                       *)

(* timeoutWriter.finish().                                                  *)
SelectDone ==
  /\ outer = "select"
  /\ handler = "returned"
  /\ closed' = TRUE
  /\ committed' = (committed \/ ~wroteHeader)
  /\ outer' = "returning"
  /\ UNCHANGED <<handler, ctx, wroteHeader, statusLine, body, metrics, logs>>

SelectPanicked ==
  /\ outer = "select"
  /\ handler \in {"panicked", "aborted"}
  /\ outer' = "panicking"
  /\ UNCHANGED <<handler, ctx, writer, response, metrics, logs>>

(* A mistake each: the 503 is never sent; the writer stays open; the        *)
(* handler is waited for.                                                   *)
ExpiredNeverAnswers ==
  /\ outer = "select" /\ ctx # "live"
  /\ closed' = TRUE
  /\ outer' = "returning"
  /\ UNCHANGED <<handler, ctx, wroteHeader, response, metrics, logs>>

ExpiredLeavesOpen ==
  /\ outer = "select" /\ ctx # "live"
  /\ outer' = IF ctx = "canceled" \/ wroteHeader THEN "returning" ELSE "timedOut"
  /\ UNCHANGED <<handler, ctx, writer, response, metrics, logs>>

ExpiredWaits ==
  /\ outer = "select" /\ ctx # "live"
  /\ handler \notin {"new", "running"}
  /\ closed' = TRUE
  /\ outer' = IF ctx = "canceled" \/ wroteHeader THEN "returning" ELSE "timedOut"
  /\ UNCHANGED <<handler, ctx, wroteHeader, response, metrics, logs>>

(* timeoutWriter.stop(), and what follows from whether a response started.  *)
SelectExpired ==
  /\ outer = "select"
  /\ ctx # "live"
  /\ closed' = TRUE
  /\ outer' = IF ctx = "canceled" \/ wroteHeader THEN "returning" ELSE "timedOut"
  /\ UNCHANGED <<handler, ctx, wroteHeader, response, metrics, logs>>

AnswerTimeout ==
  /\ outer = "timedOut"
  /\ Problem(503, "timeout")
  /\ outer' = "returning"
  /\ UNCHANGED <<handler, ctx, writer, metrics, logs>>

(* A mistake: the recorder's default is logged whatever was sent.           *)
LogDefault ==
  /\ outer = "returning"
  /\ accessLog' = Append(accessLog, 200)
  /\ outer' = "finished"
  /\ UNCHANGED <<handler, ctx, writer, response, metrics, panicLog>>

(* Logger, after everything below it has returned.                          *)
Log ==
  /\ outer = "returning"
  /\ accessLog' = Append(accessLog, IF statusLine = None THEN 200 ELSE statusLine.code)
  /\ outer' = "finished"
  /\ UNCHANGED <<handler, ctx, writer, response, metrics, panicLog>>

(* The deferred function of Recover.                                        *)
Recover ==
  /\ outer = "panicking"
  /\ handler = "panicked"
  /\ panicLog' = panicLog + 1
  /\ outer' = "finished"
  /\ IF statusLine = None THEN Problem(500, "recover") ELSE UNCHANGED response
  /\ UNCHANGED <<handler, ctx, writer, metrics, accessLog>>

RecoverAbort ==
  /\ outer = "panicking"
  /\ handler = "aborted"
  /\ outer' = "aborted"
  /\ UNCHANGED <<handler, ctx, writer, response, metrics, logs>>

Handler ==
  \/ Enter
  \/ \E code \in Status : WriteHeader(code)
  \/ Write
  \/ Return
  \/ Panic

Outer ==
  \/ SelectDone \/ SelectPanicked \/ SelectExpired
  \/ AnswerTimeout \/ Log \/ Recover \/ RecoverAbort

Next == Handler \/ Deadline \/ ClientGone \/ Outer

Spec == Init /\ [][Next]_vars

(* The timer of the context fires and the outer goroutine is scheduled.     *)
(* Nothing is assumed of the handler: it may hang for ever.                 *)
FairSpec == Spec /\ WF_vars(Deadline) /\ WF_vars(Outer)

-----------------------------------------------------------------------------
(* Properties.                                                              *)

(* The types of the middleware's state.                                     *)
TypeOK ==
  /\ outer \in {"select", "timedOut", "panicking", "returning", "finished", "aborted"}
  /\ handler \in {"new", "running", "returned", "panicked", "aborted"}
  /\ ctx \in {"live", "deadline", "canceled"}
  /\ metered \in BOOLEAN
  /\ wroteHeader \in BOOLEAN
  /\ closed \in BOOLEAN
  /\ committed \in BOOLEAN
  /\ statusLine \in [code : 200..599, author : Author] \cup {None}
  /\ body \in Seq(Author)
  /\ seen \in Status \cup {None}
  /\ accessLog \in Seq(200..599)
  /\ panicLog \in Nat
  /\ inFlight \in Int
  /\ observed \in Seq(Status)

Over == outer \in {"finished", "aborted"}

(* The response has one author: no byte of the handler follows a 503 or a   *)
(* 500, no byte goes out without a status line, and the headers the handler *)
(* staged are sent with its own status line and with no other.              *)
OneAuthor ==
  /\ \A i \in DOMAIN body : statusLine # None /\ body[i] = statusLine.author
  /\ statusLine # None => (committed <=> statusLine.author = "handler")

Returned == outer \in {"returning", "finished", "aborted"}

(* Once Timeout has returned, net/http may reuse the ResponseWriter: the    *)
(* handler that is still running never touches it again.                    *)
NoWriteAfterReturn ==
  [][Returned => UNCHANGED response]_vars

(* The response has one owner at any time, and none once it is handed back. *)
ResponseHasOneOwner == []OneAuthor /\ NoWriteAfterReturn

(* A request that is over is reported once: by an access line with the      *)
(* status the client got, when its handler returned or nobody waited for it *)
(* any more, or by the panic line of Recover; an aborted one is not         *)
(* reported.  A panic nobody waits for is thus reported by the access line. *)
ReportedOnce ==
  Over =>
    \/ /\ accessLog = <<IF statusLine = None THEN 200 ELSE statusLine.code>>
       /\ panicLog = 0
       /\ handler = "returned" \/ ctx # "live"
    \/ accessLog = <<>> /\ panicLog = 1 /\ handler = "panicked"
    \/ accessLog = <<>> /\ panicLog = 0 /\ outer = "aborted" /\ handler = "aborted"

(* "A request whose handler panics has no line here", in the access log:    *)
(* Recover "logs it instead" (logger.go:27-29).                             *)
PanicIsLogged ==
  Over /\ handler = "panicked" => accessLog = <<>> /\ panicLog = 1

(* The empty 200 net/http sends for a silent handler never covers up a      *)
(* timeout or a panic: the handler did return, or nobody is listening.      *)
SilentMeansDone ==
  outer = "finished" /\ statusLine = None => handler = "returned" \/ ctx = "canceled"

(* The gauge counts the handlers that run, also those that have been timed  *)
(* out, and it comes down when they panic.                                  *)
GaugeCountsRunning ==
  inFlight = IF metered /\ handler = "running" THEN 1 ELSE 0

(* Metrics keeps a recorder of its own, on the other side of the writer     *)
(* that may be shut: it counts the status the client got whenever the       *)
(* response is the handler's, and counts it once.                           *)
ObservedIsSent ==
  metered /\ handler = "returned" /\ statusLine # None /\ statusLine.author = "handler" =>
    observed = <<statusLine.code>>

(* Every request comes to an end, whatever the handler does.                *)
EventuallyOver == <>Over
=============================================================================
