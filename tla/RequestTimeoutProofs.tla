------------------------- MODULE RequestTimeoutProofs -------------------------
(****************************************************************************)
(* The safety properties of RequestTimeout for any set of status codes and  *)
(* any number of writes.  They follow from one inductive invariant: who may *)
(* still touch the response, given where the two goroutines are.            *)
(****************************************************************************)
EXTENDS RequestTimeout, TLAPS

(* The writer is open exactly while the outer goroutine waits; afterwards   *)
(* it is closed, or the handler has stopped with a panic.                   *)
ShutInv ==
  /\ outer = "select" => ~closed
  /\ outer # "select" => closed \/ handler \in {"panicked", "aborted"}
  /\ outer = "panicking" => handler \in {"panicked", "aborted"}

(* The handler's claim to the response: its status line is the one on the   *)
(* wire when wroteHeader says so, and its staged headers came with it.      *)
ClaimInv ==
  /\ wroteHeader => statusLine # None /\ statusLine.author = "handler"
  /\ outer \in {"select", "timedOut", "panicking"} =>
       /\ ~wroteHeader => statusLine = None
       /\ committed <=> wroteHeader
  /\ outer = "timedOut" => ~wroteHeader

(* Nothing is reported before the end, a request is on its way to an access *)
(* line because its handler returned or is not waited for, and the end is   *)
(* reported once.                                                           *)
LogInv ==
  /\ ~Over => accessLog = <<>> /\ panicLog = 0
  /\ outer \in {"timedOut", "returning"} => handler = "returned" \/ ctx # "live"
  /\ ReportedOnce

(* A response without a status line is never the outcome of a deadline.     *)
SilentInv ==
  outer \in {"returning", "finished"} /\ statusLine = None =>
    handler = "returned" \/ ctx = "canceled"

(* The gauge, and that nobody is metered before the handler starts.         *)
GaugeInv == GaugeCountsRunning /\ (handler = "new" => ~metered)

Inv == TypeOK /\ ShutInv /\ ClaimInv /\ OneAuthor /\ LogInv /\ SilentInv /\ GaugeInv

-----------------------------------------------------------------------------
(* The status lines there are; None is none of them.                        *)
Line == [code : 200..599, author : Author]

(* The flags of TypeOK and the rest of it, proved apart.                    *)
Flags ==
  metered \in BOOLEAN /\ wroteHeader \in BOOLEAN /\ closed \in BOOLEAN /\ committed \in BOOLEAN

Rest ==
  /\ outer \in {"select", "timedOut", "panicking", "returning", "finished", "aborted"}
  /\ handler \in {"new", "running", "returned", "panicked", "aborted"}
  /\ ctx \in {"live", "deadline", "canceled"}
  /\ statusLine \in Line \cup {None}
  /\ body \in Seq(Author)
  /\ seen \in Status \cup {None}
  /\ accessLog \in Seq(200..599)
  /\ panicLog \in Nat
  /\ inFlight \in Int
  /\ observed \in Seq(Status)

(* TypeOK is the two together.                                              *)
LEMMA TypeParts == TypeOK <=> Flags /\ Rest
  BY Zenon DEF TypeOK, Flags, Rest, Line

(* The types hold in the first state.                                       *)
LEMMA TypeInit == Init => Flags /\ Rest
<1> SUFFICES ASSUME Init PROVE Flags /\ Rest
  OBVIOUS
<1>1. Flags
  BY Zenon DEF Init, Flags
<1>2. Rest
  BY SMT DEF Init, Rest
<1> QED
  BY <1>1, <1>2

(* Every flag stays, becomes TRUE, or is chosen as a flag.                  *)
LEMMA FlagsStep == Flags /\ [Next]_vars => Flags'
<1> SUFFICES ASSUME Flags, [Next]_vars PROVE Flags'
  OBVIOUS
<1>1. metered' \in BOOLEAN
  <2>1. metered' = metered \/ metered' \in BOOLEAN
    BY SMT DEF Next, Handler, Outer, vars, metrics, Enter, WriteHeader, Write, Return, Panic,
               Deadline, ClientGone, SelectDone, SelectPanicked, SelectExpired, AnswerTimeout,
               Log, Recover, RecoverAbort
  <2> QED
    BY <2>1, Zenon DEF Flags
<1>2. wroteHeader' \in BOOLEAN
  <2>1. wroteHeader' = wroteHeader \/ wroteHeader' = TRUE
    BY SMT DEF Next, Handler, Outer, vars, writer, Enter, WriteHeader, WriteHeaderLocked, Write,
               Return, Panic, Deadline, ClientGone, SelectDone, SelectPanicked, SelectExpired,
               AnswerTimeout, Log, Recover, RecoverAbort
  <2> QED
    BY <2>1, Zenon DEF Flags
<1>3. closed' \in BOOLEAN
  <2>1. closed' = closed \/ closed' = TRUE
    BY SMT DEF Next, Handler, Outer, vars, writer, Enter, WriteHeader, Write, Return, Panic,
               Deadline, ClientGone, SelectDone, SelectPanicked, SelectExpired, AnswerTimeout,
               Log, Recover, RecoverAbort
  <2> QED
    BY <2>1, Zenon DEF Flags
<1>4. committed' \in BOOLEAN
  <2>1. CASE SelectDone
    BY <2>1, Zenon DEF SelectDone, Flags
  <2>2. CASE ~SelectDone
    <3>1. committed' = committed \/ committed' = TRUE
      BY <2>2, SMT DEF Next, Handler, Outer, vars, response, Enter, WriteHeader,
               WriteHeaderLocked, Write, Return, Panic, Deadline, ClientGone, SelectPanicked,
               SelectExpired, AnswerTimeout, Problem, Log, Recover, RecoverAbort
    <3> QED
      BY <3>1, Zenon DEF Flags
  <2> QED
    BY <2>1, <2>2
<1> QED
  BY <1>1, <1>2, <1>3, <1>4, Zenon DEF Flags

(* No status line is None.                                                  *)
LEMMA NoneIsNoLine == None \notin Line
  BY StatusAssumption DEF Line, Author

(* What SendStatus leaves on the wire.                                      *)
LEMMA SentLine ==
  ASSUME NEW code \in 200..599, NEW author \in Author, statusLine \in Line \cup {None},
         SendStatus(code, author)
  PROVE  /\ statusLine' \in Line
         /\ statusLine = None => statusLine'.author = author
         /\ statusLine # None => statusLine' = statusLine
<1>1. [code |-> code, author |-> author] \in Line
  BY DEF Line
<1> QED
  BY <1>1 DEF SendStatus

(* What the handler's writeHeaderLocked leaves there.                       *)
LEMMA LockedLine ==
  ASSUME NEW code \in 200..599, statusLine \in Line \cup {None}, WriteHeaderLocked(code)
  PROVE  /\ statusLine' \in Line \cup {None}
         /\ closed \/ wroteHeader => UNCHANGED <<wroteHeader, committed, statusLine>>
         /\ ~closed /\ ~wroteHeader =>
              /\ wroteHeader' /\ committed' /\ statusLine' \in Line
              /\ statusLine = None => statusLine'.author = "handler"
<1>1. CASE closed \/ wroteHeader
  BY <1>1 DEF WriteHeaderLocked
<1>2. CASE ~closed /\ ~wroteHeader
  <2>1. "handler" \in Author /\ SendStatus(code, "handler") /\ wroteHeader' /\ committed'
    BY <1>2 DEF WriteHeaderLocked, Author
  <2> QED
    BY <1>2, <2>1, SentLine
<1> QED
  BY <1>1, <1>2

(* The other types.                                                         *)
LEMMA RestStep == Rest /\ [Next]_vars => Rest'
<1> SUFFICES ASSUME Rest, [Next]_vars PROVE Rest'
  OBVIOUS
<1> USE StatusAssumption DEF Rest, Author
<1>1. CASE Enter
  <2>1. inFlight' \in Int
    BY <1>1 DEF Enter
  <2>2. UNCHANGED <<outer, ctx, statusLine, body, seen, accessLog, panicLog, observed>>
    BY <1>1 DEF Enter, response, logs
  <2>3. handler' = "running"
    BY <1>1 DEF Enter
  <2> QED
    BY <2>1, <2>2, <2>3
<1>2. ASSUME NEW code \in Status, WriteHeader(code) PROVE Rest'
  <2>1. code \in 200..599 /\ WriteHeaderLocked(code)
    BY <1>2 DEF WriteHeader
  <2>2. statusLine' \in Line \cup {None}
    BY <2>1, LockedLine
  <2> QED
    BY <1>2, <2>2 DEF WriteHeader, logs
<1>3. CASE Write
  <2>1. CASE closed
    BY <1>3, <2>1 DEF Write, CodeOr200, response, logs
  <2>2. CASE ~closed
    <3>1. 200 \in 200..599 /\ WriteHeaderLocked(200) /\ body' = Append(body, "handler")
      BY <1>3, <2>2 DEF Write
    <3>2. statusLine' \in Line \cup {None}
      BY <3>1, LockedLine
    <3> QED
      BY <1>3, <3>1, <3>2 DEF Write, CodeOr200, logs
  <2> QED
    BY <2>1, <2>2
<1>4. CASE Return
  BY <1>4 DEF Return, Dec, CodeOr200, writer, response, logs
<1>5. CASE Panic
  BY <1>5 DEF Panic, Dec, writer, response, logs
<1>6. CASE Deadline
  BY <1>6 DEF Deadline, writer, response, metrics, logs
<1>7. CASE ClientGone
  BY <1>7 DEF ClientGone, writer, response, metrics, logs
<1>8. CASE SelectDone
  BY <1>8 DEF SelectDone, metrics, logs
<1>9. CASE SelectPanicked
  BY <1>9 DEF SelectPanicked, writer, response, metrics, logs
<1>10. CASE SelectExpired
  BY <1>10 DEF SelectExpired, response, metrics, logs
<1>11. CASE AnswerTimeout
  <2>1. SendStatus(503, "timeout") /\ body' = Append(body, "timeout")
    BY <1>11 DEF AnswerTimeout, Problem
  <2>2. statusLine' \in Line
    <3>1. 503 \in 200..599 /\ "timeout" \in Author
      OBVIOUS
    <3> HIDE StatusAssumption DEF Author
    <3> QED
      BY <2>1, <3>1, SentLine
  <2>3. body' \in Seq(Author)
    BY <2>1
  <2> QED
    BY <1>11, <2>2, <2>3 DEF AnswerTimeout, metrics, logs
<1>12. CASE Log
  <2>1. accessLog' \in Seq(200..599)
    BY <1>12 DEF Log, Line
  <2> QED
    BY <1>12, <2>1 DEF Log, response, metrics
<1>13. CASE Recover
  <2>1. CASE statusLine # None
    <3>1. UNCHANGED <<handler, ctx, statusLine, body, accessLog, seen, inFlight, observed>>
      BY <1>13, <2>1 DEF Recover, response, metrics
    <3>2. outer' = "finished" /\ panicLog' \in Nat
      BY <1>13 DEF Recover
    <3> QED
      BY <3>1, <3>2
  <2>2. CASE statusLine = None
    <3>1. SendStatus(500, "recover") /\ body' = Append(body, "recover")
      BY <1>13, <2>2 DEF Recover, Problem
    <3>2. statusLine' \in Line
      <4>1. 500 \in 200..599 /\ "recover" \in Author
        OBVIOUS
      <4> HIDE StatusAssumption DEF Author
      <4> QED
        BY <3>1, <4>1, SentLine
    <3>3. body' \in Seq(Author)
      BY <3>1
    <3>4. UNCHANGED <<handler, ctx, accessLog, seen, inFlight, observed>>
      BY <1>13 DEF Recover, metrics
    <3>5. outer' = "finished" /\ panicLog' \in Nat
      BY <1>13 DEF Recover
    <3> QED
      BY <3>2, <3>3, <3>4, <3>5
  <2> QED
    BY <2>1, <2>2
<1>14. CASE RecoverAbort
  BY <1>14 DEF RecoverAbort, writer, response, metrics, logs
<1>15. CASE UNCHANGED vars
  BY <1>15 DEF vars, writer, response, metrics, logs
<1> QED
  BY <1>1, <1>2, <1>3, <1>4, <1>5, <1>6, <1>7, <1>8, <1>9, <1>10, <1>11, <1>12, <1>13, <1>14,
     <1>15 DEF Next, Handler, Outer

-----------------------------------------------------------------------------
(* The rest of the invariant, in the first state.                           *)
LEMMA InvInit == Init => Inv
<1> SUFFICES ASSUME Init PROVE Inv
  OBVIOUS
<1>1. TypeOK
  BY TypeInit, TypeParts
<1>2. ShutInv /\ ClaimInv /\ OneAuthor /\ SilentInv
  BY DEF Init, ShutInv, ClaimInv, OneAuthor, SilentInv
<1>3. LogInv
  BY DEF Init, LogInv, ReportedOnce, Over
<1>4. GaugeInv
  BY DEF Init, GaugeInv, GaugeCountsRunning
<1> QED
  BY <1>1, <1>2, <1>3, <1>4 DEF Inv

(* A running handler that commits a status, and may add to the body when    *)
(* the writer is open, keeps its claim.                                     *)
LEMMA HandlerHeader ==
  ASSUME Inv, handler = "running", NEW code \in 200..599, WriteHeaderLocked(code),
         outer' = outer, body' = body \/ (~closed /\ body' = Append(body, "handler"))
  PROVE  ClaimInv' /\ OneAuthor' /\ (outer # "select" => UNCHANGED statusLine)
<1> USE DEF Inv
<1>1. closed <=> outer # "select"
  BY DEF ShutInv
<1>2. body \in Seq(Author) /\ statusLine \in Line \cup {None}
  BY TypeParts DEF Rest
<1>3. CASE closed
  <2>1. UNCHANGED <<wroteHeader, committed, statusLine>> /\ body' = body
    BY <1>2, <1>3, LockedLine
  <2> QED
    BY <2>1, <1>1, <1>3 DEF ClaimInv, OneAuthor
<1>4. CASE ~closed
  <2>1. wroteHeader' /\ committed' /\ statusLine' \in Line /\ statusLine'.author = "handler"
    <3>1. CASE wroteHeader
      BY <3>1, <1>1, <1>2, <1>4, LockedLine DEF ClaimInv
    <3>2. CASE ~wroteHeader
      BY <3>2, <1>1, <1>2, <1>4, LockedLine DEF ClaimInv
    <3> QED
      BY <3>1, <3>2
  <2>2. \A i \in DOMAIN body : body[i] = "handler"
    BY <1>1, <1>4 DEF ClaimInv, OneAuthor
  <2>3. \A i \in DOMAIN body' : body'[i] = "handler"
    BY <2>2, <1>2
  <2>4. outer = "select"
    BY <1>1, <1>4
  <2> QED
    BY <2>1, <2>3, <2>4, NoneIsNoLine DEF ClaimInv, OneAuthor
<1> QED
  BY <1>3, <1>4

(* What a step of the handler leaves of the invariant: it touches the       *)
(* response only while the writer is open, that is, while the outer         *)
(* goroutine waits.                                                         *)
LEMMA HandlerInv == Inv /\ TypeOK' /\ Handler => Inv'
<1> SUFFICES ASSUME Inv, TypeOK', Handler PROVE Inv'
  OBVIOUS
<1> USE DEF Inv
<1>1. CASE Enter
  <2>1. ShutInv' /\ ClaimInv' /\ OneAuthor'
    BY <1>1 DEF Enter, writer, response, ShutInv, ClaimInv, OneAuthor
  <2>2. LogInv' /\ SilentInv'
    BY <1>1 DEF Enter, response, logs, LogInv, ReportedOnce, Over, SilentInv
  <2>3. GaugeInv'
    BY <1>1 DEF Enter, GaugeInv, GaugeCountsRunning, TypeOK
  <2> QED
    BY <2>1, <2>2, <2>3
<1>2. ASSUME NEW code \in Status, WriteHeader(code) PROVE Inv'
  <2>0. WriteHeaderLocked(code) /\ body' = body /\ handler = "running"
    BY <1>2 DEF WriteHeader
  <2> USE <1>2 DEF WriteHeader
  <2>1. ShutInv'
    BY DEF ShutInv
  <2>2. ClaimInv' /\ OneAuthor' /\ (outer # "select" => UNCHANGED statusLine)
    BY <2>0, HandlerHeader, StatusAssumption
  <2>4. LogInv'
    BY <2>2 DEF logs, LogInv, ReportedOnce, Over
  <2>5. SilentInv'
    BY <2>2 DEF SilentInv
  <2>6. GaugeInv'
    BY DEF GaugeInv, GaugeCountsRunning
  <2> QED
    BY <2>1, <2>2, <2>4, <2>5, <2>6
<1>3. CASE Write
  <2> USE <1>3 DEF Write
  <2>1. ShutInv'
    BY DEF ShutInv
  <2>2. ClaimInv' /\ OneAuthor' /\ (outer # "select" => UNCHANGED statusLine)
    <3>1. CASE closed
      BY <3>1 DEF response, ShutInv, ClaimInv, OneAuthor
    <3>2. CASE ~closed
      BY <3>2, HandlerHeader, StatusAssumption DEF ShutInv
    <3> QED
      BY <3>1, <3>2
  <2>4. LogInv'
    BY <2>2 DEF logs, LogInv, ReportedOnce, Over
  <2>5. SilentInv'
    BY <2>2 DEF SilentInv
  <2>6. GaugeInv'
    BY DEF GaugeInv, GaugeCountsRunning
  <2> QED
    BY <2>1, <2>2, <2>4, <2>5, <2>6
<1>4. CASE Return
  <2>1. ShutInv' /\ ClaimInv' /\ OneAuthor'
    BY <1>4 DEF Return, writer, response, ShutInv, ClaimInv, OneAuthor
  <2>2. LogInv' /\ SilentInv'
    BY <1>4 DEF Return, response, logs, LogInv, ReportedOnce, Over, SilentInv
  <2>3. GaugeInv'
    BY <1>4 DEF Return, Dec, GaugeInv, GaugeCountsRunning, TypeOK
  <2> QED
    BY <2>1, <2>2, <2>3
<1>5. CASE Panic
  <2>1. ShutInv' /\ ClaimInv' /\ OneAuthor'
    BY <1>5 DEF Panic, writer, response, ShutInv, ClaimInv, OneAuthor
  <2>2. LogInv' /\ SilentInv'
    BY <1>5 DEF Panic, response, logs, LogInv, ReportedOnce, Over, SilentInv
  <2>3. GaugeInv'
    BY <1>5 DEF Panic, Dec, GaugeInv, GaugeCountsRunning, TypeOK
  <2> QED
    BY <2>1, <2>2, <2>3
<1> QED
  BY <1>1, <1>2, <1>3, <1>4, <1>5 DEF Handler

(* A problem document sent where nothing was: its author owns the response. *)
LEMMA NewAuthor ==
  ASSUME Inv, statusLine = None, ~committed, NEW code \in 200..599,
         NEW author \in Author \ {"handler"}, Problem(code, author)
  PROVE  OneAuthor' /\ statusLine' # None
<1> USE DEF Inv
<1>1. body = <<>>
  <2>1. body \in Seq(Author)
    BY TypeParts DEF Rest
  <2>2. DOMAIN body = {}
    BY DEF OneAuthor
  <2> QED
    BY <2>1, <2>2
<1>2. statusLine' \in Line /\ statusLine'.author = author
  BY SentLine DEF Problem
<1>3. \A i \in DOMAIN body' : body'[i] = author
  BY <1>1 DEF Problem
<1> QED
  BY <1>2, <1>3, NoneIsNoLine DEF Problem, OneAuthor

(* What a step of the outer goroutine leaves of the invariant.              *)
LEMMA OuterInv == Inv /\ TypeOK' /\ Outer => Inv'
<1> SUFFICES ASSUME Inv, TypeOK', Outer PROVE Inv'
  OBVIOUS
<1> USE DEF Inv
<1>0. GaugeInv'
  BY DEF Outer, SelectDone, SelectPanicked, SelectExpired, AnswerTimeout, Log, Recover,
         RecoverAbort, metrics, GaugeInv, GaugeCountsRunning
<1>1. CASE SelectDone
  <2> USE <1>1 DEF SelectDone
  <2>1. ShutInv' /\ ClaimInv'
    BY DEF ShutInv, ClaimInv
  <2>2. OneAuthor'
    BY DEF ClaimInv, OneAuthor, TypeOK
  <2>3. LogInv' /\ SilentInv'
    BY DEF logs, LogInv, ReportedOnce, Over, SilentInv
  <2> QED
    BY <1>0, <2>1, <2>2, <2>3
<1>2. CASE SelectPanicked
  <2> USE <1>2 DEF SelectPanicked, writer, response
  <2>1. ShutInv' /\ ClaimInv' /\ OneAuthor'
    BY DEF ShutInv, ClaimInv, OneAuthor
  <2>2. LogInv' /\ SilentInv'
    BY DEF logs, LogInv, ReportedOnce, Over, SilentInv
  <2> QED
    BY <1>0, <2>1, <2>2
<1>3. CASE SelectExpired
  <2> USE <1>3 DEF SelectExpired, response
  <2>1. ShutInv' /\ ClaimInv' /\ OneAuthor'
    BY DEF ShutInv, ClaimInv, OneAuthor
  <2>2. LogInv'
    BY DEF logs, LogInv, ReportedOnce, Over
  <2>3. SilentInv'
    BY DEF ClaimInv, SilentInv, TypeOK
  <2> QED
    BY <1>0, <2>1, <2>2, <2>3
<1>4. CASE AnswerTimeout
  <2> USE <1>4 DEF AnswerTimeout, writer
  <2>1. ShutInv' /\ ClaimInv'
    BY DEF Problem, ShutInv, ClaimInv
  <2>2. OneAuthor' /\ statusLine' # None
    <3>1. statusLine = None /\ ~committed
      BY DEF ClaimInv
    <3>2. Problem(503, "timeout")
      BY DEF AnswerTimeout
    <3> QED
      BY <3>1, <3>2, NewAuthor, StatusAssumption DEF Author
  <2>3. LogInv' /\ SilentInv'
    BY <2>2 DEF logs, LogInv, ReportedOnce, Over, SilentInv
  <2> QED
    BY <1>0, <2>1, <2>2, <2>3
<1>5. CASE Log
  <2> USE <1>5 DEF Log, writer, response
  <2>1. ShutInv' /\ ClaimInv' /\ OneAuthor'
    BY DEF ShutInv, ClaimInv, OneAuthor
  <2>2. accessLog = <<>> /\ panicLog' = 0
    BY DEF LogInv, Over
  <2>3. LogInv'
    BY <2>2 DEF LogInv, ReportedOnce, Over
  <2>4. SilentInv'
    BY DEF SilentInv
  <2> QED
    BY <1>0, <2>1, <2>3, <2>4
<1>6. CASE Recover
  <2> USE <1>6 DEF Recover, writer
  <2>1. ShutInv' /\ ClaimInv'
    BY DEF Problem, SendStatus, response, ShutInv, ClaimInv
  <2>2. OneAuthor' /\ statusLine' # None
    <3>1. CASE statusLine # None
      BY <3>1 DEF response, OneAuthor
    <3>2. CASE statusLine = None
      BY <3>2, NewAuthor, StatusAssumption DEF ClaimInv, Author
    <3> QED
      BY <3>1, <3>2
  <2>3. LogInv'
    BY DEF LogInv, ReportedOnce, Over
  <2>4. SilentInv'
    BY <2>2 DEF SilentInv
  <2> QED
    BY <1>0, <2>1, <2>2, <2>3, <2>4
<1>7. CASE RecoverAbort
  <2> USE <1>7 DEF RecoverAbort, writer, response
  <2>1. ShutInv' /\ ClaimInv' /\ OneAuthor' /\ SilentInv'
    BY DEF ShutInv, ClaimInv, OneAuthor, SilentInv
  <2>2. LogInv'
    BY DEF logs, LogInv, ReportedOnce, Over
  <2> QED
    BY <1>0, <2>1, <2>2
<1> QED
  BY <1>1, <1>2, <1>3, <1>4, <1>5, <1>6, <1>7 DEF Outer

(* The context and a stuttering step leave everything else as it is.        *)
LEMMA QuietInv == Inv /\ TypeOK' /\ (Deadline \/ ClientGone \/ UNCHANGED vars) => Inv'
<1> SUFFICES ASSUME Inv, TypeOK', Deadline \/ ClientGone \/ UNCHANGED vars PROVE Inv'
  OBVIOUS
<1> USE DEF Deadline, ClientGone, vars, writer, response, metrics, logs
<1>1. ShutInv' /\ ClaimInv' /\ OneAuthor'
  BY DEF Inv, ShutInv, ClaimInv, OneAuthor
<1>2. LogInv' /\ SilentInv' /\ GaugeInv'
  BY DEF Inv, LogInv, ReportedOnce, Over, SilentInv, GaugeInv, GaugeCountsRunning
<1> QED
  BY <1>1, <1>2 DEF Inv

(* The invariant holds in every reachable state.                            *)
THEOREM TimeoutInvariance == Spec => []Inv
<1>1. Init => Inv
  BY InvInit
<1>2. Inv /\ [Next]_vars => Inv'
  <2> SUFFICES ASSUME Inv, [Next]_vars PROVE Inv'
    OBVIOUS
  <2>1. Flags' /\ Rest'
    BY TypeParts, FlagsStep, RestStep DEF Inv
  <2>2. TypeOK'
    BY <2>1, Zenon DEF TypeOK, Flags, Rest, Line
  <2> QED
    BY <2>2, HandlerInv, OuterInv, QuietInv DEF Next
<1> QED
  BY <1>1, <1>2, PTL DEF Spec

-----------------------------------------------------------------------------
(* The response has one author, and the headers of that author.             *)
THEOREM OneAuthorCorrect == Spec => []OneAuthor
<1>1. Inv => OneAuthor
  BY DEF Inv
<1> QED
  BY <1>1, TimeoutInvariance, PTL

(* Every finished request is reported once, with the status it got.         *)
THEOREM ReportedOnceCorrect == Spec => []ReportedOnce
<1>1. Inv => ReportedOnce
  BY DEF Inv, LogInv
<1> QED
  BY <1>1, TimeoutInvariance, PTL

(* An implicit empty 200 never stands for a timeout or a panic.             *)
THEOREM SilentMeansDoneCorrect == Spec => []SilentMeansDone
<1>1. Inv => SilentMeansDone
  BY DEF Inv, SilentInv, SilentMeansDone
<1> QED
  BY <1>1, TimeoutInvariance, PTL

(* The in-flight gauge is exact.                                            *)
THEOREM GaugeCorrect == Spec => []GaugeCountsRunning
<1>1. Inv => GaugeCountsRunning
  BY DEF Inv, GaugeInv
<1> QED
  BY <1>1, TimeoutInvariance, PTL

(* The handler's goroutine never writes to a response net/http has taken    *)
(* back.                                                                    *)
THEOREM NoWriteAfterReturnCorrect == Spec => NoWriteAfterReturn
<1>1. Inv /\ [Next]_vars => [Returned => UNCHANGED response]_vars
  <2> SUFFICES ASSUME Inv, Next, Returned PROVE UNCHANGED response
    OBVIOUS
  <2> USE DEF Returned
  <2>1. CASE Handler
    BY <2>1 DEF Inv, ShutInv, Handler, Enter, WriteHeader, WriteHeaderLocked, Write, Return,
                Panic, response
  <2>2. CASE ~Handler
    BY <2>2 DEF Next, Deadline, ClientGone, Outer, SelectDone, SelectPanicked, SelectExpired,
                AnswerTimeout, Log, Recover, RecoverAbort, response
  <2> QED
    BY <2>1, <2>2
<1> QED
  BY <1>1, TimeoutInvariance, PTL DEF Spec, NoWriteAfterReturn

-----------------------------------------------------------------------------
(* The recorder of Metrics and the wire agree for as long as the writer     *)
(* between them is open; whatever the handler writes later is the           *)
(* recorder's alone, and by then its status is fixed if it was ever sent.   *)
SeenInv ==
  /\ ~closed /\ seen # None => wroteHeader
  /\ wroteHeader => seen # None /\ seen = statusLine.code
  /\ statusLine # None /\ statusLine.author = "handler" => wroteHeader
  /\ handler \in {"new", "running"} => observed = <<>>
  /\ ObservedIsSent

(* Committing a header keeps the recorder and the wire in agreement.        *)
LEMMA SeenHeader ==
  ASSUME Inv, SeenInv, handler = "running", handler' = handler,
         NEW code \in 200..599, WriteHeaderLocked(code),
         closed' = closed, observed' = observed, seen' = IF seen = None THEN code ELSE seen
  PROVE  SeenInv'
<1>1. CASE closed \/ wroteHeader
  <2>1. wroteHeader' = wroteHeader /\ statusLine' = statusLine
    BY <1>1 DEF WriteHeaderLocked
  <2>2. wroteHeader => seen' = seen
    BY DEF SeenInv
  <2>3. ~closed' => wroteHeader'
    BY <1>1, <2>1
  <2>4. ObservedIsSent'
    BY DEF ObservedIsSent
  <2>5. wroteHeader' => seen' # None /\ seen' = statusLine'.code
    BY <2>1, <2>2 DEF SeenInv
  <2>6. statusLine' # None /\ statusLine'.author = "handler" => wroteHeader'
    BY <2>1 DEF SeenInv
  <2>7. handler' \in {"new", "running"} => observed' = <<>>
    BY DEF SeenInv
  <2> QED
    BY <2>3, <2>4, <2>5, <2>6, <2>7, Zenon DEF SeenInv
<1>2. CASE ~closed /\ ~wroteHeader
  <2>1. seen = None
    BY <1>2 DEF SeenInv
  <2>2. statusLine = None
    BY <1>2 DEF Inv, ShutInv, ClaimInv, TypeOK
  <2>3. statusLine' = [code |-> code, author |-> "handler"] /\ wroteHeader'
    BY <1>2, <2>2 DEF WriteHeaderLocked, SendStatus
  <2>4. seen' = code /\ code # None
    BY <2>1, StatusAssumption
  <2> QED
    BY <2>3, <2>4, StatusAssumption DEF SeenInv, ObservedIsSent
<1> QED
  BY <1>1, <1>2

(* Every step keeps them in agreement.                                      *)
LEMMA SeenStep == Inv /\ SeenInv /\ [Next]_vars => SeenInv'
<1> SUFFICES ASSUME Inv, SeenInv, [Next]_vars PROVE SeenInv'
  OBVIOUS
<1>1. CASE Enter
  BY <1>1 DEF Enter, SeenInv, ObservedIsSent, response, writer, logs
<1>2. ASSUME NEW code \in Status, WriteHeader(code) PROVE SeenInv'
  <2>1. code \in 200..599
    BY StatusAssumption
  <2> QED
    BY <1>2, <2>1, SeenHeader DEF WriteHeader
<1>3. CASE Write
  <2>1. CASE closed
    BY <1>3, <2>1 DEF Write, SeenInv, ObservedIsSent, CodeOr200, response
  <2>2. CASE ~closed
    BY <1>3, <2>2, SeenHeader DEF Write, CodeOr200
  <2> QED
    BY <2>1, <2>2
<1>4. CASE Return
  <2>1. handler = "running" /\ handler' = "returned" /\ UNCHANGED <<closed, wroteHeader, statusLine, seen, metered>>
    BY <1>4 DEF Return, writer, response
  <2>2. metered => observed' = <<CodeOr200(seen)>>
    BY <1>4 DEF Return, SeenInv
  <2>3. ObservedIsSent'
    BY <2>1, <2>2 DEF ObservedIsSent, SeenInv, CodeOr200
  <2> QED
    BY <2>1, <2>3 DEF SeenInv
<1>5. CASE Panic
  BY <1>5 DEF Panic, SeenInv, ObservedIsSent, response, writer, logs
<1>6. CASE Deadline \/ ClientGone \/ SelectPanicked \/ Log \/ RecoverAbort \/ UNCHANGED vars
  BY <1>6 DEF Deadline, ClientGone, SelectPanicked, Log, RecoverAbort, vars, SeenInv,
              ObservedIsSent, response, writer, metrics, logs
<1>7. CASE SelectDone \/ SelectExpired
  BY <1>7 DEF SelectDone, SelectExpired, SeenInv, ObservedIsSent, response, metrics, logs
<1>8. CASE AnswerTimeout
  <2>1. statusLine = None /\ ~wroteHeader
    BY <1>8 DEF AnswerTimeout, Inv, ClaimInv
  <2>2. statusLine' = [code |-> 503, author |-> "timeout"]
    BY <1>8, <2>1 DEF AnswerTimeout, Problem, SendStatus
  <2> QED
    BY <1>8, <2>1, <2>2 DEF AnswerTimeout, SeenInv, ObservedIsSent, writer, metrics
<1>9. CASE Recover
  <2>1. handler = "panicked" /\ handler' = "panicked"
    BY <1>9 DEF Recover
  <2>2. CASE statusLine = None
    <3>1. ~wroteHeader
      BY <2>2 DEF Inv, ClaimInv
    <3>2. statusLine' = [code |-> 500, author |-> "recover"]
      BY <1>9, <2>2 DEF Recover, Problem, SendStatus
    <3> QED
      BY <1>9, <2>1, <3>1, <3>2 DEF Recover, SeenInv, ObservedIsSent, writer, metrics
  <2>3. CASE statusLine # None
    BY <1>9, <2>1, <2>3 DEF Recover, SeenInv, ObservedIsSent, writer, metrics, response
  <2> QED
    BY <2>2, <2>3
<1> QED
  BY <1>1, <1>2, <1>3, <1>4, <1>5, <1>6, <1>7, <1>8, <1>9 DEF Next, Handler, Outer

(* Metrics counts the status the client got, once.                          *)
THEOREM ObservedIsSentCorrect == Spec => []ObservedIsSent
<1>1. Init => SeenInv
  BY DEF Init, SeenInv, ObservedIsSent
<1>2. SeenInv => ObservedIsSent
  BY DEF SeenInv
<1> QED
  BY <1>1, <1>2, SeenStep, TimeoutInvariance, PTL DEF Spec

(* The response has one owner, and none once it is handed back.             *)
THEOREM OwnerCorrect == Spec => ResponseHasOneOwner
BY OneAuthorCorrect, NoWriteAfterReturnCorrect, PTL DEF ResponseHasOneOwner

(* The middleware's state keeps its types.                                  *)
THEOREM TimeoutTypeCorrect == Spec => []TypeOK
<1>1. Inv => TypeOK
  BY DEF Inv
<1> QED
  BY <1>1, TimeoutInvariance, PTL
=============================================================================
