------------------------------- MODULE Lifecycle -------------------------------
(****************************************************************************)
(* cmd/server/main.go: one process from its start to its exit.  Three       *)
(* parties run side by side: the main goroutine (run, drain), the goroutine *)
(* inside srv.Serve, and the platform outside, which probes /readyz and     *)
(* routes connections by the last answer it got.  net/http's Serve and      *)
(* Shutdown are modelled from how the code uses them.                       *)
(*                                                                          *)
(* Time is counted in ticks, and a tick passes only when every goroutine    *)
(* waits for something: what the process can do, it does within the tick.   *)
(****************************************************************************)
EXTENDS Naturals

CONSTANTS
  Null,
  Conn,          \* the connections clients open, each used for any number of requests
  Environment,   \* the environments the process may be started in
  ProbePeriod    \* ticks from one readiness probe of the platform to the next

(* The durations config.Load lets through, in ticks: a drain has a deadline, *)
(* and a REQUEST_TIMEOUT of zero switches the Timeout middleware off.       *)
EnvironmentType ==
  [preStopDelay : Nat, shutdownTimeout : Nat \ {0}, requestTimeout : Nat]

ASSUME LifecycleAssumption ==
  /\ Environment \subseteq EnvironmentType
  /\ ProbePeriod \in Nat \ {0}
  /\ Null \notin {"start", "serve", "shutdown", "ErrServerClosed", "failed"}

VARIABLES
  env,        \* the configuration of this process
  main,       \* where run() is
  err,        \* the error run() is about to return, or Null
  ready,      \* the readiness flag
  timer,      \* ticks left of the sleep, then of the shutdown deadline
  listener,   \* "closed", "open"
  serve,      \* the goroutine in srv.Serve: "none", "spawned", "accepting", "returned"
  serveErr,   \* what Serve returned: Null, "ErrServerClosed", "failed"
  conn,       \* the state of each connection
  left,       \* ticks until the Timeout middleware answers a connection's request
  signalled,  \* SIGINT or SIGTERM has arrived: ctx is canceled
  routing,    \* the platform routes to this process: its last probe said ready
  probeIn     \* ticks to the next probe

processVars == <<main, err, ready, timer, listener, serve, serveErr>>
clientVars == <<conn, left>>
platformVars == <<signalled, routing, probeIn>>
vars == <<env, processVars, clientVars, platformVars>>

ConnState ==
  {"none",      \* not opened
   "backlog",   \* in the kernel's queue, not accepted yet
   "active",    \* accepted, with a request being served
   "idle",      \* kept alive between two requests
   "closed",    \* closed with every request on it answered
   "refused",   \* reset before it was accepted, or never let in
   "cut"}       \* the process ended with a request unanswered

Running == main # "exited"
InShutdown == main \in {"shutdown", "awaiting", "exited"}
In(state) == {c \in Conn : conn[c] = state}
Become(from, to) == [c \in Conn |-> IF conn[c] \in from THEN to ELSE conn[c]]

Init ==
  /\ env \in Environment
  /\ main = "start" /\ err = Null /\ ready = FALSE /\ timer = 0
  /\ listener = "closed" /\ serve = "none" /\ serveErr = Null
  /\ conn = [c \in Conn |-> "none"] /\ left = [c \in Conn |-> 0]
  /\ signalled = FALSE /\ routing = FALSE /\ probeIn = ProbePeriod

-----------------------------------------------------------------------------
(* readyz, as whoever reaches the process sees it.                          *)
Readyz == listener = "open" /\ serve = "accepting" /\ ready

-----------------------------------------------------------------------------
(* The main goroutine.                                                      *)

(* Whatever ends the process ends the requests it was serving.              *)
Exit(error) ==
  /\ main' = "exited"
  /\ err' = error
  /\ listener' = "closed"
  /\ conn' = [c \in Conn |->
                CASE conn[c] = "active"  -> "cut"
                  [] conn[c] = "idle"    -> "closed"
                  [] conn[c] = "backlog" -> "refused"
                  [] OTHER               -> conn[c]]

(* config.Load and Listen: both errors end run() before anything is served. *)
StartFails ==
  /\ main = "start"
  /\ Exit("start")
  /\ UNCHANGED <<env, ready, timer, serve, serveErr, left, platformVars>>

Listen ==
  /\ main = "start"
  /\ main' = "listening"
  /\ listener' = "open"
  /\ serve' = "spawned"
  /\ UNCHANGED <<env, err, ready, timer, serveErr, clientVars, platformVars>>

MarkReady ==
  /\ main = "listening"
  /\ main' = "select"
  /\ ready' = TRUE
  /\ UNCHANGED <<env, err, timer, listener, serve, serveErr, clientVars, platformVars>>

(* The select, with both cases ready: either is taken.                      *)
SelectServeErr ==
  /\ main = "select"
  /\ serveErr # Null
  /\ Exit("serve")
  /\ UNCHANGED <<env, ready, timer, serve, serveErr, left, platformVars>>

(* A mistake: the process stays ready until the listener closes.            *)
SelectDoneStillReady ==
  /\ main = "select"
  /\ signalled
  /\ main' = "sleeping"
  /\ timer' = env.preStopDelay
  /\ UNCHANGED <<env, err, ready, listener, serve, serveErr, clientVars, platformVars>>

SelectDone ==
  /\ main = "select"
  /\ signalled
  /\ ready' = FALSE
  /\ main' = "sleeping"
  /\ timer' = env.preStopDelay
  /\ UNCHANGED <<env, err, listener, serve, serveErr, clientVars, platformVars>>

(* The sleep is over; Shutdown closes the listener Serve has registered.    *)
(* One that Serve has not got to yet stays open until it does.              *)
Shutdown ==
  /\ main = "sleeping"
  /\ timer = 0
  /\ main' = "shutdown"
  /\ timer' = env.shutdownTimeout
  /\ listener' = IF serve = "spawned" THEN listener ELSE "closed"
  /\ conn' = IF serve = "spawned" THEN conn ELSE Become({"backlog"}, "refused")
  /\ UNCHANGED <<env, err, ready, serve, serveErr, left, platformVars>>

(* A mistake: requests in flight are not waited for.                        *)
ShutdownReturnsEarly ==
  /\ main = "shutdown"
  /\ serve # "accepting"
  /\ main' = "awaiting"
  /\ conn' = Become({"idle"}, "closed")
  /\ UNCHANGED <<env, err, ready, timer, listener, serve, serveErr, left, platformVars>>

(* Shutdown's poll: idle connections are closed, and with none left in use  *)
(* it returns.  It polls once Serve has let go of the listener.             *)
ShutdownPolls ==
  /\ main = "shutdown"
  /\ serve # "accepting"
  /\ In("idle") # {} \/ In("active") = {}
  /\ main' = IF In("active") = {} THEN "awaiting" ELSE "shutdown"
  /\ conn' = Become({"idle"}, "closed")
  /\ UNCHANGED <<env, err, ready, timer, listener, serve, serveErr, left, platformVars>>

(* A mistake: Shutdown has no deadline.                                     *)
ShutdownNeverExpires == FALSE /\ UNCHANGED vars

ShutdownExpires ==
  /\ main = "shutdown"
  /\ serve # "accepting"
  /\ timer = 0
  /\ main' = "awaiting"
  /\ err' = "shutdown"
  /\ UNCHANGED <<env, ready, timer, listener, serve, serveErr, clientVars, platformVars>>

(* A mistake: what Serve returned is not looked at.                         *)
AwaitServeBlindly ==
  /\ main = "awaiting"
  /\ serveErr # Null
  /\ Exit(err)
  /\ UNCHANGED <<env, ready, timer, serve, serveErr, left, platformVars>>

(* A mistake: ErrServerClosed is returned like any other error.             *)
AwaitServeVerbatim ==
  /\ main = "awaiting"
  /\ serveErr # Null
  /\ Exit(IF err = Null THEN serveErr ELSE err)
  /\ UNCHANGED <<env, ready, timer, serve, serveErr, left, platformVars>>

(* `<-serveErr`, the end of drain(): the first error is kept.               *)
AwaitServe ==
  /\ main = "awaiting"
  /\ serveErr # Null
  /\ Exit(IF serveErr = "failed" /\ err = Null THEN "serve" ELSE err)
  /\ UNCHANGED <<env, ready, timer, serve, serveErr, left, platformVars>>

MainStep ==
  \/ StartFails \/ Listen \/ MarkReady \/ SelectServeErr \/ SelectDone
  \/ Shutdown \/ ShutdownPolls \/ ShutdownExpires \/ AwaitServe

-----------------------------------------------------------------------------
(* The goroutine in srv.Serve, and the requests it starts.                  *)

ServeReturns(error) ==
  /\ Running
  /\ serve' = "returned"
  /\ serveErr' = error
  /\ listener' = "closed"
  /\ conn' = Become({"backlog"}, "refused")
  /\ UNCHANGED <<env, main, err, ready, timer, left, platformVars>>

(* Serve registers the listener, unless Shutdown came first.                *)
ServeStarts ==
  /\ serve = "spawned"
  /\ \/ InShutdown /\ ServeReturns("ErrServerClosed")
     \/ /\ ~InShutdown
        /\ serve' = "accepting"
        /\ UNCHANGED <<env, main, err, ready, timer, listener, serveErr, clientVars, platformVars>>

(* Accept fails because the listener was closed under it...                 *)
ServeStops == serve = "accepting" /\ listener = "closed" /\ ServeReturns("ErrServerClosed")

(* ... or for a reason of its own, at any time.                             *)
ServeFails == serve = "accepting" /\ listener = "open" /\ ServeReturns("failed")

(* A request begins: on a connection just accepted, or on one kept alive.   *)
Begin(c) ==
  /\ Running
  /\ \/ conn[c] = "backlog" /\ serve = "accepting" /\ listener = "open"
     \/ conn[c] = "idle"
  /\ conn' = [conn EXCEPT ![c] = "active"]
  /\ left' = [left EXCEPT ![c] = env.requestTimeout]
  /\ UNCHANGED <<env, processVars, platformVars>>

(* It is answered; during a shutdown the connection is not kept alive.      *)
Finish(c) ==
  /\ Running
  /\ conn[c] = "active"
  /\ conn' = [conn EXCEPT ![c] = IF InShutdown THEN "closed" ELSE "idle"]
  /\ left' = [left EXCEPT ![c] = 0]
  /\ UNCHANGED <<env, processVars, platformVars>>

-----------------------------------------------------------------------------
(* The platform.                                                            *)

Signal ==
  /\ Running
  /\ ~signalled
  /\ signalled' = TRUE
  /\ UNCHANGED <<env, processVars, clientVars, routing, probeIn>>

Probe ==
  /\ Running
  /\ probeIn = 0
  /\ routing' = Readyz
  /\ probeIn' = ProbePeriod
  /\ UNCHANGED <<env, processVars, clientVars, signalled>>

Connect(c) ==
  /\ Running
  /\ routing
  /\ conn[c] = "none"
  /\ conn' = [conn EXCEPT ![c] = IF listener = "open" THEN "backlog" ELSE "refused"]
  /\ UNCHANGED <<env, left, processVars, platformVars>>

(* Time passes when nobody in the process has anything to do.  A handler is *)
(* done, or answered for, when its request's time is up.                    *)
AllWait ==
  /\ main \in {"select", "sleeping", "shutdown"}
  /\ main = "select" => ~signalled /\ serveErr = Null
  /\ main # "select" => timer > 0
  /\ main = "shutdown" => In("active") # {} /\ In("idle") = {}
  /\ \/ serve = "returned"
     \/ serve = "accepting" /\ listener = "open" /\ In("backlog") = {}
  /\ \A c \in In("active") : env.requestTimeout > 0 => left[c] > 0

Less(n) == IF n > 0 THEN n - 1 ELSE 0

Tick ==
  /\ AllWait
  /\ probeIn > 0
  /\ timer' = Less(timer)
  /\ left' = [c \in Conn |-> Less(left[c])]
  /\ probeIn' = probeIn - 1
  /\ UNCHANGED <<env, main, err, ready, listener, serve, serveErr, conn, signalled, routing>>

Next ==
  \/ MainStep
  \/ ServeStarts \/ ServeStops \/ ServeFails
  \/ \E c \in Conn : Begin(c) \/ Finish(c) \/ Connect(c)
  \/ Signal \/ Probe \/ Tick

Spec == Init /\ [][Next]_vars

(* The goroutines are scheduled, Accept takes what is queued, requests that *)
(* have a deadline end, probes are sent and time passes.  No signal has to  *)
(* come, and Serve need not fail.                                           *)
Fairness ==
  /\ WF_vars(MainStep)
  /\ WF_vars(ServeStarts \/ ServeStops)
  /\ WF_vars(Probe)
  /\ WF_vars(Tick)
  /\ \A c \in Conn : WF_vars(conn[c] = "backlog" /\ Begin(c))
  /\ \A c \in Conn : WF_vars(env.requestTimeout > 0 /\ left[c] = 0 /\ Finish(c))

FairSpec == Spec /\ Fairness

-----------------------------------------------------------------------------
(* Properties.                                                              *)

(* The values the variables of run() and of the platform take.              *)
TypeOK ==
  /\ env \in Environment
  /\ main \in {"start", "listening", "select", "sleeping", "shutdown", "awaiting", "exited"}
  /\ err \in {Null, "start", "serve", "shutdown"}
  /\ {ready, signalled, routing} \subseteq BOOLEAN
  /\ {timer, probeIn} \subseteq Nat
  /\ listener \in {"closed", "open"}
  /\ serve \in {"none", "spawned", "accepting", "returned"}
  /\ serveErr \in {Null, "ErrServerClosed", "failed"}
  /\ conn \in [Conn -> ConnState]
  /\ left \in [Conn -> Nat]

(* A pre-stop delay longer than the probe period keeps every routed         *)
(* connection from a closed door: the platform has seen the 503 and stopped *)
(* routing before the listener closes.  Only a Serve that fails breaks it.  *)
RoutedIsAccepted ==
  env.preStopDelay > ProbePeriod /\ serveErr # "failed" => In("refused") = {}

(* No request that was begun is cut by the drain, as long as the Timeout    *)
(* middleware ends requests sooner than SHUTDOWN_TIMEOUT ends the drain.    *)
BegunIsAnswered ==
  /\ 0 < env.requestTimeout /\ env.requestTimeout < env.shutdownTimeout /\ err # "serve"
       => In("cut") = {}
  /\ In("cut") # {} => err \in {"serve", "shutdown"}

(* The exit status: run() returns nil only after a signal, a Serve that     *)
(* stopped because it was told to, and a drain that left no request behind; *)
(* and it blames Serve only when Serve failed.                              *)
CleanExit ==
  main = "exited" =>
    /\ err = Null => signalled /\ serveErr = "ErrServerClosed" /\ In("cut") = {}
    /\ err = "serve" => serveErr = "failed"

(* A signal ends the process, also before it is ready, while Serve fails,   *)
(* or with a handler that never returns.                                    *)
SignalEndsProcess == signalled ~> main = "exited"
=============================================================================
