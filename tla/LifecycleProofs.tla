---------------------------- MODULE LifecycleProofs ----------------------------
(****************************************************************************)
(* The safety properties of Lifecycle for any durations and any number of   *)
(* connections.  The invariants below say what the process and the platform *)
(* know of each other in each phase of run(); two of them are about time.   *)
(****************************************************************************)
EXTENDS Lifecycle, TLAPS

(* Nothing is served, and nobody comes, before the listener is open.        *)
StartInv ==
  main = "start" =>
    /\ listener = "closed" /\ serve = "none" /\ ~routing
    /\ \A c \in Conn : conn[c] = "none"

(* The goroutine in Serve: it has returned exactly when there is an error   *)
(* to read, it is told to stop only by a shutdown, and until then the door  *)
(* is open.                                                                 *)
ServeInv ==
  /\ serve = "returned" <=> serveErr # Null
  /\ serve = "none" => main \in {"start", "exited"}
  /\ serve \in {"spawned", "accepting"} /\ ~InShutdown => listener = "open"
  /\ serve = "accepting" /\ InShutdown => listener = "closed"
  /\ serveErr = "ErrServerClosed" => InShutdown
  /\ main = "awaiting" => serve # "accepting"

(* run() has no error before the end of the drain, drains only after a      *)
(* signal and no longer ready, and cuts nobody off before it exits.         *)
ErrInv ==
  /\ main \notin {"awaiting", "exited"} => err = Null
  /\ main = "awaiting" => err \in {Null, "shutdown"}
  /\ main \in {"sleeping", "shutdown", "awaiting"} => signalled /\ ~ready
  /\ Running => \A c \in Conn : conn[c] # "cut"

(* Requests end sooner than the drain.                                      *)
Timely == 0 < env.requestTimeout /\ env.requestTimeout < env.shutdownTimeout

(* A request has no more time left than the drain has, less the difference  *)
(* the two had to begin with; after the first tick of a shutdown nothing    *)
(* begins any more.  So an expired drain of timely requests has none left.  *)
DrainInv ==
  /\ \A c \in Conn : left[c] <= env.requestTimeout
  /\ main = "shutdown" =>
       /\ timer <= env.shutdownTimeout
       /\ Timely => \A c \in Conn : conn[c] = "active" =>
                      left[c] + env.shutdownTimeout <= timer + env.requestTimeout
       /\ \/ timer = env.shutdownTimeout
          \/ serve = "returned" /\ \A c \in Conn : conn[c] # "idle"
  /\ main = "awaiting" /\ (err = Null \/ Timely) =>
       \A c \in Conn : conn[c] \notin {"active", "idle"}

(* The pre-stop delay outlasts the probe period, and Serve has not failed.  *)
Ordinary == serveErr # "failed" /\ env.preStopDelay > ProbePeriod

(* While the platform routes to a process about to close, a probe comes     *)
(* before the sleep is over, and after it a tick in which the last          *)
(* connections are accepted.                                                *)
RouteInv ==
  /\ probeIn <= ProbePeriod
  /\ Ordinary =>
       /\ main = "sleeping" => /\ routing => timer > probeIn
                               /\ serve = "spawned" => timer > 0
                               /\ \A c \in Conn : conn[c] = "backlog" => timer > 0
       /\ InShutdown => ~routing /\ \A c \in Conn : conn[c] # "backlog"
       /\ \A c \in Conn : conn[c] # "refused"

Inv ==
  /\ TypeOK /\ StartInv /\ ServeInv /\ ErrInv /\ DrainInv /\ RouteInv
  /\ CleanExit /\ BegunIsAnswered

-----------------------------------------------------------------------------
(* What the assumption says of the configuration of a process.              *)
LEMMA EnvironmentTypes ==
  env \in Environment =>
    /\ env.preStopDelay \in Nat /\ env.requestTimeout \in Nat
    /\ env.shutdownTimeout \in Nat /\ env.shutdownTimeout > 0
    /\ ProbePeriod \in Nat /\ ProbePeriod > 0
  BY LifecycleAssumption DEF EnvironmentType

(* The initial states satisfy the invariant.                                *)
LEMMA InitInv == Init => Inv
<1> SUFFICES ASSUME Init PROVE Inv
  OBVIOUS
<1>1. TypeOK
  <2>1. conn \in [Conn -> ConnState] /\ left \in [Conn -> Nat]
    BY DEF Init, ConnState
  <2>2. {ready, signalled, routing} \subseteq BOOLEAN
    BY DEF Init
  <2>3. {timer, probeIn} \subseteq Nat
    BY LifecycleAssumption DEF Init
  <2>4. QED
    BY <2>1, <2>2, <2>3 DEF Init, TypeOK
<1> USE EnvironmentTypes, LifecycleAssumption DEF Init
<1>2. StartInv /\ ServeInv /\ ErrInv
  BY DEF StartInv, ServeInv, ErrInv, Running, InShutdown
<1>3. DrainInv /\ RouteInv
  BY DEF DrainInv, RouteInv, InShutdown
<1>4. CleanExit /\ BegunIsAnswered
  BY DEF CleanExit, BegunIsAnswered, In
<1>5. QED
  BY <1>1, <1>2, <1>3, <1>4 DEF Inv

-----------------------------------------------------------------------------
(* Every step keeps the types.                                              *)
LEMMA TypeStep ==
  TypeOK /\ [Next]_vars => TypeOK'
<1> SUFFICES ASSUME TypeOK, [Next]_vars
             PROVE  TypeOK'
  OBVIOUS
<1> USE EnvironmentTypes, LifecycleAssumption
<1>1. CASE StartFails
  BY <1>1 DEF StartFails, Exit, TypeOK, ConnState, InShutdown, Running,
     processVars, clientVars, platformVars
<1>2. CASE Listen
  BY <1>2 DEF Listen, TypeOK, ConnState, InShutdown, Running, processVars,
     clientVars, platformVars
<1>3. CASE MarkReady
  BY <1>3 DEF MarkReady, TypeOK, ConnState, InShutdown, Running, processVars,
     clientVars, platformVars
<1>4. CASE SelectServeErr
  BY <1>4 DEF SelectServeErr, Exit, TypeOK, ConnState, InShutdown, Running,
     processVars, clientVars, platformVars
<1>5. CASE SelectDone
  BY <1>5 DEF SelectDone, TypeOK, ConnState, InShutdown, Running,
     processVars, clientVars, platformVars
<1>6. CASE Shutdown
  BY <1>6 DEF Shutdown, Become, TypeOK, ConnState, InShutdown, Running,
     processVars, clientVars, platformVars
<1>7. CASE ShutdownPolls
  BY <1>7 DEF ShutdownPolls, Become, In, TypeOK, ConnState, InShutdown,
     Running, processVars, clientVars, platformVars
<1>8. CASE ShutdownExpires
  BY <1>8 DEF ShutdownExpires, TypeOK, ConnState, InShutdown, Running,
     processVars, clientVars, platformVars
<1>9. CASE AwaitServe
  BY <1>9 DEF AwaitServe, Exit, TypeOK, ConnState, InShutdown, Running,
     processVars, clientVars, platformVars
<1>10. CASE ServeStarts
  BY <1>10 DEF ServeStarts, ServeReturns, Become, TypeOK, ConnState,
     InShutdown, Running, processVars, clientVars, platformVars
<1>11. CASE ServeStops
  BY <1>11 DEF ServeStops, ServeReturns, Become, TypeOK, ConnState,
     InShutdown, Running, processVars, clientVars, platformVars
<1>12. CASE ServeFails
  BY <1>12 DEF ServeFails, ServeReturns, Become, TypeOK, ConnState,
     InShutdown, Running, processVars, clientVars, platformVars
<1>13. CASE Signal
  BY <1>13 DEF Signal, TypeOK, ConnState, InShutdown, Running, processVars,
     clientVars, platformVars
<1>14. CASE Probe
  BY <1>14 DEF Probe, Readyz, TypeOK, ConnState, InShutdown, Running,
     processVars, clientVars, platformVars
<1>15. CASE Tick
  BY <1>15 DEF Tick, AllWait, Less, In, TypeOK, ConnState, InShutdown,
     Running, processVars, clientVars, platformVars
<1>16. ASSUME NEW c \in Conn, Begin(c)
      PROVE  TypeOK'
  BY <1>16 DEF Begin, TypeOK, ConnState, InShutdown, Running, processVars,
     clientVars, platformVars
<1>17. ASSUME NEW c \in Conn, Finish(c)
      PROVE  TypeOK'
  BY <1>17 DEF Finish, TypeOK, ConnState, InShutdown, Running, processVars,
     clientVars, platformVars
<1>18. ASSUME NEW c \in Conn, Connect(c)
      PROVE  TypeOK'
  BY <1>18 DEF Connect, TypeOK, ConnState, InShutdown, Running, processVars,
     clientVars, platformVars
<1>19. CASE UNCHANGED vars
  BY <1>19 DEF vars, TypeOK, ConnState, InShutdown, Running, processVars,
     clientVars, platformVars
<1>20. QED
  BY <1>1, <1>2, <1>3, <1>4, <1>5, <1>6, <1>7, <1>8, <1>9, <1>10, <1>11,
     <1>12, <1>13, <1>14, <1>15, <1>16, <1>17, <1>18, <1>19 DEF Next,
     MainStep

(* Every step keeps the start empty: a probe finds nobody there.             *)
LEMMA StartStep ==
  StartInv /\ [Next]_vars => StartInv'
<1> SUFFICES ASSUME StartInv, [Next]_vars
             PROVE  StartInv'
  OBVIOUS
<1>1. CASE StartFails
  BY <1>1 DEF StartFails, Exit, StartInv, InShutdown, Running, processVars,
     clientVars, platformVars
<1>2. CASE Listen
  BY <1>2 DEF Listen, StartInv, InShutdown, Running, processVars, clientVars,
     platformVars
<1>3. CASE MarkReady
  BY <1>3 DEF MarkReady, StartInv, InShutdown, Running, processVars,
     clientVars, platformVars
<1>4. CASE SelectServeErr
  BY <1>4 DEF SelectServeErr, Exit, StartInv, InShutdown, Running,
     processVars, clientVars, platformVars
<1>5. CASE SelectDone
  BY <1>5 DEF SelectDone, StartInv, InShutdown, Running, processVars,
     clientVars, platformVars
<1>6. CASE Shutdown
  BY <1>6 DEF Shutdown, Become, StartInv, InShutdown, Running, processVars,
     clientVars, platformVars
<1>7. CASE ShutdownPolls
  BY <1>7 DEF ShutdownPolls, Become, In, StartInv, InShutdown, Running,
     processVars, clientVars, platformVars
<1>8. CASE ShutdownExpires
  BY <1>8 DEF ShutdownExpires, StartInv, InShutdown, Running, processVars,
     clientVars, platformVars
<1>9. CASE AwaitServe
  BY <1>9 DEF AwaitServe, Exit, StartInv, InShutdown, Running, processVars,
     clientVars, platformVars
<1>10. CASE ServeStarts
  BY <1>10 DEF ServeStarts, ServeReturns, Become, StartInv, InShutdown,
     Running, processVars, clientVars, platformVars
<1>11. CASE ServeStops
  BY <1>11 DEF ServeStops, ServeReturns, Become, StartInv, InShutdown,
     Running, processVars, clientVars, platformVars
<1>12. CASE ServeFails
  BY <1>12 DEF ServeFails, ServeReturns, Become, StartInv, InShutdown,
     Running, processVars, clientVars, platformVars
<1>13. CASE Signal
  BY <1>13 DEF Signal, StartInv, InShutdown, Running, processVars,
     clientVars, platformVars
<1>14. CASE Probe
  BY <1>14 DEF Probe, Readyz, StartInv, InShutdown, Running, processVars,
     clientVars, platformVars
<1>15. CASE Tick
  BY <1>15 DEF Tick, AllWait, Less, In, StartInv, InShutdown, Running,
     processVars, clientVars, platformVars
<1>16. ASSUME NEW c \in Conn, Begin(c)
      PROVE  StartInv'
  BY <1>16 DEF Begin, StartInv, InShutdown, Running, processVars, clientVars,
     platformVars
<1>17. ASSUME NEW c \in Conn, Finish(c)
      PROVE  StartInv'
  BY <1>17 DEF Finish, StartInv, InShutdown, Running, processVars,
     clientVars, platformVars
<1>18. ASSUME NEW c \in Conn, Connect(c)
      PROVE  StartInv'
  BY <1>18 DEF Connect, StartInv, InShutdown, Running, processVars,
     clientVars, platformVars
<1>19. CASE UNCHANGED vars
  BY <1>19 DEF vars, StartInv, InShutdown, Running, processVars, clientVars,
     platformVars
<1>20. QED
  BY <1>1, <1>2, <1>3, <1>4, <1>5, <1>6, <1>7, <1>8, <1>9, <1>10, <1>11,
     <1>12, <1>13, <1>14, <1>15, <1>16, <1>17, <1>18, <1>19 DEF Next,
     MainStep

(* Every step keeps what is known of Serve.                                 *)
LEMMA ServeStep ==
  TypeOK /\ StartInv /\ ServeInv /\ [Next]_vars => ServeInv'
<1> SUFFICES ASSUME TypeOK, StartInv, ServeInv, [Next]_vars
             PROVE  ServeInv'
  OBVIOUS
<1> USE LifecycleAssumption
<1>1. CASE StartFails
  BY <1>1 DEF StartFails, Exit, TypeOK, StartInv, ServeInv, InShutdown,
     Running, processVars, clientVars, platformVars
<1>2. CASE Listen
  BY <1>2 DEF Listen, TypeOK, StartInv, ServeInv, InShutdown, Running,
     processVars, clientVars, platformVars
<1>3. CASE MarkReady
  BY <1>3 DEF MarkReady, TypeOK, StartInv, ServeInv, InShutdown, Running,
     processVars, clientVars, platformVars
<1>4. CASE SelectServeErr
  BY <1>4 DEF SelectServeErr, Exit, TypeOK, StartInv, ServeInv, InShutdown,
     Running, processVars, clientVars, platformVars
<1>5. CASE SelectDone
  BY <1>5 DEF SelectDone, TypeOK, StartInv, ServeInv, InShutdown, Running,
     processVars, clientVars, platformVars
<1>6. CASE Shutdown
  BY <1>6 DEF Shutdown, Become, TypeOK, StartInv, ServeInv, InShutdown,
     Running, processVars, clientVars, platformVars
<1>7. CASE ShutdownPolls
  BY <1>7 DEF ShutdownPolls, Become, In, TypeOK, StartInv, ServeInv,
     InShutdown, Running, processVars, clientVars, platformVars
<1>8. CASE ShutdownExpires
  BY <1>8 DEF ShutdownExpires, TypeOK, StartInv, ServeInv, InShutdown,
     Running, processVars, clientVars, platformVars
<1>9. CASE AwaitServe
  BY <1>9 DEF AwaitServe, Exit, TypeOK, StartInv, ServeInv, InShutdown,
     Running, processVars, clientVars, platformVars
<1>10. CASE ServeStarts
  BY <1>10 DEF ServeStarts, ServeReturns, Become, TypeOK, StartInv, ServeInv,
     InShutdown, Running, processVars, clientVars, platformVars
<1>11. CASE ServeStops
  BY <1>11 DEF ServeStops, ServeReturns, Become, TypeOK, StartInv, ServeInv,
     InShutdown, Running, processVars, clientVars, platformVars
<1>12. CASE ServeFails
  BY <1>12 DEF ServeFails, ServeReturns, Become, TypeOK, StartInv, ServeInv,
     InShutdown, Running, processVars, clientVars, platformVars
<1>13. CASE Signal
  BY <1>13 DEF Signal, TypeOK, StartInv, ServeInv, InShutdown, Running,
     processVars, clientVars, platformVars
<1>14. CASE Probe
  BY <1>14 DEF Probe, Readyz, TypeOK, StartInv, ServeInv, InShutdown,
     Running, processVars, clientVars, platformVars
<1>15. CASE Tick
  BY <1>15 DEF Tick, AllWait, Less, In, TypeOK, StartInv, ServeInv,
     InShutdown, Running, processVars, clientVars, platformVars
<1>16. ASSUME NEW c \in Conn, Begin(c)
      PROVE  ServeInv'
  BY <1>16 DEF Begin, TypeOK, StartInv, ServeInv, InShutdown, Running,
     processVars, clientVars, platformVars
<1>17. ASSUME NEW c \in Conn, Finish(c)
      PROVE  ServeInv'
  BY <1>17 DEF Finish, TypeOK, StartInv, ServeInv, InShutdown, Running,
     processVars, clientVars, platformVars
<1>18. ASSUME NEW c \in Conn, Connect(c)
      PROVE  ServeInv'
  BY <1>18 DEF Connect, TypeOK, StartInv, ServeInv, InShutdown, Running,
     processVars, clientVars, platformVars
<1>19. CASE UNCHANGED vars
  BY <1>19 DEF vars, TypeOK, StartInv, ServeInv, InShutdown, Running,
     processVars, clientVars, platformVars
<1>20. QED
  BY <1>1, <1>2, <1>3, <1>4, <1>5, <1>6, <1>7, <1>8, <1>9, <1>10, <1>11,
     <1>12, <1>13, <1>14, <1>15, <1>16, <1>17, <1>18, <1>19 DEF Next,
     MainStep

(* Every step keeps what is known of the error.                             *)
LEMMA ErrStep ==
  TypeOK /\ StartInv /\ ErrInv /\ [Next]_vars => ErrInv'
<1> SUFFICES ASSUME TypeOK, StartInv, ErrInv, [Next]_vars
             PROVE  ErrInv'
  OBVIOUS
<1>1. CASE StartFails
  BY <1>1 DEF StartFails, Exit, TypeOK, StartInv, ErrInv, InShutdown,
     Running, processVars, clientVars, platformVars
<1>2. CASE Listen
  BY <1>2 DEF Listen, TypeOK, StartInv, ErrInv, InShutdown, Running,
     processVars, clientVars, platformVars
<1>3. CASE MarkReady
  BY <1>3 DEF MarkReady, TypeOK, StartInv, ErrInv, InShutdown, Running,
     processVars, clientVars, platformVars
<1>4. CASE SelectServeErr
  BY <1>4 DEF SelectServeErr, Exit, TypeOK, StartInv, ErrInv, InShutdown,
     Running, processVars, clientVars, platformVars
<1>5. CASE SelectDone
  BY <1>5 DEF SelectDone, TypeOK, StartInv, ErrInv, InShutdown, Running,
     processVars, clientVars, platformVars
<1>6. CASE Shutdown
  BY <1>6 DEF Shutdown, Become, TypeOK, StartInv, ErrInv, InShutdown,
     Running, processVars, clientVars, platformVars
<1>7. CASE ShutdownPolls
  BY <1>7 DEF ShutdownPolls, Become, In, TypeOK, StartInv, ErrInv,
     InShutdown, Running, processVars, clientVars, platformVars
<1>8. CASE ShutdownExpires
  BY <1>8 DEF ShutdownExpires, TypeOK, StartInv, ErrInv, InShutdown, Running,
     processVars, clientVars, platformVars
<1>9. CASE AwaitServe
  BY <1>9 DEF AwaitServe, Exit, TypeOK, StartInv, ErrInv, InShutdown,
     Running, processVars, clientVars, platformVars
<1>10. CASE ServeStarts
  BY <1>10 DEF ServeStarts, ServeReturns, Become, TypeOK, StartInv, ErrInv,
     InShutdown, Running, processVars, clientVars, platformVars
<1>11. CASE ServeStops
  BY <1>11 DEF ServeStops, ServeReturns, Become, TypeOK, StartInv, ErrInv,
     InShutdown, Running, processVars, clientVars, platformVars
<1>12. CASE ServeFails
  BY <1>12 DEF ServeFails, ServeReturns, Become, TypeOK, StartInv, ErrInv,
     InShutdown, Running, processVars, clientVars, platformVars
<1>13. CASE Signal
  BY <1>13 DEF Signal, TypeOK, StartInv, ErrInv, InShutdown, Running,
     processVars, clientVars, platformVars
<1>14. CASE Probe
  BY <1>14 DEF Probe, Readyz, TypeOK, StartInv, ErrInv, InShutdown, Running,
     processVars, clientVars, platformVars
<1>15. CASE Tick
  BY <1>15 DEF Tick, AllWait, Less, In, TypeOK, StartInv, ErrInv, InShutdown,
     Running, processVars, clientVars, platformVars
<1>16. ASSUME NEW c \in Conn, Begin(c)
      PROVE  ErrInv'
  BY <1>16 DEF Begin, TypeOK, StartInv, ErrInv, InShutdown, Running,
     processVars, clientVars, platformVars
<1>17. ASSUME NEW c \in Conn, Finish(c)
      PROVE  ErrInv'
  BY <1>17 DEF Finish, TypeOK, StartInv, ErrInv, InShutdown, Running,
     processVars, clientVars, platformVars
<1>18. ASSUME NEW c \in Conn, Connect(c)
      PROVE  ErrInv'
  BY <1>18 DEF Connect, TypeOK, StartInv, ErrInv, InShutdown, Running,
     processVars, clientVars, platformVars
<1>19. CASE UNCHANGED vars
  BY <1>19 DEF vars, TypeOK, StartInv, ErrInv, InShutdown, Running,
     processVars, clientVars, platformVars
<1>20. QED
  BY <1>1, <1>2, <1>3, <1>4, <1>5, <1>6, <1>7, <1>8, <1>9, <1>10, <1>11,
     <1>12, <1>13, <1>14, <1>15, <1>16, <1>17, <1>18, <1>19 DEF Next,
     MainStep

(* Every step keeps the time left to the requests and to the drain.          *)
LEMMA DrainStep ==
  TypeOK /\ ServeInv /\ ErrInv /\ DrainInv /\ [Next]_vars => DrainInv'
<1> SUFFICES ASSUME TypeOK, ServeInv, ErrInv, DrainInv, [Next]_vars
             PROVE  DrainInv'
  OBVIOUS
<1> USE EnvironmentTypes, LifecycleAssumption
<1>1. CASE StartFails
  BY <1>1 DEF StartFails, Exit, TypeOK, ServeInv, ErrInv, DrainInv, Timely,
     InShutdown, Running, processVars, clientVars, platformVars
<1>2. CASE Listen
  BY <1>2 DEF Listen, TypeOK, ServeInv, ErrInv, DrainInv, Timely, InShutdown,
     Running, processVars, clientVars, platformVars
<1>3. CASE MarkReady
  BY <1>3 DEF MarkReady, TypeOK, ServeInv, ErrInv, DrainInv, Timely,
     InShutdown, Running, processVars, clientVars, platformVars
<1>4. CASE SelectServeErr
  BY <1>4 DEF SelectServeErr, Exit, TypeOK, ServeInv, ErrInv, DrainInv,
     Timely, InShutdown, Running, processVars, clientVars, platformVars
<1>5. CASE SelectDone
  BY <1>5 DEF SelectDone, TypeOK, ServeInv, ErrInv, DrainInv, Timely,
     InShutdown, Running, processVars, clientVars, platformVars
<1>6. CASE Shutdown
  BY <1>6 DEF Shutdown, Become, TypeOK, ServeInv, ErrInv, DrainInv, Timely,
     InShutdown, Running, processVars, clientVars, platformVars
<1>7. CASE ShutdownPolls
  BY <1>7 DEF ShutdownPolls, Become, In, TypeOK, ServeInv, ErrInv, DrainInv,
     Timely, InShutdown, Running, processVars, clientVars, platformVars
<1>8. CASE ShutdownExpires
  BY <1>8 DEF ShutdownExpires, TypeOK, ServeInv, ErrInv, DrainInv, Timely,
     InShutdown, Running, processVars, clientVars, platformVars
<1>9. CASE AwaitServe
  BY <1>9 DEF AwaitServe, Exit, TypeOK, ServeInv, ErrInv, DrainInv, Timely,
     InShutdown, Running, processVars, clientVars, platformVars
<1>10. CASE ServeStarts
  BY <1>10 DEF ServeStarts, ServeReturns, Become, TypeOK, ServeInv, ErrInv,
     DrainInv, Timely, InShutdown, Running, processVars, clientVars,
     platformVars
<1>11. CASE ServeStops
  BY <1>11 DEF ServeStops, ServeReturns, Become, TypeOK, ServeInv, ErrInv,
     DrainInv, Timely, InShutdown, Running, processVars, clientVars,
     platformVars
<1>12. CASE ServeFails
  BY <1>12 DEF ServeFails, ServeReturns, Become, TypeOK, ServeInv, ErrInv,
     DrainInv, Timely, InShutdown, Running, processVars, clientVars,
     platformVars
<1>13. CASE Signal
  BY <1>13 DEF Signal, TypeOK, ServeInv, ErrInv, DrainInv, Timely,
     InShutdown, Running, processVars, clientVars, platformVars
<1>14. CASE Probe
  BY <1>14 DEF Probe, Readyz, TypeOK, ServeInv, ErrInv, DrainInv, Timely,
     InShutdown, Running, processVars, clientVars, platformVars
<1>15. CASE Tick
  BY <1>15 DEF Tick, AllWait, Less, In, TypeOK, ServeInv, ErrInv, DrainInv,
     Timely, InShutdown, Running, processVars, clientVars, platformVars
<1>16. ASSUME NEW c \in Conn, Begin(c)
      PROVE  DrainInv'
  BY <1>16 DEF Begin, TypeOK, ServeInv, ErrInv, DrainInv, Timely, InShutdown,
     Running, processVars, clientVars, platformVars
<1>17. ASSUME NEW c \in Conn, Finish(c)
      PROVE  DrainInv'
  BY <1>17 DEF Finish, TypeOK, ServeInv, ErrInv, DrainInv, Timely,
     InShutdown, Running, processVars, clientVars, platformVars
<1>18. ASSUME NEW c \in Conn, Connect(c)
      PROVE  DrainInv'
  BY <1>18 DEF Connect, TypeOK, ServeInv, ErrInv, DrainInv, Timely,
     InShutdown, Running, processVars, clientVars, platformVars
<1>19. CASE UNCHANGED vars
  BY <1>19 DEF vars, TypeOK, ServeInv, ErrInv, DrainInv, Timely, InShutdown,
     Running, processVars, clientVars, platformVars
<1>20. QED
  BY <1>1, <1>2, <1>3, <1>4, <1>5, <1>6, <1>7, <1>8, <1>9, <1>10, <1>11,
     <1>12, <1>13, <1>14, <1>15, <1>16, <1>17, <1>18, <1>19 DEF Next,
     MainStep

(* Every step keeps the door open for whom the platform sends.               *)
LEMMA RouteStep ==
  TypeOK /\ StartInv /\ ServeInv /\ ErrInv /\ RouteInv /\ [Next]_vars => RouteInv'
<1> SUFFICES ASSUME TypeOK, StartInv, ServeInv, ErrInv, RouteInv, [Next]_vars
             PROVE  RouteInv'
  OBVIOUS
<1> USE EnvironmentTypes, LifecycleAssumption
<1>1. CASE StartFails
  BY <1>1 DEF StartFails, Exit, TypeOK, StartInv, ServeInv, ErrInv, RouteInv,
     Ordinary, InShutdown, Running, processVars, clientVars, platformVars
<1>2. CASE Listen
  BY <1>2 DEF Listen, TypeOK, StartInv, ServeInv, ErrInv, RouteInv, Ordinary,
     InShutdown, Running, processVars, clientVars, platformVars
<1>3. CASE MarkReady
  BY <1>3 DEF MarkReady, TypeOK, StartInv, ServeInv, ErrInv, RouteInv,
     Ordinary, InShutdown, Running, processVars, clientVars, platformVars
<1>4. CASE SelectServeErr
  BY <1>4 DEF SelectServeErr, Exit, TypeOK, StartInv, ServeInv, ErrInv,
     RouteInv, Ordinary, InShutdown, Running, processVars, clientVars,
     platformVars
<1>5. CASE SelectDone
  BY <1>5 DEF SelectDone, TypeOK, StartInv, ServeInv, ErrInv, RouteInv,
     Ordinary, InShutdown, Running, processVars, clientVars, platformVars
<1>6. CASE Shutdown
  BY <1>6 DEF Shutdown, Become, TypeOK, StartInv, ServeInv, ErrInv, RouteInv,
     Ordinary, InShutdown, Running, processVars, clientVars, platformVars
<1>7. CASE ShutdownPolls
  BY <1>7 DEF ShutdownPolls, Become, In, TypeOK, StartInv, ServeInv, ErrInv,
     RouteInv, Ordinary, InShutdown, Running, processVars, clientVars,
     platformVars
<1>8. CASE ShutdownExpires
  BY <1>8 DEF ShutdownExpires, TypeOK, StartInv, ServeInv, ErrInv, RouteInv,
     Ordinary, InShutdown, Running, processVars, clientVars, platformVars
<1>9. CASE AwaitServe
  BY <1>9 DEF AwaitServe, Exit, TypeOK, StartInv, ServeInv, ErrInv, RouteInv,
     Ordinary, InShutdown, Running, processVars, clientVars, platformVars
<1>10. CASE ServeStarts
  BY <1>10 DEF ServeStarts, ServeReturns, Become, TypeOK, StartInv, ServeInv,
     ErrInv, RouteInv, Ordinary, InShutdown, Running, processVars,
     clientVars, platformVars
<1>11. CASE ServeStops
  BY <1>11 DEF ServeStops, ServeReturns, Become, TypeOK, StartInv, ServeInv,
     ErrInv, RouteInv, Ordinary, InShutdown, Running, processVars,
     clientVars, platformVars
<1>12. CASE ServeFails
  BY <1>12 DEF ServeFails, ServeReturns, Become, TypeOK, StartInv, ServeInv,
     ErrInv, RouteInv, Ordinary, InShutdown, Running, processVars,
     clientVars, platformVars
<1>13. CASE Signal
  BY <1>13 DEF Signal, TypeOK, StartInv, ServeInv, ErrInv, RouteInv,
     Ordinary, InShutdown, Running, processVars, clientVars, platformVars
<1>14. CASE Probe
  BY <1>14 DEF Probe, Readyz, TypeOK, StartInv, ServeInv, ErrInv, RouteInv,
     Ordinary, InShutdown, Running, processVars, clientVars, platformVars
<1>15. CASE Tick
  BY <1>15 DEF Tick, AllWait, Less, In, TypeOK, StartInv, ServeInv, ErrInv,
     RouteInv, Ordinary, InShutdown, Running, processVars, clientVars,
     platformVars
<1>16. ASSUME NEW c \in Conn, Begin(c)
      PROVE  RouteInv'
  BY <1>16 DEF Begin, TypeOK, StartInv, ServeInv, ErrInv, RouteInv, Ordinary,
     InShutdown, Running, processVars, clientVars, platformVars
<1>17. ASSUME NEW c \in Conn, Finish(c)
      PROVE  RouteInv'
  BY <1>17 DEF Finish, TypeOK, StartInv, ServeInv, ErrInv, RouteInv,
     Ordinary, InShutdown, Running, processVars, clientVars, platformVars
<1>18. ASSUME NEW c \in Conn, Connect(c)
      PROVE  RouteInv'
  BY <1>18 DEF Connect, TypeOK, StartInv, ServeInv, ErrInv, RouteInv,
     Ordinary, InShutdown, Running, processVars, clientVars, platformVars
<1>19. CASE UNCHANGED vars
  BY <1>19 DEF vars, TypeOK, StartInv, ServeInv, ErrInv, RouteInv, Ordinary,
     InShutdown, Running, processVars, clientVars, platformVars
<1>20. QED
  BY <1>1, <1>2, <1>3, <1>4, <1>5, <1>6, <1>7, <1>8, <1>9, <1>10, <1>11,
     <1>12, <1>13, <1>14, <1>15, <1>16, <1>17, <1>18, <1>19 DEF Next,
     MainStep

(* Every step keeps the exit status right.                                  *)
LEMMA CleanStep ==
  TypeOK /\ ServeInv /\ ErrInv /\ DrainInv /\ CleanExit /\ [Next]_vars => CleanExit'
<1> SUFFICES ASSUME TypeOK, ServeInv, ErrInv, DrainInv, CleanExit, [Next]_vars
             PROVE  CleanExit'
  OBVIOUS
<1> USE LifecycleAssumption
<1>1. CASE StartFails
  BY <1>1 DEF StartFails, Exit, TypeOK, ServeInv, ErrInv, DrainInv,
     CleanExit, In, InShutdown, Running, processVars, clientVars,
     platformVars
<1>2. CASE Listen
  BY <1>2 DEF Listen, TypeOK, ServeInv, ErrInv, DrainInv, CleanExit, In,
     InShutdown, Running, processVars, clientVars, platformVars
<1>3. CASE MarkReady
  BY <1>3 DEF MarkReady, TypeOK, ServeInv, ErrInv, DrainInv, CleanExit, In,
     InShutdown, Running, processVars, clientVars, platformVars
<1>4. CASE SelectServeErr
  BY <1>4 DEF SelectServeErr, Exit, TypeOK, ServeInv, ErrInv, DrainInv,
     CleanExit, In, InShutdown, Running, processVars, clientVars,
     platformVars
<1>5. CASE SelectDone
  BY <1>5 DEF SelectDone, TypeOK, ServeInv, ErrInv, DrainInv, CleanExit, In,
     InShutdown, Running, processVars, clientVars, platformVars
<1>6. CASE Shutdown
  BY <1>6 DEF Shutdown, Become, TypeOK, ServeInv, ErrInv, DrainInv,
     CleanExit, In, InShutdown, Running, processVars, clientVars,
     platformVars
<1>7. CASE ShutdownPolls
  BY <1>7 DEF ShutdownPolls, Become, In, TypeOK, ServeInv, ErrInv, DrainInv,
     CleanExit, InShutdown, Running, processVars, clientVars, platformVars
<1>8. CASE ShutdownExpires
  BY <1>8 DEF ShutdownExpires, TypeOK, ServeInv, ErrInv, DrainInv, CleanExit,
     In, InShutdown, Running, processVars, clientVars, platformVars
<1>9. CASE AwaitServe
  BY <1>9 DEF AwaitServe, Exit, TypeOK, ServeInv, ErrInv, DrainInv,
     CleanExit, In, InShutdown, Running, processVars, clientVars,
     platformVars
<1>10. CASE ServeStarts
  BY <1>10 DEF ServeStarts, ServeReturns, Become, TypeOK, ServeInv, ErrInv,
     DrainInv, CleanExit, In, InShutdown, Running, processVars, clientVars,
     platformVars
<1>11. CASE ServeStops
  BY <1>11 DEF ServeStops, ServeReturns, Become, TypeOK, ServeInv, ErrInv,
     DrainInv, CleanExit, In, InShutdown, Running, processVars, clientVars,
     platformVars
<1>12. CASE ServeFails
  BY <1>12 DEF ServeFails, ServeReturns, Become, TypeOK, ServeInv, ErrInv,
     DrainInv, CleanExit, In, InShutdown, Running, processVars, clientVars,
     platformVars
<1>13. CASE Signal
  BY <1>13 DEF Signal, TypeOK, ServeInv, ErrInv, DrainInv, CleanExit, In,
     InShutdown, Running, processVars, clientVars, platformVars
<1>14. CASE Probe
  BY <1>14 DEF Probe, Readyz, TypeOK, ServeInv, ErrInv, DrainInv, CleanExit,
     In, InShutdown, Running, processVars, clientVars, platformVars
<1>15. CASE Tick
  BY <1>15 DEF Tick, AllWait, Less, In, TypeOK, ServeInv, ErrInv, DrainInv,
     CleanExit, InShutdown, Running, processVars, clientVars, platformVars
<1>16. ASSUME NEW c \in Conn, Begin(c)
      PROVE  CleanExit'
  BY <1>16 DEF Begin, TypeOK, ServeInv, ErrInv, DrainInv, CleanExit, In,
     InShutdown, Running, processVars, clientVars, platformVars
<1>17. ASSUME NEW c \in Conn, Finish(c)
      PROVE  CleanExit'
  BY <1>17 DEF Finish, TypeOK, ServeInv, ErrInv, DrainInv, CleanExit, In,
     InShutdown, Running, processVars, clientVars, platformVars
<1>18. ASSUME NEW c \in Conn, Connect(c)
      PROVE  CleanExit'
  BY <1>18 DEF Connect, TypeOK, ServeInv, ErrInv, DrainInv, CleanExit, In,
     InShutdown, Running, processVars, clientVars, platformVars
<1>19. CASE UNCHANGED vars
  BY <1>19 DEF vars, TypeOK, ServeInv, ErrInv, DrainInv, CleanExit, In,
     InShutdown, Running, processVars, clientVars, platformVars
<1>20. QED
  BY <1>1, <1>2, <1>3, <1>4, <1>5, <1>6, <1>7, <1>8, <1>9, <1>10, <1>11,
     <1>12, <1>13, <1>14, <1>15, <1>16, <1>17, <1>18, <1>19 DEF Next,
     MainStep

(* Every step answers what was begun.                                       *)
LEMMA AnsweredStep ==
  TypeOK /\ StartInv /\ ErrInv /\ DrainInv /\ BegunIsAnswered /\ [Next]_vars => BegunIsAnswered'
<1> SUFFICES ASSUME TypeOK, StartInv, ErrInv, DrainInv, BegunIsAnswered, [Next]_vars
             PROVE  BegunIsAnswered'
  OBVIOUS
<1> USE LifecycleAssumption
<1>1. CASE StartFails
  BY <1>1 DEF StartFails, Exit, TypeOK, StartInv, ErrInv, DrainInv, Timely,
     BegunIsAnswered, In, InShutdown, Running, processVars, clientVars,
     platformVars
<1>2. CASE Listen
  BY <1>2 DEF Listen, TypeOK, StartInv, ErrInv, DrainInv, Timely,
     BegunIsAnswered, In, InShutdown, Running, processVars, clientVars,
     platformVars
<1>3. CASE MarkReady
  BY <1>3 DEF MarkReady, TypeOK, StartInv, ErrInv, DrainInv, Timely,
     BegunIsAnswered, In, InShutdown, Running, processVars, clientVars,
     platformVars
<1>4. CASE SelectServeErr
  BY <1>4 DEF SelectServeErr, Exit, TypeOK, StartInv, ErrInv, DrainInv,
     Timely, BegunIsAnswered, In, InShutdown, Running, processVars,
     clientVars, platformVars
<1>5. CASE SelectDone
  BY <1>5 DEF SelectDone, TypeOK, StartInv, ErrInv, DrainInv, Timely,
     BegunIsAnswered, In, InShutdown, Running, processVars, clientVars,
     platformVars
<1>6. CASE Shutdown
  BY <1>6 DEF Shutdown, Become, TypeOK, StartInv, ErrInv, DrainInv, Timely,
     BegunIsAnswered, In, InShutdown, Running, processVars, clientVars,
     platformVars
<1>7. CASE ShutdownPolls
  BY <1>7 DEF ShutdownPolls, Become, In, TypeOK, StartInv, ErrInv, DrainInv,
     Timely, BegunIsAnswered, InShutdown, Running, processVars, clientVars,
     platformVars
<1>8. CASE ShutdownExpires
  BY <1>8 DEF ShutdownExpires, TypeOK, StartInv, ErrInv, DrainInv, Timely,
     BegunIsAnswered, In, InShutdown, Running, processVars, clientVars,
     platformVars
<1>9. CASE AwaitServe
  BY <1>9 DEF AwaitServe, Exit, TypeOK, StartInv, ErrInv, DrainInv, Timely,
     BegunIsAnswered, In, InShutdown, Running, processVars, clientVars,
     platformVars
<1>10. CASE ServeStarts
  BY <1>10 DEF ServeStarts, ServeReturns, Become, TypeOK, StartInv, ErrInv,
     DrainInv, Timely, BegunIsAnswered, In, InShutdown, Running, processVars,
     clientVars, platformVars
<1>11. CASE ServeStops
  BY <1>11 DEF ServeStops, ServeReturns, Become, TypeOK, StartInv, ErrInv,
     DrainInv, Timely, BegunIsAnswered, In, InShutdown, Running, processVars,
     clientVars, platformVars
<1>12. CASE ServeFails
  BY <1>12 DEF ServeFails, ServeReturns, Become, TypeOK, StartInv, ErrInv,
     DrainInv, Timely, BegunIsAnswered, In, InShutdown, Running, processVars,
     clientVars, platformVars
<1>13. CASE Signal
  BY <1>13 DEF Signal, TypeOK, StartInv, ErrInv, DrainInv, Timely,
     BegunIsAnswered, In, InShutdown, Running, processVars, clientVars,
     platformVars
<1>14. CASE Probe
  BY <1>14 DEF Probe, Readyz, TypeOK, StartInv, ErrInv, DrainInv, Timely,
     BegunIsAnswered, In, InShutdown, Running, processVars, clientVars,
     platformVars
<1>15. CASE Tick
  BY <1>15 DEF Tick, AllWait, Less, In, TypeOK, StartInv, ErrInv, DrainInv,
     Timely, BegunIsAnswered, InShutdown, Running, processVars, clientVars,
     platformVars
<1>16. ASSUME NEW c \in Conn, Begin(c)
      PROVE  BegunIsAnswered'
  BY <1>16 DEF Begin, TypeOK, StartInv, ErrInv, DrainInv, Timely,
     BegunIsAnswered, In, InShutdown, Running, processVars, clientVars,
     platformVars
<1>17. ASSUME NEW c \in Conn, Finish(c)
      PROVE  BegunIsAnswered'
  BY <1>17 DEF Finish, TypeOK, StartInv, ErrInv, DrainInv, Timely,
     BegunIsAnswered, In, InShutdown, Running, processVars, clientVars,
     platformVars
<1>18. ASSUME NEW c \in Conn, Connect(c)
      PROVE  BegunIsAnswered'
  BY <1>18 DEF Connect, TypeOK, StartInv, ErrInv, DrainInv, Timely,
     BegunIsAnswered, In, InShutdown, Running, processVars, clientVars,
     platformVars
<1>19. CASE UNCHANGED vars
  BY <1>19 DEF vars, TypeOK, StartInv, ErrInv, DrainInv, Timely,
     BegunIsAnswered, In, InShutdown, Running, processVars, clientVars,
     platformVars
<1>20. QED
  BY <1>1, <1>2, <1>3, <1>4, <1>5, <1>6, <1>7, <1>8, <1>9, <1>10, <1>11,
     <1>12, <1>13, <1>14, <1>15, <1>16, <1>17, <1>18, <1>19 DEF Next,
     MainStep

-----------------------------------------------------------------------------
(* The invariant holds in every reachable state.                            *)
THEOREM InvCorrect == Spec => []Inv
<1>1. Inv /\ [Next]_vars => Inv'
  BY TypeStep, StartStep, ServeStep, ErrStep, DrainStep, RouteStep, CleanStep, AnsweredStep
     DEF Inv
<1>2. QED
  BY InitInv, <1>1, PTL DEF Spec

(* The values of run(), of its connections and of the platform.             *)
THEOREM LifecycleTypeCorrect == Spec => []TypeOK
<1>1. Inv => TypeOK
  BY DEF Inv
<1>2. QED
  BY InvCorrect, <1>1, PTL

(* A pre-stop delay longer than the probe period keeps every routed         *)
(* connection from a closed door.                                           *)
THEOREM RoutedCorrect == Spec => []RoutedIsAccepted
<1>1. Inv => RoutedIsAccepted
  BY DEF Inv, RouteInv, Ordinary, RoutedIsAccepted, In
<1>2. QED
  BY InvCorrect, <1>1, PTL

(* A drain cuts no request that ends sooner than it.                        *)
THEOREM AnsweredCorrect == Spec => []BegunIsAnswered
<1>1. Inv => BegunIsAnswered
  BY DEF Inv
<1>2. QED
  BY InvCorrect, <1>1, PTL

(* The exit status says what happened.                                      *)
THEOREM CleanCorrect == Spec => []CleanExit
<1>1. Inv => CleanExit
  BY DEF Inv
<1>2. QED
  BY InvCorrect, <1>1, PTL
=============================================================================
