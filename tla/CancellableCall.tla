---------------------------- MODULE CancellableCall ----------------------------
(****************************************************************************)
(* What the calculator promises its user about the server, with no tickets, *)
(* no promises and no late answers: there is at most one call; while it is  *)
(* out the screen stands still; it ends with its own outcome on the screen  *)
(* or by being cancelled, and a cancelled call is never heard of again.     *)
(****************************************************************************)
CONSTANTS
  Null,          \* no call
  Screen,        \* what can be on the screen
  Blank,         \* the screen after a cancel
  Request,       \* what can be asked
  Outcome,       \* how a call can end
  Show(_, _)     \* the screen after an outcome

VARIABLES screen, call

absVars == <<screen, call>>

Init == screen = Blank /\ call = Null

Press ==
  /\ call = Null
  /\ screen' \in Screen
  /\ UNCHANGED call

Ask ==
  /\ call = Null
  /\ screen' \in Screen
  /\ call' \in [request : Request, outcome : {Null}]

Answer ==
  /\ call # Null
  /\ call.outcome = Null
  /\ call' \in [request : {call.request}, outcome : Outcome]
  /\ UNCHANGED screen

Return ==
  /\ call # Null
  /\ call.outcome # Null
  /\ screen' = Show(screen, call.outcome)
  /\ call' = Null

Cancel == screen' = Blank /\ call' = Null

Next == Press \/ Ask \/ Answer \/ Return \/ Cancel

Spec == Init /\ [][Next]_absVars
=============================================================================
