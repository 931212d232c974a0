------------------------------ MODULE Evaluation ------------------------------
(****************************************************************************)
(* What a call to the backend promises the page, with no network, no server *)
(* and no clock: a call that is asked ends once, with what it means or with *)
(* a failure to find out; a request the page can send means either a result *)
(* or one of the refusals that are the user's to mend.                      *)
(****************************************************************************)
CONSTANTS
  Null,
  Call,         \* what can be asked
  Meaning(_),   \* the outcomes a call may have when it is answered
  Failure       \* the ways not to get an answer

VARIABLES asked, outcome

absVars == <<asked, outcome>>

Init == asked = Null /\ outcome = Null

Ask ==
  /\ asked = Null
  /\ asked' \in Call
  /\ UNCHANGED outcome

Answer ==
  /\ asked # Null /\ outcome = Null
  /\ outcome' \in Meaning(asked)
  /\ UNCHANGED asked

Fail ==
  /\ asked # Null /\ outcome = Null
  /\ outcome' \in Failure
  /\ UNCHANGED asked

Next == Ask \/ Answer \/ Fail

Spec == Init /\ [][Next]_absVars
=============================================================================
