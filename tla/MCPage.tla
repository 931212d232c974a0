--------------------------------- MODULE MCPage --------------------------------
(****************************************************************************)
(* Page over the values of MCDisplay.                                       *)
(****************************************************************************)
EXTENDS Page, MCDisplay

(* The bounds of this instance.  The tickets after the first are for a      *)
(* retry from the error it is offered with, and for its answer; a request   *)
(* sent while an answer is awaited would not be cut off, were there one.    *)
RetryOnly ==
  ticket' > 1 =>
    pending' /\ (ticket' = ticket \/ pending \/ (canRetry /\ calc.phase = "error"))

(* The left operand of a sum is zero or a result.                           *)
ShortSums ==
  calc'.operator # Null => calc'.a \in Response \cup {JsZero, Null}

(* A recalled result of sixteen digits may grow, be replaced or be used; it *)
(* is not taken back digit by digit.                                        *)
LongStaysLong ==
  calc.phase \in Entering /\ calc'.phase = calc.phase /\ Len(calc.display) > 8 =>
    Len(calc'.display) \notin 2..(Len(calc.display) - 1)
=============================================================================
