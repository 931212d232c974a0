----------------------------- MODULE MCCalculator -----------------------------
(****************************************************************************)
(* The small instances of Calculator, over the values of MCCalculatorStore. *)
(****************************************************************************)
EXTENDS Calculator, MCCalculatorStore

(* A first visit, one that finds a broken text, one with an entry.          *)
MCStored ==
  {Null, Unreadable,
   <<[id |-> 1, request |-> SqrtRequest(JsOne), result |-> CHOOSE x \in Response : TRUE]>>}
=============================================================================
