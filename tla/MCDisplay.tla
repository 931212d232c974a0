------------------------------- MODULE MCDisplay -------------------------------
(****************************************************************************)
(* Display over the values of MCCalculatorStore.                            *)
(****************************************************************************)
EXTENDS Display, MCCalculatorStore

(* A result with a sign, a fraction, more digits than are shown or may be   *)
(* typed and enough of them for a comma, and one that String() writes       *)
(* without an exponent and formatResult with.                               *)
DisplayText == {<<"-", "7", "0", "0", "7", ".", "7">>, <<"7">> \o JsZeros(15)}
=============================================================================
