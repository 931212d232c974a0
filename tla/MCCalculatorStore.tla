--------------------------- MODULE MCCalculatorStore ---------------------------
(****************************************************************************)
(* The small instances of CalculatorStore: ECMAScript's numbers for the     *)
(* parameter Number, and the properties of the store.                       *)
(****************************************************************************)
EXTENDS CalculatorStore, JsNumber

CONSTANTS ResponseText   \* the numbers the server answers with, as String() writes them

(* Two plain results, or one; one that String() writes with an exponent.    *)
PlainText == {<<"7">>, <<"0">>}
ZeroText == {<<"0">>}
ExponentText == {<<"7", "e", "-", "7">>}

MCFailure == {[code |-> "RATE_LIMITED", withId |-> TRUE], [code |-> "INTERNAL", withId |-> FALSE]}

OneFailure == {[code |-> "NETWORK", withId |-> FALSE]}

MCResponse == {JsNumberOf(t) : t \in ResponseText}

(* The least set of texts with the seeds, closed under the edits, String()  *)
(* of what they denote and unary minus; `fresh` are those not followed yet. *)
RECURSIVE TextClosure(_, _)
TextClosure(texts, fresh) ==
  LET numbers == {JsNumberOf(t) : t \in fresh}
      next == {AppendDigit(t, d) : t \in fresh, d \in Digit}
              \cup UNION {{AppendDecimal(t), DropLastChar(t), ToggleEntrySign(t)} : t \in fresh}
              \cup UNION {{JsStringOf(x), JsStringOf(JsNeg(x))} : x \in numbers}
  IN  IF fresh = {} THEN texts ELSE TextClosure(texts \cup next, next \ texts)

MCText ==
  LET seeds == {<<"0">>, <<"0", ".">>, <<"1">>, <<"NaN">>, <<"Infinity">>}
               \cup {<<d>> : d \in Digit} \cup ResponseText
  IN  TextClosure(seeds, seeds)

MCNumber ==
  LET numbers == {JsNumberOf(t) : t \in MCText} \cup {JsZero, JsNegZero, JsOne}
  IN  numbers \cup {JsNeg(x) : x \in numbers}

(* Number() and String() over those, computed once.                         *)
NumberTable == [t \in MCText |-> JsNumberOf(t)]
StringTable == [x \in MCNumber |-> JsStringOf(x)]
MCNumberOf(text) == NumberTable[text]
MCStringOf(number) == StringTable[number]
=============================================================================
