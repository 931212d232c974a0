--------------------------------- MODULE Display -------------------------------
(****************************************************************************)
(* components/calculator/Display.tsx and lib/format-number.ts: what the     *)
(* user reads.  The engine's text is formatted on every render and never    *)
(* read back.                                                               *)
(****************************************************************************)
EXTENDS CalculatorStore, JsNumber

CONSTANT DEFAULT_MAX_SIGNIFICANT   \* digits of a finished value that are shown

(* The numbers are ECMAScript's.  The digits a user may type are no        *)
(* infinity, and rounding a number to the digits shown makes none (the      *)
(* largest float64 goes down to 12 digits).                                 *)
ASSUME DisplayAssumption ==
  /\ DEFAULT_MAX_SIGNIFICANT \in Nat \ {0}
  /\ MAX_ENTRY_DIGITS <= MaxPoint
  /\ Zero = JsZero /\ NegZero = JsNegZero /\ One = JsOne /\ NonFinite = JsNonFinite
  /\ \A t \in Text : NumberOf(t) = JsNumberOf(t)
  /\ \A x \in Number :
       /\ IsJsNumber(x) /\ StringOf(x) = JsStringOf(x) /\ Neg(x) = JsNeg(x)
       /\ x \notin NonFinite => JsRoundTo(DEFAULT_MAX_SIGNIFICANT, x) \notin NonFinite

(* Exponents from 1e15 up and below 1e-6, by the place of the first digit.  *)
EXPONENT_UPPER_BOUND == 16
EXPONENT_LOWER_BOUND == -5

(* A comma for every fourth place from the right, a digit for the others.   *)
Grouped(int) ==
  LET length == Len(int) + (Len(int) - 1) \div 3
  IN  [p \in 1..length |->
         LET q == length + 1 - p
         IN  IF q % 4 = 0 THEN "," ELSE int[Len(int) + 1 - (q - q \div 4)]]

(* GROUPING_FORMAT: plain digits without an exponent.  What comes here is   *)
(* an integer or too small for the three decimals the format allows.        *)
groupIntegerPart(integerPart) ==
  LET numeric == JsNumberOf(integerPart)
  IN  IF integerPart = <<>> \/ numeric \in JsNonFinite THEN integerPart
      ELSE IF numeric.point < 1 THEN <<"0">>
      ELSE Grouped(numeric.digits \o JsZeros(numeric.point - Len(numeric.digits)))

(* A mistake: the point is cut off with the integer part.                   *)
EntryWithoutPoint(raw) ==
  LET negative == raw # <<>> /\ raw[1] = "-"
      unsigned == IF negative THEN Tail(raw) ELSE raw
  IN  (IF negative THEN <<"-">> ELSE <<>>)
      \o groupIntegerPart(JsBefore(unsigned, ".")) \o JsAfter(unsigned, ".")

formatEntry(raw) ==
  LET negative == raw # <<>> /\ raw[1] = "-"
      unsigned == IF negative THEN Tail(raw) ELSE raw
  IN  (IF negative THEN <<"-">> ELSE <<>>)
      \o groupIntegerPart(JsBefore(unsigned, "."))
      \o SubSeq(unsigned, JsPlace(unsigned, "."), Len(unsigned))

(* It throws a RangeError on what is not finite; here, whatever it returns.  *)
formatResult(n) ==
  LET rounded == JsRoundTo(DEFAULT_MAX_SIGNIFICANT, n)
  IN  IF n.digits # <<>> /\ (n.point >= EXPONENT_UPPER_BOUND \/ n.point < EXPONENT_LOWER_BOUND)
      THEN JsExponential(rounded) ELSE JsStringOf(rounded)

(* replace(/,/g, "").                                                       *)
WithoutCommas(raw) ==
  LET kept[i \in 0..Len(raw)] ==
        IF i = 0 THEN <<>>
        ELSE IF raw[i] = "," THEN kept[i - 1] ELSE Append(kept[i - 1], raw[i])
  IN  kept[Len(raw)]

parseEntry(raw) ==
  LET value == JsNumberOf(WithoutCommas(raw))
  IN  IF value = JsNegZero THEN JsZero ELSE value

formatMainValue(value, entering) ==
  IF entering THEN formatEntry(value) ELSE formatResult(parseEntry(value))

(* Only the leading operand of the line is formatted again.                 *)
formatExpression(expression) ==
  IF expression = <<>> \/ parseEntry(expression[1]) \in JsNonFinite THEN expression
  ELSE <<formatResult(parseEntry(expression[1]))>> \o Tail(expression)

displayValue == formatMainValue(calc.display, calc.phase \in Entering)
displayExpression == formatExpression(expressionOf(calc))

-----------------------------------------------------------------------------
(* What is read off the display is the number the next key works with: all  *)
(* of it while it is being typed, to the digits a finished value is shown   *)
(* with otherwise, when formatResult would throw on one that is not finite; *)
(* and the number on the line above is written the same way when it is the  *)
(* same number.                                                             *)
DisplayTellsTheNumber ==
  LET meant == ParseEntry(calc.display)
  IN  /\ IF calc.phase \in Entering THEN parseEntry(displayValue) = meant
         ELSE /\ meant \notin JsNonFinite
              /\ parseEntry(displayValue) = JsRoundTo(DEFAULT_MAX_SIGNIFICANT, meant)
      /\ ~pending /\ calc.phase = "operatorSelected" => displayExpression[1] = displayValue
=============================================================================
