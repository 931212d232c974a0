------------------------------- MODULE JsNumber -------------------------------
(****************************************************************************)
(* The part of ECMAScript the calculator leans on: Number(text),            *)
(* String(number), toPrecision() and toExponential().  A finite number is   *)
(* 0.d1 d2 ... dk * 10^point with no zero at either end of its digits; the  *)
(* rounding to 53 bits is left out, numbers are exact decimals.             *)
(****************************************************************************)
EXTENDS Integers, Sequences

Sets == INSTANCE FiniteSetsExt

CONSTANTS
  MaxPoint,   \* numbers with a larger point are infinite (309 for a float64)
  TinyPoint   \* numbers with a point below -TinyPoint are zero (323 for a float64)

(* Room for the plain texts of String(), exponents of three digits.         *)
ASSUME JsRangeAssumption == MaxPoint \in 21..1000 /\ TinyPoint \in 6..998

JsDigits == <<"0", "1", "2", "3", "4", "5", "6", "7", "8", "9">>
JsDigitValue(c) == (CHOOSE i \in 1..10 : JsDigits[i] = c) - 1
JsDigitChar == {JsDigits[i] : i \in 1..10}
JsAllDigits(t) == \A i \in DOMAIN t : t[i] \in JsDigitChar
JsZeros(n) == [i \in 1..n |-> "0"]

(* The integer a text of digits denotes, and the digits of an exponent.     *)
JsInt(t) ==
  LET value[i \in 0..Len(t)] ==
        IF i = 0 THEN 0 ELSE 10 * value[i - 1] + JsDigitValue(t[i])
  IN  value[Len(t)]
JsDecimal(n) ==
  LET d(k) == JsDigits[(k % 10) + 1]
  IN  IF n < 10 THEN <<d(n)>>
      ELSE IF n < 100 THEN <<d(n \div 10), d(n)>>
      ELSE <<d(n \div 100), d(n \div 10), d(n)>>

JsFinite(neg, digits, point) ==
  [kind |-> "finite", neg |-> neg, digits |-> digits, point |-> point]
JsZero == JsFinite(FALSE, <<>>, 0)
JsNegZero == JsFinite(TRUE, <<>>, 0)
JsOne == JsFinite(FALSE, <<"1">>, 1)
JsNaN == [kind |-> "nan", neg |-> FALSE, digits |-> <<>>, point |-> 0]
JsInfinity(neg) == [kind |-> "infinite", neg |-> neg, digits |-> <<>>, point |-> 0]

(* The number 0.digits * 10^point, with zeros trimmed and range applied.    *)
JsRound(neg, digits, point) ==
  LET nonzero == {i \in DOMAIN digits : digits[i] # "0"}
      first == Sets!Min(nonzero)
  IN  IF nonzero = {} \/ point - first + 1 < -TinyPoint THEN JsFinite(neg, <<>>, 0)
      ELSE IF point - first + 1 > MaxPoint THEN JsInfinity(neg)
      ELSE JsFinite(neg, SubSeq(digits, first, Sets!Max(nonzero)), point - first + 1)

(* x with at most n of its digits, rounded to the nearest, a tie upwards.   *)
JsRoundTo(n, x) ==
  LET kept == SubSeq(x.digits, 1, n)
      below9 == {i \in 1..n : kept[i] # "9"}
      up == Sets!Max(below9)
  IN  IF Len(x.digits) <= n THEN x
      ELSE IF JsDigitValue(x.digits[n + 1]) < 5 THEN JsRound(x.neg, kept, x.point)
      ELSE IF below9 = {} THEN JsRound(x.neg, <<"1">>, x.point + 1)
      ELSE JsRound(x.neg, Append(SubSeq(kept, 1, up - 1), JsDigits[JsDigitValue(kept[up]) + 2]),
                   x.point)

(* The place of the first c, behind the end of a text that has none; what   *)
(* comes before it and after it; a sign, and the text without it.           *)
JsPlace(t, c) ==
  CHOOSE i \in 1..(Len(t) + 1) :
    (i <= Len(t) => t[i] = c) /\ \A j \in 1..(i - 1) : t[j] # c
JsBefore(t, c) == SubSeq(t, 1, JsPlace(t, c) - 1)
JsAfter(t, c) == SubSeq(t, JsPlace(t, c) + 1, Len(t))
JsSigned(t) == t # <<>> /\ t[1] \in {"-", "+"}
JsUnsigned(t) == IF JsSigned(t) THEN Tail(t) ELSE t

(* What a text denotes: an optional sign, digits with at most one point,    *)
(* and an optional exponent; anything else is NaN.                          *)
JsNumberOf(text) ==
  LET neg == JsSigned(text) /\ text[1] = "-"
      body == JsUnsigned(text)
      int == JsBefore(JsBefore(body, "e"), ".")
      frac == JsAfter(JsBefore(body, "e"), ".")
      exponent == JsAfter(body, "e")
      magnitude == JsInt(JsUnsigned(exponent))
      power == IF JsSigned(exponent) /\ exponent[1] = "-" THEN -magnitude ELSE magnitude
  IN  IF body = <<"Infinity">> THEN JsInfinity(neg)
      ELSE IF \/ ~JsAllDigits(int) \/ ~JsAllDigits(frac) \/ int \o frac = <<>>
              \/ ~JsAllDigits(JsUnsigned(exponent))
              \/ JsPlace(body, "e") <= Len(body) /\ JsUnsigned(exponent) = <<>> THEN JsNaN
      ELSE JsRound(neg, int \o frac, Len(int) + power)

(* toExponential(), without the zeros it may end in.                        *)
JsExponential(x) ==
  LET power == x.point - 1
      first == <<x.digits[1]>>
      mantissa == IF Len(x.digits) = 1 THEN first ELSE first \o <<".">> \o Tail(x.digits)
      exponent == IF power < 0 THEN <<"-">> \o JsDecimal(-power) ELSE <<"+">> \o JsDecimal(power)
  IN  (IF x.neg THEN <<"-">> ELSE <<>>) \o (mantissa \o <<"e">> \o exponent)

(* String(number): plain digits up to 21 places, a leading "0." down to     *)
(* 1e-6, and an exponent beyond; a negative zero prints as "0".             *)
JsStringOf(x) ==
  LET k == Len(x.digits)
      n == x.point
      sign == IF x.neg THEN <<"-">> ELSE <<>>
      magnitude ==
        IF k <= n THEN x.digits \o JsZeros(n - k)
        ELSE IF 0 < n THEN SubSeq(x.digits, 1, n) \o <<".">> \o SubSeq(x.digits, n + 1, k)
        ELSE <<"0">> \o <<".">> \o (JsZeros(-n) \o x.digits)
  IN  IF x.kind = "nan" THEN <<"NaN">>
      ELSE IF x.kind = "infinite" THEN sign \o <<"Infinity">>
      ELSE IF k = 0 THEN <<"0">>
      ELSE IF n > 21 \/ n <= -6 THEN JsExponential(x)
      ELSE sign \o magnitude

JsNeg(x) == IF x.kind = "nan" THEN x ELSE [x EXCEPT !.neg = ~x.neg]

JsNonFinite == {JsNaN, JsInfinity(TRUE), JsInfinity(FALSE)}

IsJsNumber(x) ==
  \/ x \in JsNonFinite
  \/ /\ x = JsFinite(x.neg, x.digits, x.point)
     /\ x.neg \in BOOLEAN /\ x.digits \in Seq(JsDigitChar) /\ x.point \in Int
     /\ IF x.digits = <<>> THEN x.point = 0
        ELSE "0" \notin {x.digits[1], x.digits[Len(x.digits)]} /\ x.point \in -TinyPoint..MaxPoint
=============================================================================
