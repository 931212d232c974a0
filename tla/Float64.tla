-------------------------------- MODULE Float64 --------------------------------
(****************************************************************************)
(* IEEE 754 arithmetic as math.Pow, math.Sqrt and Go's operators do it, in  *)
(* a format with one bit of significand: the finite numbers are the zeros   *)
(* and the powers of two with an exponent of at most MaxExp either way.     *)
(* Signed zeros, infinities, NaN, overflow, underflow and rounding to the   *)
(* nearest (a tie to the larger) are those of any IEEE format.              *)
(****************************************************************************)
EXTENDS Integers

CONSTANT MaxExp

ASSUME Float64Assumption == MaxExp \in {1, 2}

NaN == [sign |-> 0, exp |-> 0]

(* Beyond MaxExp lie the infinities, below -MaxExp the zeros.               *)
Fits(e) == IF e > MaxExp THEN MaxExp + 1 ELSE IF e < -MaxExp THEN -MaxExp - 1 ELSE e
Num(sign, e) == [sign |-> sign, exp |-> Fits(e)]

Infinity(sign) == Num(sign, MaxExp + 1)
Zero(sign) == Num(sign, -MaxExp - 1)
One == Num(1, 0)
Hundred == Num(1, 1)     \* any power of two beyond One

Float == [sign : {-1, 1}, exp : (-MaxExp - 1)..(MaxExp + 1)] \cup {NaN}

IsInf(x) == x.exp = MaxExp + 1
IsZero(x) == x.exp = -MaxExp - 1
IsNegative(x) == x.sign = -1 /\ ~IsZero(x)

(* The operations are defined on finite operands, Over on a dividend that   *)
(* has overflowed too.                                                      *)
Times(x, y) ==
  IF IsZero(x) \/ IsZero(y) THEN Zero(x.sign * y.sign) ELSE Num(x.sign * y.sign, x.exp + y.exp)

Over(x, y) ==
  IF IsZero(x) \/ IsInf(x) THEN [x EXCEPT !.sign = x.sign * y.sign]
  ELSE Num(x.sign * y.sign, x.exp - y.exp)

Plus(x, y) ==
  LET hi == IF x.exp >= y.exp THEN x ELSE y
      lo == IF x.exp >= y.exp THEN y ELSE x
  IN  IF IsZero(lo) THEN IF IsZero(hi) /\ x.sign # y.sign THEN Zero(1) ELSE hi
      ELSE IF x.sign = y.sign THEN IF hi.exp - lo.exp <= 1 THEN Num(hi.sign, hi.exp + 1) ELSE hi
      ELSE IF hi.exp = lo.exp THEN Zero(1)
      ELSE IF hi.exp - lo.exp = 1 THEN Num(hi.sign, lo.exp) ELSE hi

Minus(x, y) == Plus(x, [y EXCEPT !.sign = -y.sign])

(* The exponent of the 2^k-th root of 2^e, to the nearest power of two.     *)
Root(e, k) == (e + 2^k \div 4) \div 2^k

SquareRoot(x) == IF IsZero(x) THEN x ELSE Num(1, Root(x.exp, 1))

(* y is odd only when it is 1 or -1, and an integer only from there up.     *)
Pow(x, y) ==
  LET sign == IF y.exp = 0 THEN x.sign ELSE 1
  IN  IF IsZero(y) THEN One
      ELSE IF IsZero(x) THEN IF y.sign = -1 THEN Infinity(sign) ELSE Zero(sign)
      ELSE IF x.sign = -1 /\ y.exp < 0 THEN NaN
      ELSE Num(sign, IF y.exp < 0 THEN Root(y.sign * x.exp, -y.exp)
                                  ELSE y.sign * x.exp * 2^y.exp)

(* JSON.stringify: null for what JSON has no number for, and no sign on a   *)
(* zero.                                                                    *)
JsonNumber(x, null) ==
  IF x = NaN \/ IsInf(x) THEN null ELSE IF IsZero(x) THEN Zero(1) ELSE x
=============================================================================
