----------------------------- MODULE RoundTripProofs ----------------------------
(****************************************************************************)
(* What holds of every call of the page, whatever it asks and whatever the  *)
(* other clients send: a calculation is sent once, a failure is put down to *)
(* its cause, a page of a foreign origin gets nothing, every answer is the  *)
(* documented one, and the whole round trip implements Evaluation.  The     *)
(* first part is about single requests: for every operation on every pair   *)
(* of finite numbers of Float64 the result or the error of internal/calc is *)
(* the one docs/errors.md describes, and every refusal of internal/httpapi  *)
(* is the row of its table that applies to the request.                     *)
(****************************************************************************)
EXTENDS RoundTrip, TLAPS, FiniteSetTheorems

(* The numbers a body can hold.                                             *)
Decoded == {x \in Float : isFinite(x)}

(* A number that is not NaN has a sign.                                     *)
Signed(x) == x.sign \in {-1, 1}

(* What docs/errors.md makes of a result.                                   *)
Told(op, a, b, x) ==
  IF IsInf(x) THEN Refusal("RESULT_NOT_FINITE")
  ELSE [code |-> Null,
        value |-> [operation |-> op, a |-> a, b |-> b, result |-> JsonNumber(x, Null)]]

LEMMA DecodedFacts ==
  ASSUME NEW x \in Decoded
  PROVE  /\ Signed(x) /\ x # Null /\ x # NaN /\ ~IsInf(x) /\ isFinite(x)
         /\ x.exp \in Int /\ -MaxExp - 1 <= x.exp /\ x.exp <= MaxExp
         /\ MaxExp \in Int /\ MaxExp \in {1, 2}
<1>1. MaxExp \in {1, 2}
  BY Float64Assumption
<1>2. x \in Float /\ x # NaN /\ ~IsInf(x) /\ isFinite(x)
  BY DEF Decoded, isFinite
<1>3. x \in [sign : {-1, 1}, exp : (-MaxExp - 1)..(MaxExp + 1)]
  BY <1>2 DEF Float
<1>4. x # Null
  BY <1>2, CallAssumption
<1>5. x.exp \in Int /\ -MaxExp - 1 <= x.exp /\ x.exp <= MaxExp + 1 /\ x.exp # MaxExp + 1
  BY <1>1, <1>2, <1>3 DEF IsInf
<1> QED
  BY <1>1, <1>2, <1>3, <1>4, <1>5 DEF Signed

LEMMA SignedFacts ==
  ASSUME NEW x, Signed(x)
  PROVE  x # NaN /\ (isFinite(x) <=> ~IsInf(x))
BY DEF Signed, NaN, isFinite

LEMMA NumSigned ==
  ASSUME NEW sign \in {-1, 1}, NEW e
  PROVE  Signed(Num(sign, e)) /\ Num(sign, e).exp = Fits(e)
BY DEF Signed, Num

LEMMA SignProduct ==
  ASSUME NEW x, NEW y, Signed(x), Signed(y)
  PROVE  x.sign * y.sign \in {-1, 1} /\ x.sign * y.sign * 1 = x.sign * y.sign
<1>1. x.sign \in {-1, 1} /\ y.sign \in {-1, 1}
  BY DEF Signed
<1> QED
  BY <1>1

LEMMA HundredFacts == Hundred.sign = 1 /\ Hundred.exp = 1 /\ Signed(Hundred)
BY Float64Assumption DEF Hundred, Num, Fits, Signed

LEMMA ZeroFacts ==
  /\ IsZero(Zero(1)) /\ ~IsInf(Zero(1)) /\ Signed(Zero(1))
  /\ JsonNumber(Zero(1), Null) = Zero(1)
BY Float64Assumption DEF Zero, IsZero, IsInf, Num, Fits, Signed, JsonNumber, NaN

-----------------------------------------------------------------------------
(* Each operation returns a number with a sign or one of the errors that    *)
(* docs/errors.md tells for the same operands.                              *)
LEMMA PlusSigned ==
  ASSUME NEW x, NEW y, Signed(x), Signed(y)
  PROVE  Signed(Plus(x, y))
<1> DEFINE hi == IF x.exp >= y.exp THEN x ELSE y
           lo == IF x.exp >= y.exp THEN y ELSE x
<1>1. Signed(hi) /\ hi.sign \in {-1, 1}
  BY DEF Signed
<1> HIDE DEF hi, lo
<1>2. \A e : Signed(Num(hi.sign, e))
  BY <1>1, NumSigned
<1>3. Plus(x, y) \in {Zero(1), hi, Num(hi.sign, hi.exp + 1), Num(hi.sign, lo.exp)}
  BY DEF Plus, hi, lo
<1> QED
  BY <1>1, <1>2, <1>3, ZeroFacts

LEMMA MinusSigned ==
  ASSUME NEW x \in Decoded, NEW y \in Decoded
  PROVE  Signed(Minus(x, y))
<1>1. y \in [sign : {-1, 1}, exp : (-MaxExp - 1)..(MaxExp + 1)]
  BY DEF Decoded, isFinite, Float
<1>2. Signed([y EXCEPT !.sign = -y.sign])
  BY <1>1 DEF Signed
<1> QED
  BY <1>2, DecodedFacts, PlusSigned DEF Minus

LEMMA TimesSigned ==
  ASSUME NEW x, NEW y, Signed(x), Signed(y)
  PROVE  Signed(Times(x, y))
<1>1. x.sign * y.sign \in {-1, 1}
  BY SignProduct
<1>2. \A e : Signed(Num(x.sign * y.sign, e))
  BY <1>1, NumSigned
<1> QED
  BY <1>2 DEF Times, Zero

LEMMA OverSigned ==
  ASSUME NEW x \in Decoded, NEW y, Signed(y)
  PROVE  Signed(Over(x, y))
<1>1. x \in [sign : {-1, 1}, exp : (-MaxExp - 1)..(MaxExp + 1)]
  BY DEF Decoded, isFinite, Float
<1>2. x.sign * y.sign \in {-1, 1}
  BY DecodedFacts, SignProduct
<1>3. Signed([x EXCEPT !.sign = x.sign * y.sign])
  BY <1>1, <1>2 DEF Signed
<1>4. \A e : Signed(Num(x.sign * y.sign, e))
  BY <1>2, NumSigned
<1> QED
  BY <1>3, <1>4 DEF Over

LEMMA SquareRootSigned ==
  ASSUME NEW x, Signed(x)
  PROVE  Signed(SquareRoot(x))
<1>1. \A e : Signed(Num(1, e))
  BY NumSigned
<1> QED
  BY <1>1 DEF SquareRoot

(* Pow is NaN for a root of a negative number and for nothing else.         *)
LEMMA PowFacts ==
  ASSUME NEW x \in Decoded, NEW y \in Decoded
  PROVE  /\ (Pow(x, y) = NaN) <=> (IsNegative(x) /\ y.exp < 0 /\ ~IsZero(y))
         /\ Pow(x, y) # NaN => Signed(Pow(x, y))
<1> DEFINE sign == IF y.exp = 0 THEN x.sign ELSE 1
           e == IF y.exp < 0 THEN Root(y.sign * x.exp, -y.exp) ELSE y.sign * x.exp * 2^y.exp
<1>1. sign \in {-1, 1}
  BY DecodedFacts DEF Signed
<1>2. Pow(x, y) = IF IsZero(y) THEN One
                  ELSE IF IsZero(x) THEN IF y.sign = -1 THEN Infinity(sign) ELSE Zero(sign)
                  ELSE IF x.sign = -1 /\ y.exp < 0 THEN NaN
                  ELSE Num(sign, e)
  BY DEF Pow
<1> HIDE DEF e, sign
<1>3. \A d : Signed(Num(sign, d))
  BY <1>1, NumSigned
<1>4. Signed(Infinity(sign)) /\ Signed(Zero(sign)) /\ Signed(Num(sign, e))
  BY <1>3 DEF Infinity, Zero
<1>5. Signed(One)
  BY NumSigned DEF One
<1> HIDE DEF Signed
<1>6. \A z : Signed(z) => z # NaN
  BY SignedFacts
<1>7. CASE IsZero(y)
  BY <1>2, <1>5, <1>6, <1>7
<1>8. CASE ~IsZero(y) /\ IsZero(x)
  BY <1>2, <1>4, <1>6, <1>8 DEF IsNegative
<1>9. CASE ~IsZero(y) /\ ~IsZero(x)
  BY <1>2, <1>4, <1>6, <1>9 DEF IsNegative
<1> QED
  BY <1>7, <1>8, <1>9

(* percent() computes in two steps what one step of wider arithmetic would. *)
LEMMA PercentAgrees ==
  ASSUME NEW a \in Decoded, NEW b \in Decoded
  PROVE  LET x == IF IsZero(a) \/ IsZero(b) THEN Zero(1)
                  ELSE Num(a.sign * b.sign, a.exp + b.exp - Hundred.exp)
             res == percent(a, b)
         IN  /\ res.error = Null /\ Signed(res.value) /\ Signed(x)
             /\ IsInf(res.value) <=> IsInf(x)
             /\ IsZero(res.value) <=> IsZero(x)
             /\ ~IsZero(x) => res.value = x
<1> DEFINE s == a.sign * b.sign
           product == Times(a, b)
           res == Over(product, Hundred)
           x == IF IsZero(a) \/ IsZero(b) THEN Zero(1) ELSE Num(s, a.exp + b.exp - Hundred.exp)
           value == IF IsInf(res) THEN Times(a, Over(b, Hundred)) ELSE res
<1>1. s \in {-1, 1} /\ s * 1 = s /\ b.sign * 1 = b.sign /\ a.sign \in {-1, 1} /\ b.sign \in {-1, 1}
  BY DecodedFacts, SignProduct DEF Signed
<1>2. /\ a.exp \in Int /\ -MaxExp - 1 <= a.exp /\ a.exp <= MaxExp
      /\ b.exp \in Int /\ -MaxExp - 1 <= b.exp /\ b.exp <= MaxExp
      /\ MaxExp \in {1, 2}
  BY DecodedFacts
<1>3. percent(a, b) = Returns(value)
  BY DEF percent
<1>4. percent(a, b).error = Null /\ percent(a, b).value = value
  BY <1>3 DEF Returns
<1> HIDE DEF s
<1>5. /\ \A e : Num(s, e).sign = s /\ Num(s, e).exp = Fits(e)
      /\ \A e : Num(b.sign, e).sign = b.sign /\ Num(b.sign, e).exp = Fits(e)
      /\ \A e : [Num(s, e) EXCEPT !.sign = s] = Num(s, e)
  BY DEF Num
<1>6. Hundred.sign = 1 /\ Hundred.exp = 1
  BY HundredFacts
<1>7. CASE IsZero(a) \/ IsZero(b)
  <2>1. product = Num(s, -MaxExp - 1)
    BY <1>7 DEF Times, Zero, s
  <2>2. product.sign = s /\ product.exp = -MaxExp - 1
    BY <1>2, <1>5, <2>1 DEF Fits
  <2>3. res = product
    BY <1>1, <1>5, <1>6, <2>1, <2>2 DEF Over, IsZero
  <2>4. ~IsInf(res) /\ IsZero(res) /\ Signed(res)
    BY <1>1, <1>2, <2>2, <2>3 DEF IsInf, IsZero, Signed
  <2> HIDE DEF res
  <2>5. value = res /\ x = Zero(1)
    BY <1>7, <2>4
  <2> QED
    BY <1>4, <2>4, <2>5, ZeroFacts DEF s
<1>8. CASE ~IsZero(a) /\ ~IsZero(b)
  <2>1. product = Num(s, a.exp + b.exp) /\ product.sign = s /\ product.exp = Fits(a.exp + b.exp)
    BY <1>5, <1>8 DEF Times, s
  <2>2. x = Num(s, a.exp + b.exp - 1) /\ x.sign = s /\ x.exp = Fits(a.exp + b.exp - 1)
    BY <1>5, <1>6, <1>8
  <2>3. a.exp >= -MaxExp /\ b.exp >= -MaxExp
    BY <1>2, <1>8 DEF IsZero
  <2> HIDE DEF product, x
  <2>4. CASE a.exp + b.exp > MaxExp
    <3>1. product.exp = MaxExp + 1
      BY <1>2, <2>1, <2>4 DEF Fits
    <3>2. res = product /\ IsInf(res)
      BY <1>1, <1>5, <1>6, <2>1, <3>1 DEF Over, IsInf
    <3> DEFINE y == Over(b, Hundred)
    <3>3. b.exp > 0 /\ ~IsZero(b) /\ ~IsInf(b)
      BY <1>2, <2>4, DecodedFacts, <1>8
    <3>4. y = Num(b.sign, b.exp - 1)
      BY <1>1, <1>6, <3>3 DEF Over
    <3>5. y.sign = b.sign /\ y.exp = b.exp - 1 /\ ~IsZero(y)
      BY <1>2, <1>5, <3>3, <3>4 DEF Fits, IsZero
    <3> HIDE DEF y, res
    <3>6. Times(a, y) = Num(s, a.exp + (b.exp - 1))
      BY <1>8, <3>5 DEF Times, s
    <3>7. a.exp + (b.exp - 1) = a.exp + b.exp - 1
      BY <1>2
    <3>8. value = x
      BY <2>2, <3>2, <3>6, <3>7 DEF y
    <3> QED
      BY <1>1, <1>4, <2>2, <3>8 DEF Signed, x, s
  <2>5. CASE a.exp + b.exp < -MaxExp
    <3>1. product.exp = -MaxExp - 1 /\ x.exp = -MaxExp - 1
      BY <1>2, <2>1, <2>2, <2>5 DEF Fits
    <3>2. res = product
      BY <1>1, <1>5, <1>6, <2>1, <3>1 DEF Over, IsZero
    <3>3. ~IsInf(res) /\ IsZero(res) /\ Signed(res) /\ IsZero(x) /\ ~IsInf(x) /\ Signed(x)
      BY <1>1, <1>2, <2>1, <2>2, <3>1, <3>2 DEF IsInf, IsZero, Signed
    <3> HIDE DEF res
    <3> QED
      BY <1>4, <3>3 DEF x, s
  <2>6. CASE -MaxExp <= a.exp + b.exp /\ a.exp + b.exp <= MaxExp
    <3>1. product.exp = a.exp + b.exp /\ ~IsZero(product) /\ ~IsInf(product)
      BY <1>2, <2>1, <2>6 DEF Fits, IsZero, IsInf
    <3>2. res = x
      <4>1. res = Num(product.sign * Hundred.sign, product.exp - Hundred.exp)
        BY <3>1 DEF Over
      <4>2. product.sign * Hundred.sign = s /\ product.exp - Hundred.exp = a.exp + b.exp - 1
        BY <1>1, <1>2, <1>6, <2>1, <3>1
      <4> QED
        BY <2>2, <4>1, <4>2
    <3>3. ~IsInf(x) /\ Signed(x)
      BY <1>1, <1>2, <2>2, <2>6 DEF IsInf, Fits, Signed
    <3> HIDE DEF res
    <3> QED
      BY <1>4, <3>2, <3>3 DEF x, s
  <2> QED
    BY <1>2, <2>4, <2>5, <2>6
<1> QED
  BY <1>7, <1>8

(* Evaluate() tells what docs/errors.md tells of the same operands, and     *)
(* never that it was given the wrong number of them.                        *)
LEMMA EvaluateAgrees ==
  ASSUME NEW op \in Registry, NEW a \in Decoded, NEW b,
         IF op \in Binary THEN b \in Decoded ELSE b = Null
  PROVE  LET res == Evaluate(op, a, b)
         IN  /\ res.error \in {Null, "ErrDivisionByZero", "ErrDomain", "ErrNotFinite"}
             /\ res.error = Null =>
                  Expected(op, a, b) =
                    [code |-> Null, value |-> [operation |-> op, a |-> a, b |-> b, result |-> res.value]]
             /\ res.error # Null => Expected(op, a, b) = Refusal(mapError(res.error))
<1> DEFINE res == fn(op, a, b)
           all == Evaluate(op, a, b)
<1>0. op \in Binary \cup {"sqrt"} /\ (op \in Binary => b \in Decoded) /\ (op \notin Binary => b = Null)
  BY DEF Registry
<1>1. /\ isFinite(a) /\ (b # Null => isFinite(b)) /\ ((Arity(op) = 1) <=> (b = Null))
      /\ Signed(a) /\ (b # Null => Signed(b))
  BY <1>0, DecodedFacts DEF Arity
<1>2. all = IF res.error # Null THEN res
            ELSE IF ~isFinite(res.value) THEN Fails("ErrNotFinite")
            ELSE IF IsZero(res.value) THEN Returns(Zero(1))
            ELSE res
  BY <1>1 DEF Evaluate
<1>3. /\ \A x : Returns(x).error = Null /\ Returns(x).value = x
      /\ \A e : Fails(e).error = e
  BY DEF Returns, Fails
<1>4. /\ Null # "ErrDivisionByZero" /\ Null # "ErrDomain" /\ Null # "ErrNotFinite"
  BY CallAssumption
<1>5. /\ mapError("ErrDivisionByZero") = "DIVISION_BY_ZERO" /\ mapError("ErrDomain") = "DOMAIN_ERROR"
      /\ mapError("ErrNotFinite") = "RESULT_NOT_FINITE"
  BY DEF mapError
(* An operation that refuses, as documented.                                *)
<1>6. ASSUME NEW e \in {"ErrDivisionByZero", "ErrDomain"}, res = Fails(e),
             Expected(op, a, b) = Refusal(mapError(e))
      PROVE  /\ all.error \in {"ErrDivisionByZero", "ErrDomain"}
             /\ Expected(op, a, b) = Refusal(mapError(all.error))
  BY <1>2, <1>3, <1>4, <1>6
(* An operation that returns a number.                                      *)
<1>7. ASSUME NEW x, Signed(x), NEW told, Signed(told), res = Returns(x),
             IsInf(x) <=> IsInf(told), IsZero(x) <=> IsZero(told), ~IsZero(told) => x = told,
             Expected(op, a, b) = Told(op, a, b, told)
      PROVE  /\ all.error \in {Null, "ErrNotFinite"}
             /\ all.error = Null =>
                  Expected(op, a, b) =
                    [code |-> Null, value |-> [operation |-> op, a |-> a, b |-> b, result |-> all.value]]
             /\ all.error # Null => Expected(op, a, b) = Refusal(mapError(all.error))
  <2>1. isFinite(x) <=> ~IsInf(x)
    BY <1>7, SignedFacts
  <2>2. CASE IsInf(x)
    <3>1. all = Fails("ErrNotFinite")
      BY <1>2, <1>3, <1>7, <2>1, <2>2
    <3> QED
      BY <1>3, <1>4, <1>5, <1>7, <2>2, <3>1 DEF Told
  <2>3. CASE ~IsInf(x) /\ IsZero(x)
    <3>1. all = Returns(Zero(1))
      BY <1>2, <1>3, <1>7, <2>1, <2>3
    <3>2. told # NaN /\ ~IsInf(told) /\ IsZero(told)
      BY <1>7, <2>3, SignedFacts
    <3>3. JsonNumber(told, Null) = Zero(1)
      BY <3>2 DEF JsonNumber
    <3> QED
      BY <1>3, <1>7, <3>1, <3>2, <3>3 DEF Told
  <2>4. CASE ~IsInf(x) /\ ~IsZero(x)
    <3>1. all = Returns(x) /\ x = told
      BY <1>2, <1>3, <1>7, <2>1, <2>4
    <3>2. JsonNumber(told, Null) = x
      BY <1>7, <2>4, <3>1, SignedFacts DEF JsonNumber
    <3> QED
      BY <1>3, <1>7, <2>4, <3>1, <3>2 DEF Told
  <2> QED
    BY <2>2, <2>3, <2>4
<1> HIDE DEF res, all
<1>8. CASE op = "add"
  <2>1. b \in Decoded
    BY <1>0, <1>8 DEF Binary
  <2>2. res = Returns(Plus(a, b)) /\ Expected(op, a, b) = Told(op, a, b, Plus(a, b))
    BY <1>3, <1>8 DEF fn, Expected, Told, res
  <2>3. Signed(Plus(a, b))
    BY <2>1, DecodedFacts, PlusSigned
  <2> QED
    BY <1>7, <2>2, <2>3 DEF all
<1>9. CASE op = "subtract"
  <2>1. b \in Decoded
    BY <1>0, <1>9 DEF Binary
  <2>2. res = Returns(Minus(a, b)) /\ Expected(op, a, b) = Told(op, a, b, Minus(a, b))
    BY <1>3, <1>9 DEF fn, Expected, Told, res
  <2>3. Signed(Minus(a, b))
    BY <2>1, MinusSigned
  <2> QED
    BY <1>7, <2>2, <2>3 DEF all
<1>10. CASE op = "multiply"
  <2>1. b \in Decoded
    BY <1>0, <1>10 DEF Binary
  <2>2. res = Returns(Times(a, b)) /\ Expected(op, a, b) = Told(op, a, b, Times(a, b))
    BY <1>3, <1>10 DEF fn, Expected, Told, res
  <2>3. Signed(Times(a, b))
    BY <2>1, DecodedFacts, TimesSigned
  <2> QED
    BY <1>7, <2>2, <2>3 DEF all
<1>11. CASE op = "divide"
  <2>1. b \in Decoded
    BY <1>0, <1>11 DEF Binary
  <2>2. CASE IsZero(b)
    <3>1. res = Fails("ErrDivisionByZero") /\ Expected(op, a, b) = Refusal("DIVISION_BY_ZERO")
      BY <1>11, <2>2 DEF fn, divide, Expected, res
    <3> QED
      BY <1>4, <1>5, <1>6, <3>1 DEF all
  <2>3. CASE ~IsZero(b)
    <3>1. res = Returns(Over(a, b)) /\ Expected(op, a, b) = Told(op, a, b, Over(a, b))
      BY <1>3, <1>11, <2>3 DEF fn, divide, Expected, Told, res
    <3>2. Signed(Over(a, b))
      BY <2>1, DecodedFacts, OverSigned
    <3> QED
      BY <1>7, <3>1, <3>2 DEF all
  <2> QED
    BY <2>2, <2>3
<1>12. CASE op = "power"
  <2>1. b \in Decoded
    BY <1>0, <1>12 DEF Binary
  <2>2. res = power(a, b)
    BY <1>12 DEF fn, res
  <2>3. CASE IsZero(a) /\ IsNegative(b)
    <3>1. res = Fails("ErrDivisionByZero")
      BY <2>2, <2>3 DEF power
    <3>2. Expected(op, a, b) = Refusal("DIVISION_BY_ZERO")
      BY <1>12, <2>3 DEF Expected, IsNegative
    <3> QED
      BY <1>4, <1>5, <1>6, <3>1, <3>2 DEF all
  <2>4. CASE ~(IsZero(a) /\ IsNegative(b)) /\ Pow(a, b) = NaN
    <3>1. IsNegative(a) /\ b.exp < 0 /\ ~IsZero(b)
      BY <2>1, <2>4, PowFacts
    <3>2. res = Fails("ErrDomain")
      BY <2>2, <2>4 DEF power
    <3>3. Expected(op, a, b) = Refusal("DOMAIN_ERROR")
      BY <1>12, <2>4, <3>1 DEF Expected
    <3> QED
      BY <1>4, <1>5, <1>6, <3>2, <3>3 DEF all
  <2>5. CASE ~(IsZero(a) /\ IsNegative(b)) /\ Pow(a, b) # NaN
    <3>1. ~(IsNegative(a) /\ b.exp < 0 /\ ~IsZero(b)) /\ Signed(Pow(a, b))
      BY <2>1, <2>5, PowFacts
    <3>2. res = Returns(Pow(a, b))
      BY <2>2, <2>5 DEF power
    <3>3. fn(op, a, b).value = Pow(a, b)
      BY <1>3, <3>2 DEF res
    <3>4. Expected(op, a, b) = Told(op, a, b, Pow(a, b))
      BY <1>12, <2>5, <3>1, <3>3 DEF Expected, Told
    <3> QED
      BY <1>7, <3>1, <3>2, <3>4 DEF all
  <2> QED
    BY <2>3, <2>4, <2>5
<1>13. CASE op = "percent"
  <2>1. b \in Decoded
    BY <1>0, <1>13 DEF Binary
  <2> DEFINE told == IF IsZero(a) \/ IsZero(b) THEN Zero(1)
                     ELSE Num(a.sign * b.sign, a.exp + b.exp - Hundred.exp)
             value == percent(a, b).value
  <2>2. /\ percent(a, b).error = Null /\ Signed(value) /\ Signed(told)
        /\ IsInf(value) <=> IsInf(told)
        /\ IsZero(value) <=> IsZero(told)
        /\ ~IsZero(told) => value = told
    BY <2>1, PercentAgrees
  <2>3. res = Returns(value)
    BY <1>3, <1>13 DEF fn, percent, res
  <2>4. Expected(op, a, b) = Told(op, a, b, told)
    BY <1>13 DEF Expected, Told
  <2> HIDE DEF told, value
  <2> QED
    BY <1>7, <2>2, <2>3, <2>4 DEF all
<1>14. CASE op = "sqrt"
  <2>1. CASE IsNegative(a)
    <3>1. res = Fails("ErrDomain") /\ Expected(op, a, b) = Refusal("DOMAIN_ERROR")
      BY <1>14, <2>1 DEF fn, sqrt, Expected, res
    <3> QED
      BY <1>4, <1>5, <1>6, <3>1 DEF all
  <2>2. CASE ~IsNegative(a)
    <3>1. res = Returns(SquareRoot(a)) /\ Expected(op, a, b) = Told(op, a, b, SquareRoot(a))
      BY <1>3, <1>14, <2>2 DEF fn, sqrt, Expected, Told, res
    <3>2. Signed(SquareRoot(a))
      BY <1>1, SquareRootSigned
    <3> QED
      BY <1>7, <3>1, <3>2 DEF all
  <2> QED
    BY <2>1, <2>2
<1> QED
  BY <1>0, <1>8, <1>9, <1>10, <1>11, <1>12, <1>13, <1>14 DEF Binary, all

-----------------------------------------------------------------------------
(* A number as JSON carries it is finite, or null.                          *)
LEMMA JsonFacts ==
  ASSUME NEW x \in Float
  PROVE  /\ JsonNumber(x, Null) \in Decoded \cup {Null}
         /\ JsonNumber(x, Null) = Null <=> (x = NaN \/ IsInf(x))
<1>1. MaxExp \in {1, 2} /\ x # Null
  BY Float64Assumption, CallAssumption
<1>2. Zero(1) \in Decoded
  <2>1. Zero(1) = [sign |-> 1, exp |-> -MaxExp - 1]
    BY <1>1 DEF Zero, Num, Fits
  <2>2. Zero(1) \in Float
    BY <1>1, <2>1 DEF Float
  <2>3. isFinite(Zero(1))
    BY ZeroFacts, SignedFacts
  <2> QED
    BY <2>2, <2>3 DEF Decoded
<1>3. Zero(1) # Null
  BY <1>2, CallAssumption DEF Decoded
<1> QED
  BY <1>1, <1>2, <1>3 DEF JsonNumber, Decoded, isFinite

(* What the handler makes of one whole object with the operands it demands. *)
LEMMA EvaluateMeans ==
  ASSUME NEW r, r.media = "application/json", r.body.first = "object", r.body.rest = "eof",
         r.body.operation \in Registry, r.body.a \in Decoded,
         IF r.body.operation \in Binary THEN r.body.b \in Decoded ELSE r.body.b = Null
  PROVE  /\ [code |-> evaluate(r).code, value |-> evaluate(r).response]
              = Expected(r.body.operation, r.body.a, r.body.b)
         /\ evaluate(r).code \in {Null, "DIVISION_BY_ZERO", "DOMAIN_ERROR", "RESULT_NOT_FINITE"}
<1> DEFINE op == r.body.operation
           a == r.body.a
           b == r.body.b
           res == Evaluate(op, a, b)
<1>2. decodeJSON(r.media, r.body) = Null
  BY DEF decodeJSON
<1>3. validate(r.body) = Null
  <2>1. a # Null /\ op # "" /\ op \in Registry
    BY DecodedFacts DEF Registry, Binary
  <2>2. CASE op \in Binary
    <3>1. b # Null /\ Arity(op) # 1
      BY <2>2, DecodedFacts DEF Arity
    <3> QED
      BY <2>1, <3>1 DEF validate
  <2>3. CASE op \notin Binary
    <3>1. b = Null /\ Arity(op) # 2
      BY <2>3 DEF Arity
    <3> QED
      BY <2>1, <3>1 DEF validate
  <2> QED
    BY <2>2, <2>3
<1>4. evaluate(r) = [code |-> IF res.error = Null THEN Null ELSE mapError(res.error),
                     response |-> IF res.error # Null THEN Null
                                  ELSE [operation |-> op, a |-> a, b |-> b, result |-> res.value]]
  BY <1>2, <1>3 DEF evaluate
<1>5. /\ res.error \in {Null, "ErrDivisionByZero", "ErrDomain", "ErrNotFinite"}
      /\ res.error = Null =>
           Expected(op, a, b) =
             [code |-> Null, value |-> [operation |-> op, a |-> a, b |-> b, result |-> res.value]]
      /\ res.error # Null => Expected(op, a, b) = Refusal(mapError(res.error))
  BY EvaluateAgrees
<1>6. \A e \in {"ErrDivisionByZero", "ErrDomain", "ErrNotFinite"} :
        mapError(e) \in {"DIVISION_BY_ZERO", "DOMAIN_ERROR", "RESULT_NOT_FINITE"}
  BY DEF mapError
<1> HIDE DEF res, op, a, b
<1>7. CASE res.error = Null
  BY <1>4, <1>5, <1>7 DEF op, a, b
<1>8. CASE res.error # Null
  <2>1. evaluate(r).code = mapError(res.error) /\ evaluate(r).response = Null
    BY <1>4, <1>8
  <2> QED
    BY <1>5, <1>6, <1>8, <2>1 DEF Refusal, op, a, b
<1> QED
  BY <1>7, <1>8

(* The route of a request the page sends comes to what its call means.      *)
LEMMA RouteMeans ==
  ASSUME NEW c \in Call
  PROVE  LET outcome == Route(HttpRequest(c))
         IN  [code |-> outcome.code, value |-> outcome.response] \in Meaning(c)
<1> DEFINE r == HttpRequest(c)
           outcome == Route(r)
<1>1. CASE c.kind = "operations"
  <2>1. r.path = "/v1/operations" /\ r.method = "GET"
    BY <1>1 DEF HttpRequest
  <2>2. outcome = [code |-> Null, response |-> operations]
    BY <2>1 DEF Route
  <2>3. Meaning(c) = {[code |-> Null, value |-> list] : list \in {operations, NewerOperations}}
    BY <1>1 DEF Meaning
  <2> QED
    BY <2>2, <2>3
<1>2. CASE c.kind # "operations"
  <2> DEFINE a == JsonNumber(c.a, Null)
             b == IF c.b = Null THEN Null ELSE JsonNumber(c.b, Null)
  <2>1. /\ c.kind = "calculate" /\ c.operation \in Registry /\ c.a \in Float
        /\ IF c.operation \in Binary THEN c.b \in Float ELSE c.b = Null
    BY <1>2, CallAssumption
  <2>2. r = [method |-> "POST", path |-> "/v1/calculate", media |-> "application/json",
             body |-> [first |-> "object", rest |-> "eof", operation |-> c.operation, a |-> a, b |-> b]]
    BY <1>2 DEF HttpRequest
  <2>3. Meaning(c) = IF a = Null \/ (c.b # Null /\ b = Null) THEN {Refusal("VALIDATION_FAILED")}
                     ELSE {Expected(c.operation, a, b)}
    BY <1>2 DEF Meaning
  <2>4. /\ a \in Decoded \cup {Null}
        /\ c.operation \in Binary => c.b # Null /\ b \in Decoded \cup {Null}
        /\ c.operation \notin Binary => c.b = Null /\ b = Null
    BY <2>1, JsonFacts, CallAssumption
  <2> HIDE DEF a, b, r
  <2>5. /\ r.method = "POST" /\ r.path = "/v1/calculate" /\ r.media = "application/json"
        /\ r.body.first = "object" /\ r.body.rest = "eof" /\ r.body.operation = c.operation
        /\ r.body.a = a /\ r.body.b = b
    BY <2>2
  <2>6. outcome = evaluate(r)
    BY <2>5 DEF Route
  <2>7. CASE a = Null \/ (c.b # Null /\ b = Null)
    <3>1. decodeJSON(r.media, r.body) = Null
      BY <2>5 DEF decodeJSON
    <3>2. validate(r.body) = "VALIDATION_FAILED"
      BY <2>1, <2>4, <2>5, <2>7 DEF validate, Arity
    <3>3. "VALIDATION_FAILED" # Null
      BY CallAssumption DEF Code
    <3>4. evaluate(r) = [code |-> "VALIDATION_FAILED", response |-> Null]
      BY <3>1, <3>2, <3>3 DEF evaluate
    <3> QED
      BY <2>3, <2>6, <2>7, <3>4 DEF Refusal, r
  <2>8. CASE ~(a = Null \/ (c.b # Null /\ b = Null))
    <3>1. a \in Decoded /\ IF c.operation \in Binary THEN b \in Decoded ELSE b = Null
      BY <2>4, <2>8
    <3>2. [code |-> evaluate(r).code, value |-> evaluate(r).response] = Expected(c.operation, a, b)
      BY <2>1, <2>5, <3>1, EvaluateMeans
    <3> QED
      BY <2>3, <2>6, <2>8, <3>2 DEF r
  <2> QED
    BY <2>7, <2>8
<1> QED
  BY <1>1, <1>2

(* A request to calculate is one the JSON decoder can come from.            *)
Decodable(r) ==
  r.path = "/v1/calculate" /\ r.method = "POST" /\ r.media = "application/json" =>
    /\ r.body.first \in {"object", "null", "bad", "tooLarge"}
    /\ r.body.rest \in {"eof", "more", "tooLarge"}
    /\ {r.body.a, r.body.b} \subseteq Decoded \cup {Null}

LEMMA CallIsDecodable == ASSUME NEW c \in Call PROVE Decodable(HttpRequest(c))
<1>1. CASE c.kind = "operations"
  BY <1>1 DEF HttpRequest, Decodable
<1>2. CASE c.kind # "operations"
  <2>1. /\ c.a \in Float /\ (c.b = Null \/ c.b \in Float)
    BY <1>2, CallAssumption
  <2>2. JsonNumber(c.a, Null) \in Decoded \cup {Null}
    BY <2>1, JsonFacts
  <2>3. c.b # Null => JsonNumber(c.b, Null) \in Decoded \cup {Null}
    BY <2>1, JsonFacts
  <2> QED
    BY <1>2, <2>2, <2>3 DEF HttpRequest, Decodable
<1> QED
  BY <1>1, <1>2

LEMMA OtherIsDecodable == ASSUME NEW r \in OtherRequest PROVE Decodable(r)
BY RequestAssumption DEF Decodable, Decoded

-----------------------------------------------------------------------------
(* The table of docs/errors.md, row by row.                                 *)
Static == Code \ {"RATE_LIMITED", "TIMEOUT", "INTERNAL"}

LEMMA AppliesCases ==
  ASSUME NEW n
  PROVE  LET body == request.body
             calculates == request.path = "/v1/calculate" /\ request.method = "POST"
             json == calculates /\ request.media = "application/json"
             single == json /\ body.first = "object" /\ body.rest = "eof"
             missing == body.a = Null \/ (body.operation \in Binary /\ body.b = Null)
             known == single /\ body.operation \in Registry
         IN  /\ Applies("INVALID_BODY", n) <=>
                  json /\ (body.first \in {"null", "bad"} \/ body.rest = "more")
             /\ Applies("PAYLOAD_TOO_LARGE", n) <=> json /\ "tooLarge" \in {body.first, body.rest}
             /\ Applies("UNSUPPORTED_MEDIA_TYPE", n) <=> calculates /\ ~json
             /\ Applies("VALIDATION_FAILED", n) <=> single /\ (body.operation = "" \/ missing)
             /\ Applies("UNSUPPORTED_OPERATION", n) <=> single /\ ~known
             /\ Applies("UNEXPECTED_OPERAND", n) <=>
                  known /\ body.operation = "sqrt" /\ body.b # Null
             /\ \A code \in {"DIVISION_BY_ZERO", "DOMAIN_ERROR", "RESULT_NOT_FINITE"} :
                  Applies(code, n) <=>
                    known /\ ~missing /\ Expected(body.operation, body.a, body.b).code = code
             /\ Applies("METHOD_NOT_ALLOWED", n) <=>
                  \/ request.path = "/v1/calculate" /\ ~calculates
                  \/ request.path = "/v1/operations" /\ request.method \notin {"GET", "HEAD"}
             /\ Applies("NOT_FOUND", n) <=> request.path \notin {"/v1/calculate", "/v1/operations"}
             /\ Applies("INTERNAL", n) <=> handler[n] = "panicked"
             /\ ~Applies("NOT_READY", n)
             /\ Applies("RATE_LIMITED", n) /\ Applies("TIMEOUT", n)
<1>1. \A code \in {"DIVISION_BY_ZERO", "DOMAIN_ERROR", "RESULT_NOT_FINITE"} :
        Applies(code, n) <=>
          LET body == request.body
              calculates == request.path = "/v1/calculate" /\ request.method = "POST"
              json == calculates /\ request.media = "application/json"
              single == json /\ body.first = "object" /\ body.rest = "eof"
              missing == body.a = Null \/ (body.operation \in Binary /\ body.b = Null)
              known == single /\ body.operation \in Registry
          IN  known /\ ~missing /\ Expected(body.operation, body.a, body.b).code = code
  BY DEF Applies
<1> QED
  BY <1>1 DEF Applies

(* What evaluate() says of a request is a row of the table that applies to  *)
(* it; when it says nothing, no row does.                                   *)
LEMMA EvaluateApplies ==
  ASSUME NEW n, Decodable(request), request.path = "/v1/calculate", request.method = "POST"
  PROVE  LET code == evaluate(request).code
         IN  /\ code # Null => code \in Static /\ Applies(code, n)
             /\ code = Null => \A other \in Static : ~Applies(other, n)
<1> DEFINE code == evaluate(request).code
           body == request.body
           bad == decodeJSON(request.media, body)
           missing == body.a = Null \/ (body.operation \in Binary /\ body.b = Null)
<1>0. Null \notin Code
  BY CallAssumption
<1>1. CASE bad # Null
  <2>1. code = bad
    BY <1>1 DEF evaluate
  <2>2. CASE request.media # "application/json"
    <3>1. bad = "UNSUPPORTED_MEDIA_TYPE"
      BY <2>2 DEF decodeJSON
    <3> QED
      BY <1>1, <2>1, <2>2, <3>1, AppliesCases DEF Static, Code
  <2>3. CASE request.media = "application/json"
    <3>1. body.first \in {"object", "null", "bad", "tooLarge"} /\ body.rest \in {"eof", "more", "tooLarge"}
      BY <2>3 DEF Decodable
    <3>2. \/ bad = "PAYLOAD_TOO_LARGE" /\ "tooLarge" \in {body.first, body.rest}
          \/ bad = "INVALID_BODY" /\ (body.first \in {"null", "bad"} \/ body.rest = "more")
      BY <1>1, <2>3, <3>1 DEF decodeJSON
    <3> QED
      BY <1>1, <2>1, <2>3, <3>2, AppliesCases DEF Static, Code
  <2> QED
    BY <2>2, <2>3
<1>2. CASE bad = Null
  <2>1. /\ request.media = "application/json" /\ body.first = "object" /\ body.rest = "eof"
        /\ {body.a, body.b} \subseteq Decoded \cup {Null}
    <3>1. request.media = "application/json" /\ body.first = "object" /\ body.rest = "eof"
      BY <1>0, <1>2 DEF decodeJSON, Code
    <3> QED
      BY <3>1 DEF Decodable
  <2>2. \A other \in {"INVALID_BODY", "PAYLOAD_TOO_LARGE", "UNSUPPORTED_MEDIA_TYPE",
                      "METHOD_NOT_ALLOWED", "NOT_FOUND", "NOT_READY"} : ~Applies(other, n)
    BY <2>1, AppliesCases
  <2>3. CASE body.operation = "" \/ missing
    <3>1. body.operation \in Binary => body.operation \in Registry /\ Arity(body.operation) = 2
      BY DEF Registry, Arity
    <3>2. validate(body) = "VALIDATION_FAILED"
      BY <2>3, <3>1 DEF validate
    <3>3. code = "VALIDATION_FAILED"
      BY <1>0, <1>2, <3>2 DEF evaluate, Code
    <3> QED
      BY <2>1, <2>3, <3>3, <1>0, AppliesCases DEF Static, Code
  <2>4. CASE ~(body.operation = "" \/ missing) /\ body.operation \notin Registry
    <3>1. validate(body) = "UNSUPPORTED_OPERATION"
      BY <2>4 DEF validate
    <3>2. code = "UNSUPPORTED_OPERATION"
      BY <1>0, <1>2, <3>1 DEF evaluate, Code
    <3> QED
      BY <2>1, <2>4, <3>2, <1>0, AppliesCases DEF Static, Code
  <2>5. CASE ~(body.operation = "" \/ missing) /\ body.operation = "sqrt" /\ body.b # Null
    <3>1. "sqrt" \in Registry /\ Arity("sqrt") = 1 /\ Arity("sqrt") # 2
      BY DEF Registry, Arity, Binary
    <3>2. validate(body) = "UNEXPECTED_OPERAND"
      BY <2>5, <3>1 DEF validate
    <3>3. code = "UNEXPECTED_OPERAND"
      BY <1>0, <1>2, <3>2 DEF evaluate, Code
    <3> QED
      BY <2>1, <2>5, <3>1, <3>3, <1>0, AppliesCases DEF Static, Code
  <2>6. CASE /\ ~(body.operation = "" \/ missing) /\ body.operation \in Registry
             /\ ~(body.operation = "sqrt" /\ body.b # Null)
    <3>1. /\ body.a \in Decoded
          /\ IF body.operation \in Binary THEN body.b \in Decoded ELSE body.b = Null
      BY <2>1, <2>6 DEF Registry
    <3>2. /\ [code |-> code, value |-> evaluate(request).response]
               = Expected(body.operation, body.a, body.b)
          /\ code \in {Null, "DIVISION_BY_ZERO", "DOMAIN_ERROR", "RESULT_NOT_FINITE"}
      BY <2>1, <2>6, <3>1, EvaluateMeans
    <3>3. Expected(body.operation, body.a, body.b).code = code
      BY <3>2
    <3>4. \A other \in {"VALIDATION_FAILED", "UNSUPPORTED_OPERATION", "UNEXPECTED_OPERAND"} :
            ~Applies(other, n)
      BY <2>1, <2>6, AppliesCases
    <3>5. \A other \in {"DIVISION_BY_ZERO", "DOMAIN_ERROR", "RESULT_NOT_FINITE"} :
            Applies(other, n) <=> code = other
      BY <2>1, <2>6, <3>3, AppliesCases
    <3> HIDE DEF code
    <3>6. code # Null => code \in Static /\ Applies(code, n)
      BY <3>2, <3>5 DEF Static, Code
    <3>7. code = Null => \A other \in Static : ~Applies(other, n)
      BY <1>0, <2>2, <3>4, <3>5 DEF Static, Code
    <3> QED
      BY <3>6, <3>7 DEF code
  <2> QED
    BY <2>3, <2>4, <2>5, <2>6
<1> QED
  BY <1>1, <1>2

(* So for every request: the router gives a code that applies, and a 200    *)
(* only when none does.                                                     *)
LEMMA RouteApplies ==
  ASSUME NEW n, Decodable(request)
  PROVE  LET code == Route(request).code
         IN  /\ code # Null => code \in Static /\ Applies(code, n)
             /\ code = Null => \A other \in Static : ~Applies(other, n)
<1> DEFINE code == Route(request).code
<1>0. Null \notin Code
  BY CallAssumption
<1>1. CASE request.path = "/v1/calculate" /\ request.method = "POST"
  <2>1. Route(request) = evaluate(request)
    BY <1>1 DEF Route
  <2> QED
    BY <1>1, <2>1, EvaluateApplies
<1>2. CASE request.path = "/v1/calculate" /\ request.method # "POST"
  <2>1. code = "METHOD_NOT_ALLOWED"
    BY <1>2 DEF Route
  <2> QED
    BY <1>0, <1>2, <2>1, AppliesCases DEF Static, Code
<1>3. CASE request.path = "/v1/operations" /\ request.method \in {"GET", "HEAD"}
  <2>1. code = Null
    BY <1>3 DEF Route
  <2> QED
    BY <1>0, <1>3, <2>1, AppliesCases DEF Static, Code
<1>4. CASE request.path = "/v1/operations" /\ request.method \notin {"GET", "HEAD"}
  <2>1. code = "METHOD_NOT_ALLOWED"
    BY <1>4 DEF Route
  <2> QED
    BY <1>0, <1>4, <2>1, AppliesCases DEF Static, Code
<1>5. CASE request.path \notin {"/v1/calculate", "/v1/operations"}
  <2>1. code = "NOT_FOUND"
    BY <1>5 DEF Route
  <2> QED
    BY <1>0, <1>5, <2>1, AppliesCases DEF Static, Code
<1> QED
  BY <1>1, <1>2, <1>3, <1>4, <1>5

-----------------------------------------------------------------------------
(* Whole calls: who did what.                                               *)

Handler == {"none", "queued", "running", "done", "panicked"}

TypeInv ==
  /\ origin \in {"same", "allowed", "foreign"}
  /\ request = Null \/ request \in OtherRequest \/ request = HttpRequest(call)
  /\ call \in Call \cup {Null}
  /\ client \in {"idle", "sending", "reading", "waiting", "settled"}
  /\ attempt \in 0..2
  /\ timedOut \in BOOLEAN /\ aborted \in BOOLEAN
  /\ handler \in [Attempt -> Handler]
  /\ answer = [n \in Attempt |-> answer[n]]

(* Where the client is tells how often it has tried.                        *)
ClientInv ==
  /\ client = "idle" => attempt = 0 /\ call = Null /\ \A n \in Attempt : handler[n] = "none"
  /\ client \in {"sending", "reading", "waiting"} => call # Null
  /\ IF call = Null THEN result = Null ELSE attempt \in 1..2
  /\ client = "waiting" =>
       attempt = 1 /\ call.kind = "operations" /\ ~result.ok

(* A calculation has no second attempt.                                     *)
OnceInv ==
  call # Null /\ call.kind = "calculate" => attempt <= 1 /\ handler[2] = "none"

(* What an attempt of the page may come to.                                 *)
GoodResult(r, expired) ==
  /\ ~r.ok => IF r.status = 0 THEN r.code = IF expired THEN "TIMEOUT" ELSE "NETWORK"
              ELSE r.code \in Code => r.requestId = attempt
  /\ origin = "foreign" => ~r.ok /\ r.status = 0

ResultInv ==
  /\ client \in {"waiting", "settled"} /\ call # Null => GoodResult(result, timedOut)
  /\ origin = "foreign" /\ call # Null =>
       /\ client # "reading"
       /\ result # Null => ~result.ok /\ result.status = 0
       /\ call.kind = "calculate" => \A n \in Attempt : handler[n] = "none"

(* An answer carries the ID of its own attempt in the problem, if it is     *)
(* one, and the header for other origins only when the page's is allowed.   *)
GoodAnswer(n, r) ==
  /\ r = [status |-> r.status, headers |-> r.headers, requestId |-> r.requestId,
          part |-> r.part, body |-> r.body]
  /\ r.status \in 200..599 /\ r.part \in {"head", "whole", "cut"}
  /\ r.body.kind = "problem" => r.body.requestId = n
  /\ origin = "foreign" => "cors" \notin r.headers

AnswerInv == \A n \in Attempt : Answered(n) => GoodAnswer(n, answer[n])

(* The inductive invariant.                                                 *)
Inv == TypeInv /\ ClientInv /\ OnceInv /\ ResultInv /\ AnswerInv

-----------------------------------------------------------------------------
(* A rejection is put down to the timer exactly when the timer has fired.   *)
LEMMA RejectionIsGood ==
  ASSUME NEW expired \in BOOLEAN, NEW gone
  PROVE  GoodResult(rejection(expired, gone), expired)
BY DEF rejection, ApiError, GoodResult

(* What a response becomes, when the browser lets the page see it.          *)
LEMMA AnswerIsGood ==
  ASSUME Inv, attempt \in Attempt, Answered(attempt), origin # "foreign", NEW kind
  PROVE  GoodResult(answerOf(kind, Visible(answer[attempt])), timedOut)
<1> DEFINE r == answer[attempt]
           seen == Visible(r)
<1>1. r.status # 0 /\ (r.body.kind = "problem" => r.body.requestId = attempt)
  <2>1. r.status \in 200..599 /\ (r.body.kind = "problem" => r.body.requestId = attempt)
    BY DEF Inv, AnswerInv, Answered, GoodAnswer
  <2>2. \A s \in 200..599 : s # 0
    OBVIOUS
  <2> QED
    BY <2>1, <2>2
<1>2. seen.status = r.status /\ seen.body = r.body
  BY DEF Visible
<1>3. attempt # Null
  BY CallAssumption DEF Attempt
<1>4. GoodResult(errorFromResponse(seen), timedOut)
  BY <1>1, <1>2, <1>3 DEF errorFromResponse, ApiError, GoodResult, Code
<1>5. GoodResult(ApiError(200, "UNEXPECTED", seen.requestId), timedOut)
  BY DEF ApiError, GoodResult, Code
<1>6. GoodResult(ApiError(200, "INVALID_RESPONSE", seen.requestId), timedOut)
  BY DEF ApiError, GoodResult, Code
<1>7. GoodResult(Parsed(seen.body.value), timedOut)
  BY DEF Parsed, GoodResult
<1> QED
  BY <1>4, <1>5, <1>6, <1>7 DEF answerOf

(* An attempt that settles with a good result keeps the invariant.          *)
LEMMA SettleKeeps ==
  ASSUME Inv, client \in {"sending", "reading", "waiting"},
         timedOut' \in BOOLEAN, aborted' \in BOOLEAN,
         NEW r, GoodResult(r, timedOut'), Settle(r)
  PROVE  Inv'
<1> USE DEF Settle, serverVars, Inv
<1>1. call # Null /\ call.kind \in {"calculate", "operations"} /\ attempt \in 1..2
  BY CallAssumption DEF TypeInv, ClientInv
<1>2. client' \in {"waiting", "settled"}
  OBVIOUS
<1>3. client' = "waiting" => ~r.ok /\ attempt = 1 /\ call.kind = "operations"
  BY <1>1 DEF retries
<1>4. TypeInv'
  BY <1>2 DEF TypeInv
<1>5. ClientInv'
  BY <1>1, <1>2, <1>3 DEF ClientInv
<1>6. OnceInv'
  BY DEF OnceInv
<1>7. ResultInv'
  BY <1>1, <1>2 DEF ResultInv, GoodResult
<1>8. AnswerInv'
  BY DEF AnswerInv, Answered, GoodAnswer
<1> QED
  BY <1>4, <1>5, <1>6, <1>7, <1>8

(* Sending an attempt: the first, or the second of a query.                 *)
LEMMA SendKeeps ==
  ASSUME Inv, Send, call' \in Call, call' # Null, attempt \in 0..1,
         attempt = 1 => call'.kind = "operations",
         \/ request' = HttpRequest(call') /\ call = Null
         \/ call' = call /\ request' = request,
         call'.kind = "calculate" => request'.method = "POST" /\ handler[1] = "none" /\ handler[2] = "none",
         UNCHANGED <<origin, aborted, result, answer>>
  PROVE  Inv'
<1> USE DEF Send, Inv
<1>1. attempt' = attempt + 1 /\ attempt' \in Attempt
  BY DEF Attempt
<1>2. handler' \in [Attempt -> Handler]
  BY <1>1 DEF TypeInv, Handler, Attempt
<1>3. TypeInv'
  <2>1. attempt' \in 0..2 /\ client' = "sending" /\ timedOut' = FALSE
    BY <1>1 DEF Attempt
  <2> QED
    BY <2>1, <1>2 DEF TypeInv
<1>4. ClientInv'
  BY <1>1 DEF ClientInv, Attempt
<1>5. OnceInv'
  <2> SUFFICES ASSUME call'.kind = "calculate" PROVE attempt' <= 1 /\ handler'[2] = "none"
    BY DEF OnceInv
  <2>1. attempt' = 1
    BY <1>1
  <2> QED
    BY <2>1 DEF TypeInv, Attempt
<1>6. ResultInv'
  <2> SUFFICES ASSUME origin = "foreign"
               PROVE  /\ result # Null => ~result.ok /\ result.status = 0
                      /\ call'.kind = "calculate" => \A n \in Attempt : handler'[n] = "none"
    BY DEF ResultInv, GoodResult
  <2>1. ~PassesPreflight \/ call'.kind # "calculate"
    BY DEF PassesPreflight, cors
  <2> QED
    BY <2>1 DEF ResultInv, ClientInv, Attempt
<1>7. AnswerInv'
  BY DEF AnswerInv, Answered, GoodAnswer
<1> QED
  BY <1>3, <1>4, <1>5, <1>6, <1>7

(* A step of the server starts no attempt; it may answer one.               *)
LEMMA ServerKeeps ==
  ASSUME Inv, UNCHANGED clientVars, handler' \in [Attempt -> Handler],
         \A m \in Attempt : handler[m] = "none" => handler'[m] = "none",
         NEW n \in Attempt, NEW r, GoodAnswer(n, r),
         answer' = answer \/ answer' = [answer EXCEPT ![n] = r]
  PROVE  Inv'
<1> USE DEF Inv, clientVars
<1>1. TypeInv'
  BY DEF TypeInv
<1>2. ClientInv'
  BY DEF ClientInv
<1>3. OnceInv'
  BY DEF OnceInv, Attempt
<1>4. ResultInv'
  BY DEF ResultInv, GoodResult
<1>5. AnswerInv'
  BY DEF AnswerInv, Answered, GoodAnswer, TypeInv
<1> QED
  BY <1>1, <1>2, <1>3, <1>4, <1>5

-----------------------------------------------------------------------------
(* What the steps of the server answer with is good.                        *)
LEMMA CorsIsGuarded ==
  ASSUME NEW headers, origin = "foreign", "cors" \notin headers
  PROVE  "cors" \notin cors(headers)
BY DEF cors

LEMMA ProblemIsGood ==
  ASSUME NEW n \in Attempt, NEW code \in Code, NEW headers,
         origin = "foreign" => "cors" \notin headers
  PROVE  GoodAnswer(n, Problem(n, code, headers))
BY DEF Problem, GoodAnswer, Status

LEMMA OuterProblemIsGood ==
  ASSUME NEW n \in Attempt, NEW code \in Code
  PROVE  GoodAnswer(n, OuterProblem(n, code))
BY DEF OuterProblem, Problem, GoodAnswer, Status

LEMMA ResponseIsGood ==
  ASSUME NEW n \in Attempt, NEW outcome
  PROVE  GoodAnswer(n, Response(n, outcome))
BY DEF Response, GoodAnswer, cors

LEMMA ForeignIsGood ==
  ASSUME NEW n \in Attempt, NEW foreign \in ForeignAnswer
  PROVE  GoodAnswer(n, foreign)
BY DEF ForeignAnswer, Foreign, GoodAnswer, cors

(* Every refusal of the router has a code of its own.                       *)
LEMMA RouteCode ==
  ASSUME NEW r
  PROVE  Route(r).code \in Code \cup {Null}
<1>1. ASSUME NEW media, NEW body PROVE decodeJSON(media, body) \in Code \cup {Null}
  BY DEF decodeJSON, Code
<1>2. ASSUME NEW body PROVE validate(body) \in Code \cup {Null}
  BY DEF validate, Code
<1>3. ASSUME NEW error PROVE mapError(error) \in Code
  BY DEF mapError, Code
<1>4. evaluate(r).code \in Code \cup {Null}
  BY <1>1, <1>2, <1>3 DEF evaluate
<1> QED
  BY <1>4 DEF Route, Code

-----------------------------------------------------------------------------
(* The steps of the page.                                                   *)
LEMMA AskKeeps == ASSUME Inv, NEW c \in Call, Ask(c) PROVE Inv'
<1>1. attempt = 0 /\ call = Null /\ handler[1] = "none" /\ handler[2] = "none"
  BY DEF Inv, ClientInv, Ask, Attempt
<1>2. call' = c /\ c # Null /\ c.kind \in {"calculate", "operations"}
  BY CallAssumption DEF Ask
<1>3. c.kind = "calculate" => request'.method = "POST"
  BY DEF Ask, HttpRequest
<1> QED
  BY <1>1, <1>2, <1>3, SendKeeps DEF Ask

LEMMA AskOtherwiseKeeps == ASSUME Inv, NEW r \in OtherRequest, AskOtherwise(r) PROVE Inv'
<1> USE DEF Inv, AskOtherwise
<1>1. call = Null /\ call' = Null /\ result = Null /\ attempt' = 1
  BY DEF ClientInv
<1>2. TypeInv'
  BY <1>1 DEF TypeInv, Handler, Attempt
<1>3. AnswerInv'
  BY SMTT(30) DEF AnswerInv, Answered, GoodAnswer
<1> QED
  BY <1>1, <1>2, <1>3 DEF ClientInv, OnceInv, ResultInv

LEMMA RetryKeeps == ASSUME Inv, Retry PROVE Inv'
<1>1. attempt = 1 /\ call # Null /\ call \in Call /\ call.kind = "operations"
  BY DEF Inv, ClientInv, TypeInv, Retry
<1> QED
  BY <1>1, SendKeeps DEF Retry

LEMMA TimerFiresKeeps == ASSUME Inv, TimerFires PROVE Inv'
<1>1. timedOut' = TRUE /\ aborted' = aborted /\ aborted \in BOOLEAN
  BY DEF TimerFires, Inv, TypeInv
<1> DEFINE r == rejection(timedOut', aborted')
<1>2. GoodResult(r, timedOut')
  BY <1>1, RejectionIsGood
<1> QED
  BY <1>1, <1>2, SettleKeeps DEF TimerFires

LEMMA AbortKeeps == ASSUME Inv, Abort PROVE Inv'
<1>1. aborted' = TRUE /\ timedOut' = timedOut /\ timedOut \in BOOLEAN /\ call # Null
  BY DEF Abort, Inv, TypeInv
<1>2. CASE client = "waiting"
  <2>1. GoodResult(result, timedOut') /\ Settle(result)
    BY <1>1, <1>2 DEF Inv, ResultInv, Abort
  <2> QED
    BY <1>1, <1>2, <2>1, SettleKeeps
<1>3. CASE client # "waiting"
  <2> DEFINE r == rejection(timedOut', aborted')
  <2>1. GoodResult(r, timedOut') /\ Settle(r)
    BY <1>1, <1>3, RejectionIsGood DEF Abort
  <2>2. client \in {"sending", "reading"}
    BY <1>3 DEF Abort
  <2> QED
    BY <1>1, <2>1, <2>2, SettleKeeps
<1> QED
  BY <1>2, <1>3

LEMMA NetworkBreaksKeeps == ASSUME Inv, NetworkBreaks PROVE Inv'
<1>1. timedOut' = timedOut /\ aborted' = aborted /\ timedOut \in BOOLEAN /\ aborted \in BOOLEAN
  BY DEF NetworkBreaks, Inv, TypeInv
<1> DEFINE r == rejection(timedOut', aborted')
<1>2. GoodResult(r, timedOut')
  BY <1>1, RejectionIsGood
<1> QED
  BY <1>1, <1>2, SettleKeeps DEF NetworkBreaks

LEMMA HeadersArriveKeeps == ASSUME Inv, HeadersArrive PROVE Inv'
<1>1. timedOut' = timedOut /\ aborted' = aborted /\ timedOut \in BOOLEAN /\ aborted \in BOOLEAN
  BY DEF HeadersArrive, Inv, TypeInv
<1>2. client = "sending" /\ call # Null /\ attempt \in Attempt /\ Answered(attempt)
  BY DEF HeadersArrive, Inv, ClientInv, Attempt
<1>3. CASE origin = "same" \/ "cors" \in answer[attempt].headers
  <2>1. /\ client' = "reading"
        /\ UNCHANGED <<origin, request, call, attempt, result, timedOut, aborted, serverVars>>
    BY <1>3 DEF HeadersArrive
  <2>2. origin # "foreign"
    BY <1>2, <1>3 DEF Inv, AnswerInv, Answered, GoodAnswer
  <2>3. TypeInv' /\ ClientInv' /\ OnceInv'
    BY <1>2, <2>1 DEF Inv, TypeInv, ClientInv, OnceInv, serverVars
  <2>4. ResultInv'
    BY <2>1, <2>2 DEF ResultInv
  <2>5. AnswerInv'
    BY <2>1 DEF Inv, AnswerInv, Answered, GoodAnswer, serverVars
  <2> QED
    BY <2>3, <2>4, <2>5 DEF Inv
<1>4. CASE Settle(rejection(timedOut, aborted))
  BY <1>1, <1>2, <1>4, RejectionIsGood, SettleKeeps
<1> QED
  BY <1>3, <1>4 DEF HeadersArrive

LEMMA BodyArrivesKeeps == ASSUME Inv, BodyArrives PROVE Inv'
<1>1. timedOut' = timedOut /\ aborted' = aborted /\ timedOut \in BOOLEAN /\ aborted \in BOOLEAN
  BY DEF BodyArrives, Inv, TypeInv
<1>2. client = "reading" /\ call # Null /\ attempt \in Attempt /\ origin # "foreign"
  BY DEF BodyArrives, Inv, ClientInv, ResultInv, Attempt
<1> DEFINE r == IF answer[attempt].part = "whole"
                THEN answerOf(call.kind, Visible(answer[attempt]))
                ELSE rejection(timedOut, aborted)
<1>3. GoodResult(r, timedOut)
  <2>1. Answered(attempt)
    BY DEF BodyArrives, Answered
  <2> QED
    BY <1>1, <1>2, <2>1, AnswerIsGood, RejectionIsGood
<1>4. Settle(r)
  BY DEF BodyArrives
<1> QED
  BY <1>1, <1>2, <1>3, <1>4, SettleKeeps

-----------------------------------------------------------------------------
(* The steps of the proxy and of the server.                                *)
LEMMA ServerStepKeeps ==
  ASSUME Inv, NEW n \in Attempt, Proxy(n) \/ ServerStep(n)
  PROVE  Inv'
<1> DEFINE inner == cors({"X-Request-ID", "security"})
<1>1. handler \in [Attempt -> Handler]
  BY DEF Inv, TypeInv
<1>2. origin = "foreign" => "cors" \notin inner
  BY DEF cors
<1>3. CASE Proxy(n)
  <2>1. PICK foreign \in ForeignAnswer : answer' = [answer EXCEPT ![n] = foreign]
    BY <1>3 DEF Proxy
  <2> QED
    BY <1>1, <1>3, <2>1, ForeignIsGood, ServerKeeps DEF Proxy
<1>4. CASE Limit(n)
  <2> DEFINE headers == cors({"X-Request-ID", "security", "Retry-After"})
             r == Problem(n, "RATE_LIMITED", headers)
  <2>1. origin = "foreign" => "cors" \notin headers
    BY DEF cors
  <2>2. GoodAnswer(n, r)
    BY <2>1, ProblemIsGood DEF Code
  <2>3. answer' = answer \/ answer' = [answer EXCEPT ![n] = r]
    BY <1>4 DEF Limit, Answers
  <2> QED
    BY <1>1, <1>4, <2>2, <2>3, ServerKeeps DEF Limit, Handler
<1>5. CASE Preflight(n)
  <2> DEFINE r == [status |-> 204, headers |-> inner, requestId |-> n, part |-> "whole",
                   body |-> [kind |-> "html", code |-> Null, requestId |-> Null, value |-> Null]]
  <2>1. GoodAnswer(n, r)
    BY <1>2 DEF GoodAnswer
  <2>2. answer' = answer \/ answer' = [answer EXCEPT ![n] = r]
    BY <1>5 DEF Preflight, Answers
  <2> QED
    BY <1>1, <1>5, <2>1, <2>2, ServerKeeps DEF Preflight, Handler
<1>6. CASE Handle(n)
  <2>1. PICK foreign \in ForeignAnswer : TRUE
    BY DEF ForeignAnswer
  <2>2. GoodAnswer(n, foreign)
    BY ForeignIsGood
  <2> QED
    BY <1>1, <1>6, <2>2, ServerKeeps DEF Handle, Handler
<1>7. CASE Commit(n)
  <2> DEFINE outcome == Route(request)
             r == IF outcome.code = Null THEN Response(n, outcome)
                  ELSE Problem(n, outcome.code, inner)
  <2>1. GoodAnswer(n, r)
    BY <1>2, RouteCode, ResponseIsGood, ProblemIsGood
  <2>2. answer' = answer \/ answer' = [answer EXCEPT ![n] = r]
    BY <1>7 DEF Commit, Answers
  <2> QED
    BY <1>1, <1>7, <2>1, <2>2, ServerKeeps DEF Commit, Handler
<1>8. ASSUME NEW part \in {"whole", "cut"}, answer[n].part = "head",
             answer' = [answer EXCEPT ![n].part = part], UNCHANGED <<clientVars, handler>>
      PROVE  Inv'
  <2> DEFINE r == [answer[n] EXCEPT !.part = part]
  <2>1. GoodAnswer(n, answer[n])
    BY <1>8 DEF Inv, AnswerInv, Answered
  <2>2. GoodAnswer(n, r)
    BY <2>1 DEF GoodAnswer
  <2>3. answer' = [answer EXCEPT ![n] = r]
    BY <1>8 DEF Inv, TypeInv
  <2> QED
    BY <1>1, <1>8, <2>2, <2>3, ServerKeeps
<1>9. CASE Finish(n)
  BY <1>8, <1>9 DEF Finish
<1>10. CASE Panic(n)
  <2> DEFINE r == OuterProblem(n, "INTERNAL")
  <2>1. GoodAnswer(n, r)
    BY OuterProblemIsGood DEF Code
  <2>2. answer' = answer \/ answer' = [answer EXCEPT ![n] = r]
    BY <1>10 DEF Panic, Answers
  <2> QED
    BY <1>1, <1>10, <2>1, <2>2, ServerKeeps DEF Panic, Handler
<1>11. CASE Deadline(n)
  <2>1. CASE answer' = [answer EXCEPT ![n] = OuterProblem(n, "TIMEOUT")]
    <3>1. GoodAnswer(n, OuterProblem(n, "TIMEOUT"))
      BY OuterProblemIsGood DEF Code
    <3> QED
      BY <1>1, <1>11, <2>1, <3>1, ServerKeeps DEF Deadline
  <2>2. CASE answer[n].part = "head" /\ answer' = [answer EXCEPT ![n].part = "cut"]
    BY <1>8, <1>11, <2>2 DEF Deadline
  <2> QED
    BY <1>11, <2>1, <2>2 DEF Deadline
<1> QED
  BY <1>3, <1>4, <1>5, <1>6, <1>7, <1>9, <1>10, <1>11 DEF ServerStep

LEMMA InitInv == Init => Inv
<1> SUFFICES ASSUME Init PROVE Inv
  OBVIOUS
<1>1. TypeInv
  <2>1. handler \in [Attempt -> Handler]
    BY DEF Init, Handler
  <2>2. answer = [n \in Attempt |-> answer[n]]
    BY DEF Init
  <2>3. timedOut \in BOOLEAN /\ aborted \in BOOLEAN
    BY DEF Init
  <2>4. attempt \in 0..2 /\ client = "idle" /\ call = Null /\ request = Null
    BY DEF Init
  <2> QED
    BY <2>1, <2>2, <2>3, <2>4 DEF Init, TypeInv
<1>2. AnswerInv
  BY DEF Init, AnswerInv, Answered
<1> QED
  BY <1>1, <1>2 DEF Inv, Init, ClientInv, OnceInv, ResultInv

LEMMA NextInv == Inv /\ [Next]_vars => Inv'
<1> SUFFICES ASSUME Inv, [Next]_vars PROVE Inv'
  OBVIOUS
<1>1. CASE PageStep
  BY <1>1, AskKeeps, RetryKeeps, TimerFiresKeeps, AbortKeeps, NetworkBreaksKeeps,
     HeadersArriveKeeps, BodyArrivesKeeps DEF PageStep
<1>2. CASE UNCHANGED vars
  BY <1>2 DEF vars, clientVars, serverVars, Inv, TypeInv, ClientInv, OnceInv, ResultInv,
              GoodResult, AnswerInv, Answered, GoodAnswer
<1> QED
  BY <1>1, <1>2, AskOtherwiseKeeps, ServerStepKeeps DEF Next

LEMMA Invariance == Spec => []Inv
BY InitInv, NextInv, PTL DEF Spec

-----------------------------------------------------------------------------
(* The client, the request and the answers keep their types, for any calls  *)
(* and any requests of other clients.                                       *)
THEOREM RoundTripTypeCorrect == Spec => []TypeOK
<1>1. Inv => TypeOK
  BY DEF Inv, TypeInv, AnswerInv, GoodAnswer, TypeOK, Handler
<1> QED
  BY <1>1, Invariance, PTL

(* Every failure the page is told of is put down to its cause: a code of    *)
(* the backend to the attempt that got it, silence to the timer or not.     *)
THEOREM AttributionCorrect == Spec => []FailureIsAttributed
<1>1. Inv => FailureIsAttributed
  BY DEF Inv, ClientInv, ResultInv, GoodResult, FailureIsAttributed
<1> QED
  BY <1>1, Invariance, PTL

(* A page of an origin that is not allowed neither calculates nor learns.   *)
THEOREM ForeignCorrect == Spec => []ForeignPageIsShutOut
<1>1. Inv => ForeignPageIsShutOut
  BY DEF Inv, ResultInv, ForeignPageIsShutOut
<1> QED
  BY <1>1, Invariance, PTL

(* A calculation reaches the server in one attempt or in none.              *)
THEOREM OnceCorrect == Spec => []MutationIsSentOnce
<1>1. ASSUME Inv PROVE MutationIsSentOnce
  <2> SUFFICES ASSUME call # Null, call.kind = "calculate"
               PROVE  Cardinality({n \in Attempt : handler[n] # "none"}) <= 1
    BY DEF MutationIsSentOnce
  <2> DEFINE sent == {n \in Attempt : handler[n] # "none"}
  <2>1. handler[2] = "none"
    BY <1>1 DEF Inv, OnceInv
  <2>2. sent = {} \/ sent = {1}
    BY <2>1 DEF Attempt
  <2>3. Cardinality({}) = 0 /\ Cardinality({1}) = 1
    BY FS_EmptySet, FS_Singleton
  <2> QED
    BY <2>2, <2>3
<1> QED
  BY <1>1, Invariance, PTL

-----------------------------------------------------------------------------
(* The second invariant is about what is said, and rests on the first: what *)
(* a response carries is what the call means, or nothing the page accepts.  *)

(* The request on its way is the one of the call, and one that JSON allows. *)
RequestInv ==
  /\ call # Null => request = HttpRequest(call)
  /\ client # "idle" => Decodable(request)

(* Only an attempt that is made is handled, and only then answered.         *)
AheadInv ==
  \A n \in Attempt :
    /\ n > attempt => handler[n] = "none"
    /\ Answered(n) => handler[n] # "none"

(* What a response can bring the page: the answer its call means, or        *)
(* something that the schema of its call refuses.                           *)
GoodBody(r) ==
  /\ r.status # 200 /\ r.body.kind = "problem" =>
       Refusal(r.body.code) \in Meaning(call) \cup Failure
  /\ r.status = 200 /\ r.body.kind = call.kind =>
       [code |-> Null, value |-> r.body.value] \in Meaning(call)

BodyInv == call # Null => \A n \in Attempt : Answered(n) => GoodBody(answer[n])

(* What an attempt has come to.                                             *)
GoodOutcome(r) ==
  /\ [code |-> r.code, value |-> r.value] \in Meaning(call) \cup Failure
  /\ r.ok => [code |-> Null, value |-> r.value] \in Meaning(call)

OutcomeInv ==
  call # Null =>
    /\ result # Null \/ client \in {"waiting", "settled"} => GoodOutcome(result)

(* An answer of the server, given with the state its handler is left in.    *)
Documented(n, r) ==
  r.requestId = n =>
    /\ r.status = 200 =>
         /\ handler[n] = "done"
         /\ \A code \in Code \ {"RATE_LIMITED", "TIMEOUT"} : ~Applies(code, n)
    /\ r.status = 204 => request.method = "OPTIONS"
    /\ r.status \notin {200, 204} =>
         /\ r.body.code \in Code /\ Applies(r.body.code, n)
         /\ r.status = Status(r.body.code)

DocumentInv == \A n \in Attempt : Answered(n) => Documented(n, answer[n])

ContentInv == RequestInv /\ AheadInv /\ BodyInv /\ OutcomeInv /\ DocumentInv

(* A row of the table that applies goes on applying while the handler's end *)
(* does not change.                                                         *)
LEMMA AppliesStays ==
  ASSUME request' = request, NEW m, NEW code, handler[m] = "panicked" => handler'[m] = "panicked"
  PROVE  Applies(code, m) => Applies(code, m)'
BY DEF Applies

LEMMA AppliesSame ==
  ASSUME request' = request, NEW m, NEW code, handler[m] = "panicked" <=> handler'[m] = "panicked"
  PROVE  Applies(code, m) <=> Applies(code, m)'
BY DEF Applies

LEMMA DocumentedStays ==
  ASSUME request' = request, NEW m, NEW r, Documented(m, r),
         handler[m] \in {"done", "panicked"} => handler'[m] = handler[m]
  PROVE  Documented(m, r)'
<1> SUFFICES ASSUME r.requestId = m PROVE Documented(m, r)'
  BY DEF Documented
<1>1. CASE r.status = 200
  <2>1. handler[m] = "done" /\ handler'[m] = "done"
    BY <1>1 DEF Documented
  <2>2. \A code \in Code \ {"RATE_LIMITED", "TIMEOUT"} : ~Applies(code, m)'
    BY <1>1, <2>1, AppliesSame DEF Documented
  <2> QED
    BY <1>1, <2>1, <2>2 DEF Documented
<1>2. CASE r.status = 204
  BY <1>2 DEF Documented
<1>3. CASE r.status \notin {200, 204}
  <2>1. /\ r.body.code \in Code /\ Applies(r.body.code, m)
        /\ r.status = Status(r.body.code)
    BY <1>3 DEF Documented
  <2>2. Applies(r.body.code, m)'
    BY <2>1, AppliesStays
  <2> QED
    BY <1>3, <2>1, <2>2 DEF Documented
<1> QED
  BY <1>1, <1>2, <1>3

(* What becomes of one attempt.                                             *)
LEMMA RejectionContent ==
  ASSUME NEW expired, NEW gone
  PROVE  GoodOutcome(rejection(expired, gone))
BY DEF rejection, ApiError, GoodOutcome, Failure, Refusal

LEMMA AnswerContent ==
  ASSUME NEW r, GoodBody(r)
  PROVE  GoodOutcome(answerOf(call.kind, Visible(r)))
<1> DEFINE seen == Visible(r)
           res == answerOf(call.kind, seen)
<1>1. seen.status = r.status /\ seen.body = r.body
  BY DEF Visible
<1> HIDE DEF seen
<1>2. CASE r.status # 200 /\ r.body.kind = "problem"
  <2>1. res.code = r.body.code /\ res.value = Null /\ res.ok = FALSE
    BY <1>1, <1>2 DEF answerOf, errorFromResponse, ApiError
  <2>2. Refusal(r.body.code) \in Meaning(call) \cup Failure
    BY <1>2 DEF GoodBody
  <2> QED
    BY <2>1, <2>2 DEF GoodOutcome, Refusal, seen
<1>3. CASE r.status # 200 /\ r.body.kind # "problem"
  <2>1. res.code = "UNEXPECTED" /\ res.value = Null /\ res.ok = FALSE
    BY <1>1, <1>3 DEF answerOf, errorFromResponse, ApiError
  <2> QED
    BY <2>1 DEF GoodOutcome, Refusal, Failure, seen
<1>4. CASE r.status = 200 /\ (r.body.kind = "html" \/ r.body.kind # call.kind)
  <2>1. res.code \in {"UNEXPECTED", "INVALID_RESPONSE"} /\ res.value = Null /\ res.ok = FALSE
    BY <1>1, <1>4 DEF answerOf, ApiError
  <2> QED
    BY <2>1 DEF GoodOutcome, Refusal, Failure, seen
<1>5. CASE r.status = 200 /\ r.body.kind # "html" /\ r.body.kind = call.kind
  <2>1. res.code = Null /\ res.value = r.body.value
    BY <1>1, <1>5 DEF answerOf, Parsed
  <2> QED
    BY <1>5, <2>1 DEF GoodBody, GoodOutcome, seen
<1> QED
  BY <1>2, <1>3, <1>4, <1>5

LEMMA SettleContent ==
  ASSUME Inv, ContentInv, call # Null, client # "idle", NEW r, GoodOutcome(r), Settle(r)
  PROVE  ContentInv'
<1> USE DEF Settle, serverVars
<1>1. RequestInv'
  BY DEF ContentInv, RequestInv, Decodable
<1>2. AheadInv'
  BY DEF ContentInv, AheadInv, Answered
<1>3. BodyInv'
  BY DEF ContentInv, BodyInv, Answered, GoodBody
<1>4. OutcomeInv'
  BY DEF OutcomeInv, GoodOutcome
<1>5. DocumentInv'
  BY DocumentedStays DEF ContentInv, DocumentInv, Answered
<1> QED
  BY <1>1, <1>2, <1>3, <1>4, <1>5 DEF ContentInv

(* A first attempt: nobody has answered yet.                                *)
LEMMA NobodyHasAnswered ==
  ASSUME Inv, ContentInv, client = "idle"
  PROVE  /\ attempt = 0 /\ call = Null /\ result = Null
         /\ \A n \in Attempt : handler[n] = "none" /\ ~Answered(n)
BY DEF Inv, ClientInv, ContentInv, AheadInv, Attempt

LEMMA AskContent == ASSUME Inv, ContentInv, NEW c \in Call, Ask(c) PROVE ContentInv'
<1>1. /\ request' = HttpRequest(c) /\ call' = c /\ client' = "sending" /\ attempt' = 1
      /\ result' = Null /\ answer' = answer
      /\ \A n \in Attempt : ~Answered(n) /\ (n > 1 => handler'[n] = "none")
  BY NobodyHasAnswered DEF Ask, Send, Attempt, Inv, TypeInv
<1>2. RequestInv'
  BY <1>1, CallIsDecodable DEF RequestInv, Decodable
<1> QED
  BY <1>1, <1>2 DEF ContentInv, AheadInv, BodyInv, OutcomeInv, DocumentInv, Answered

LEMMA AskOtherwiseContent ==
  ASSUME Inv, ContentInv, NEW r \in OtherRequest, AskOtherwise(r)
  PROVE  ContentInv'
<1>1. /\ request' = r /\ call' = Null /\ attempt' = 1 /\ answer' = answer
      /\ \A n \in Attempt : ~Answered(n) /\ (n > 1 => handler'[n] = "none")
  BY NobodyHasAnswered DEF AskOtherwise, Attempt, Inv, TypeInv
<1>2. RequestInv'
  BY <1>1, OtherIsDecodable DEF RequestInv, Decodable
<1> QED
  BY <1>1, <1>2 DEF ContentInv, AheadInv, BodyInv, OutcomeInv, DocumentInv, Answered

LEMMA RetryContent == ASSUME Inv, ContentInv, Retry PROVE ContentInv'
<1>1. /\ UNCHANGED <<request, call, result, answer>> /\ client = "waiting" /\ client' = "sending"
      /\ attempt = 1 /\ attempt' = 2
      /\ handler' = handler \/ handler' = [handler EXCEPT ![2] = "queued"]
      /\ handler[2] = "none"
  BY DEF Retry, Send, Inv, ClientInv, ContentInv, AheadInv, Attempt
<1>2. \A m \in Attempt : handler[m] \in {"done", "panicked"} => handler'[m] = handler[m]
  BY <1>1 DEF Inv, TypeInv, Attempt
<1>3. RequestInv'
  BY <1>1 DEF ContentInv, RequestInv, Decodable
<1>4. AheadInv'
  <2>1. \A m \in Attempt : handler[m] # "none" => handler'[m] # "none"
    BY <1>1 DEF Inv, TypeInv, Attempt
  <2> QED
    BY <1>1, <2>1 DEF ContentInv, AheadInv, Answered, Attempt
<1>5. BodyInv'
  BY <1>1 DEF ContentInv, BodyInv, Answered, GoodBody
<1>6. OutcomeInv'
  BY <1>1 DEF ContentInv, OutcomeInv, GoodOutcome
<1>7. DocumentInv'
  BY <1>1, <1>2, DocumentedStays DEF ContentInv, DocumentInv, Answered
<1> QED
  BY <1>3, <1>4, <1>5, <1>6, <1>7 DEF ContentInv

LEMMA TimerFiresContent == ASSUME Inv, ContentInv, TimerFires PROVE ContentInv'
<1>1. call # Null /\ client # "idle"
  BY DEF TimerFires, Inv, ClientInv
<1> QED
  BY <1>1, RejectionContent, SettleContent DEF TimerFires

LEMMA AbortContent == ASSUME Inv, ContentInv, Abort PROVE ContentInv'
<1>1. call # Null /\ client # "idle"
  BY DEF Abort
<1>2. CASE client = "waiting"
  <2>1. GoodOutcome(result) /\ Settle(result)
    BY <1>1, <1>2 DEF Abort, ContentInv, OutcomeInv
  <2> QED
    BY <1>1, <2>1, SettleContent
<1>3. CASE client # "waiting"
  BY <1>1, <1>3, RejectionContent, SettleContent DEF Abort
<1> QED
  BY <1>2, <1>3

LEMMA NetworkBreaksContent == ASSUME Inv, ContentInv, NetworkBreaks PROVE ContentInv'
<1>1. call # Null /\ client # "idle"
  BY DEF NetworkBreaks, Inv, ClientInv
<1> QED
  BY <1>1, RejectionContent, SettleContent DEF NetworkBreaks

LEMMA HeadersArriveContent == ASSUME Inv, ContentInv, HeadersArrive PROVE ContentInv'
<1>1. call # Null /\ client = "sending"
  BY DEF HeadersArrive, Inv, ClientInv
<1>2. CASE Settle(rejection(timedOut, aborted))
  BY <1>1, <1>2, RejectionContent, SettleContent
<1>3. CASE client' = "reading" /\ UNCHANGED <<origin, request, call, attempt, result, serverVars>>
  <2> USE <1>1, <1>3 DEF serverVars
  <2>1. RequestInv'
    BY DEF ContentInv, RequestInv, Decodable
  <2>2. AheadInv'
    BY DEF ContentInv, AheadInv, Answered
  <2>3. BodyInv'
    BY DEF ContentInv, BodyInv, Answered, GoodBody
  <2>4. OutcomeInv'
    BY DEF ContentInv, OutcomeInv, GoodOutcome
  <2>5. DocumentInv'
    BY DocumentedStays DEF ContentInv, DocumentInv, Answered
  <2> QED
    BY <2>1, <2>2, <2>3, <2>4, <2>5 DEF ContentInv
<1> QED
  BY <1>2, <1>3 DEF HeadersArrive

LEMMA BodyArrivesContent == ASSUME Inv, ContentInv, BodyArrives PROVE ContentInv'
<1>1. call # Null /\ client = "reading" /\ attempt \in Attempt /\ Answered(attempt)
  BY DEF BodyArrives, Inv, ClientInv, Attempt, Answered
<1>2. GoodBody(answer[attempt])
  BY <1>1 DEF ContentInv, BodyInv
<1>3. CASE answer[attempt].part = "whole"
  BY <1>1, <1>2, <1>3, AnswerContent, SettleContent DEF BodyArrives
<1>4. CASE answer[attempt].part # "whole"
  BY <1>1, <1>4, RejectionContent, SettleContent DEF BodyArrives
<1> QED
  BY <1>3, <1>4

(* A step of the server or of what stands between answers attempt n with r, *)
(* or answers nothing.                                                      *)
LEMMA ServerContent ==
  ASSUME Inv, ContentInv, UNCHANGED clientVars, NEW n \in Attempt, handler[n] # "none",
         \/ handler' = handler
         \/ /\ handler[n] \in {"queued", "running"}
            /\ \E to \in Handler \ {"none"} : handler' = [handler EXCEPT ![n] = to],
         NEW r,
         \/ answer' = answer
         \/ /\ answer' = [answer EXCEPT ![n] = r]
            /\ call # Null => GoodBody(r)
            /\ Documented(n, r)'
  PROVE  ContentInv'
<1> USE DEF clientVars
<1>1. /\ \A m \in Attempt : m # n => handler'[m] = handler[m] /\ answer'[m] = answer[m]
      /\ \A m \in Attempt : handler[m] \in {"done", "panicked"} => handler'[m] = handler[m]
      /\ \/ answer'[n] = answer[n]
         \/ /\ answer'[n] = r
            /\ call # Null => GoodBody(r)
            /\ Documented(n, r)'
  BY DEF Inv, TypeInv
<1>2. RequestInv'
  BY DEF ContentInv, RequestInv, Decodable
<1>3. AheadInv'
  <2>1. n <= attempt
    BY DEF ContentInv, AheadInv, Attempt, Inv, TypeInv
  <2>2. handler'[n] # "none"
    <3>1. CASE handler' = handler
      BY <3>1
    <3>2. CASE handler[n] \in {"queued", "running"}
      BY <3>2 DEF Inv, TypeInv
    <3> QED
      BY <3>1, <3>2
  <2> SUFFICES ASSUME NEW m \in Attempt
               PROVE  (m > attempt => handler'[m] = "none") /\ (Answered(m)' => handler'[m] # "none")
    BY DEF AheadInv
  <2>3. CASE m = n
    BY <2>1, <2>2, <2>3 DEF Attempt, Inv, TypeInv
  <2>4. CASE m # n
    BY <1>1, <2>4 DEF ContentInv, AheadInv, Answered
  <2> QED
    BY <2>3, <2>4
<1>4. BodyInv'
  BY <1>1 DEF ContentInv, BodyInv, Answered, GoodBody
<1>5. OutcomeInv'
  BY DEF ContentInv, OutcomeInv, GoodOutcome
<1>6. DocumentInv'
  <2> SUFFICES ASSUME NEW m \in Attempt, Answered(m)' PROVE Documented(m, answer[m])'
    BY DEF DocumentInv
  <2>1. PICK s : s = answer'[m]
    OBVIOUS
  <2>2. CASE answer'[m] = answer[m]
    <3>1. Documented(m, s)
      BY <2>1, <2>2 DEF ContentInv, DocumentInv, Answered
    <3>2. Documented(m, s)'
      BY <1>1, <3>1, DocumentedStays
    <3> QED
      BY <2>1, <3>2 DEF Documented
  <2>3. CASE m = n /\ answer'[n] = r /\ Documented(n, r)'
    BY <2>3 DEF Documented
  <2> QED
    BY <1>1, <2>2, <2>3
<1> QED
  BY <1>2, <1>3, <1>4, <1>5, <1>6 DEF ContentInv

(* A problem is a refusal of the call; the page takes no problem for a      *)
(* result.                                                                  *)
LEMMA StatusFacts ==
  ASSUME NEW code
  PROVE  Status(code) \notin {200, 204}
BY DEF Status

LEMMA ProblemContent ==
  ASSUME NEW n \in Attempt, NEW code \in Code, Applies(code, n)', NEW headers, NEW r,
         call # Null => Refusal(code) \in Meaning(call) \cup Failure,
         \/ r = Problem(n, code, headers)
         \/ r = OuterProblem(n, code)
  PROVE  /\ call # Null => GoodBody(r)
         /\ Documented(n, r)'
<1>1. /\ r.status = Status(code) /\ r.status \notin {200, 204}
      /\ r.body.kind = "problem" /\ r.body.code = code
  BY StatusFacts DEF Problem, OuterProblem
<1> QED
  BY <1>1 DEF GoodBody, Documented

(* A refusal of the router has no response, and is one the call may mean.   *)
LEMMA RouteRefuses ==
  ASSUME NEW r, Route(r).code # Null
  PROVE  Route(r).response = Null
<1>1. evaluate(r).code # Null => evaluate(r).response = Null
  BY DEF evaluate
<1> QED
  BY <1>1 DEF Route

LEMMA CommitContent ==
  ASSUME Inv, ContentInv, NEW n \in Attempt, Commit(n)
  PROVE  ContentInv'
<1> DEFINE outcome == Route(request)
           code == outcome.code
<1>1. /\ handler[n] = "running" /\ handler' = [handler EXCEPT ![n] = "done"]
      /\ handler'[n] = "done" /\ UNCHANGED clientVars /\ request' = request
  BY DEF Commit, Inv, TypeInv, clientVars
<1>2. client # "idle" /\ Decodable(request)
  BY <1>1 DEF Inv, ClientInv, ContentInv, RequestInv
<1>3. call # Null =>
        /\ [code |-> code, value |-> outcome.response] \in Meaning(call)
        /\ call \in Call
  <2> SUFFICES ASSUME call # Null
               PROVE  [code |-> code, value |-> outcome.response] \in Meaning(call) /\ call \in Call
    OBVIOUS
  <2>1. call \in Call /\ request = HttpRequest(call)
    BY DEF Inv, TypeInv, ContentInv, RequestInv
  <2> QED
    BY <2>1, RouteMeans
<1>4. /\ code # Null => code \in Static /\ Applies(code, n)
      /\ code = Null => \A other \in Static : ~Applies(other, n)
  BY <1>2, RouteApplies
<1>5. CASE code = Null
  <2>1. PICK r : r = Response(n, outcome)
    OBVIOUS
  <2>2. r.status = 200 /\ r.body.value = outcome.response
    BY <2>1 DEF Response
  <2>3. call # Null => GoodBody(r)
    BY <1>3, <1>5, <2>2 DEF GoodBody
  <2>4. \A other \in Static : ~Applies(other, n)'
    BY <1>1, <1>4, <1>5, AppliesSame
  <2>5. ~Applies("INTERNAL", n)'
    <3>1. ~Applies("INTERNAL", n)
      BY <1>1, AppliesCases
    <3> QED
      BY <1>1, <3>1, AppliesSame
  <2>6. Documented(n, r)'
    BY <1>1, <2>2, <2>4, <2>5 DEF Documented, Static
  <2>7. answer' = answer \/ answer' = [answer EXCEPT ![n] = r]
    BY <1>5, <2>1 DEF Commit, Answers
  <2> QED
    BY <1>1, <2>3, <2>6, <2>7, ServerContent DEF Handler
<1>6. CASE code # Null
  <2>1. PICK r : r = Problem(n, code, cors({"X-Request-ID", "security"}))
    OBVIOUS
  <2>2. PICK c : c = code
    OBVIOUS
  <2>3. c \in Code /\ Applies(c, n)'
    BY <1>1, <1>4, <1>6, <2>2, AppliesSame DEF Static
  <2>4. call # Null => Refusal(c) \in Meaning(call) \cup Failure
    BY <1>3, <1>6, <2>2, RouteRefuses DEF Refusal
  <2>5. (call # Null => GoodBody(r)) /\ Documented(n, r)'
    BY <2>1, <2>2, <2>3, <2>4, ProblemContent
  <2>6. answer' = answer \/ answer' = [answer EXCEPT ![n] = r]
    BY <1>6, <2>1 DEF Commit, Answers
  <2> QED
    BY <1>1, <2>5, <2>6, ServerContent DEF Handler
<1> QED
  BY <1>5, <1>6

LEMMA ServerStepContent ==
  ASSUME Inv, ContentInv, NEW n \in Attempt, Proxy(n) \/ ServerStep(n)
  PROVE  ContentInv'
<1>0. handler \in [Attempt -> Handler] /\ answer = [m \in Attempt |-> answer[m]] /\ Null \notin Nat
  BY CallAssumption DEF Inv, TypeInv
<1>1. CASE Proxy(n)
  <2>1. PICK r \in ForeignAnswer : answer' = [answer EXCEPT ![n] = r]
    BY <1>1 DEF Proxy
  <2>2. call \in Call /\ call.kind \in {"calculate", "operations"}
    BY <1>1, CallAssumption DEF Proxy, Inv, TypeInv
  <2>3. GoodBody(r)
    BY <2>2 DEF ForeignAnswer, Foreign, GoodBody, Meaning
  <2>4. r.requestId = Null /\ r.requestId # n
    BY <1>0 DEF ForeignAnswer, Foreign, Attempt
  <2>5. Documented(n, r)'
    BY <2>4 DEF Documented
  <2> QED
    BY <1>1, <2>1, <2>3, <2>5, ServerContent DEF Proxy
<1>2. CASE Limit(n)
  <2>1. PICK r : r = Problem(n, "RATE_LIMITED", cors({"X-Request-ID", "security", "Retry-After"}))
    OBVIOUS
  <2>2. Applies("RATE_LIMITED", n)'
    BY DEF Applies
  <2>3. (call # Null => GoodBody(r)) /\ Documented(n, r)'
    BY <2>1, <2>2, ProblemContent DEF Code, Failure
  <2>4. answer' = answer \/ answer' = [answer EXCEPT ![n] = r]
    BY <1>2, <2>1 DEF Limit, Answers
  <2> QED
    BY <1>2, <2>3, <2>4, ServerContent DEF Limit, Handler
<1>3. CASE Preflight(n)
  <2>1. PICK r : r = [status |-> 204, headers |-> cors({"X-Request-ID", "security"}), requestId |-> n,
                      part |-> "whole",
                      body |-> [kind |-> "html", code |-> Null, requestId |-> Null, value |-> Null]]
    OBVIOUS
  <2>2. request'.method = "OPTIONS"
    BY <1>3 DEF Preflight, clientVars
  <2>3. (call # Null => GoodBody(r)) /\ Documented(n, r)'
    BY <2>1, <2>2 DEF GoodBody, Documented
  <2>4. answer' = answer \/ answer' = [answer EXCEPT ![n] = r]
    BY <1>3, <2>1 DEF Preflight, Answers
  <2> QED
    BY <1>3, <2>3, <2>4, ServerContent DEF Preflight, Handler
<1>4. CASE Handle(n)
  BY <1>4, ServerContent DEF Handle, Handler
<1>5. CASE Commit(n)
  BY <1>5, CommitContent
<1>6. ASSUME NEW part \in {"whole", "cut"}, answer[n].part = "head", handler[n] # "none",
             answer' = [answer EXCEPT ![n].part = part], UNCHANGED <<clientVars, handler>>
      PROVE  ContentInv'
  <2>1. PICK s : s = answer[n]
    OBVIOUS
  <2> DEFINE r == [s EXCEPT !.part = part]
  <2>2. s = [status |-> s.status, headers |-> s.headers, requestId |-> s.requestId,
             part |-> s.part, body |-> s.body]
    BY <1>6, <2>1 DEF Inv, AnswerInv, Answered, GoodAnswer
  <2>3. r.status = s.status /\ r.requestId = s.requestId /\ r.body = s.body
    BY <2>2
  <2>4. (call # Null => GoodBody(s)) /\ Documented(n, s)
    BY <1>6, <2>1 DEF ContentInv, BodyInv, DocumentInv, Answered
  <2>5. Documented(n, s)'
    BY <1>6, <2>4, DocumentedStays DEF clientVars
  <2>6. (call # Null => GoodBody(r)) /\ Documented(n, r)'
    BY <2>3, <2>4, <2>5 DEF GoodBody, Documented
  <2>7. answer' = [answer EXCEPT ![n] = r]
    BY <1>0, <1>6, <2>1
  <2> HIDE DEF r
  <2> QED
    BY <1>6, <2>6, <2>7, ServerContent
<1>7. CASE Finish(n)
  <2>1. handler[n] # "none"
    BY <1>7 DEF Finish, ContentInv, AheadInv, Answered
  <2> QED
    BY <1>6, <1>7, <2>1 DEF Finish
<1>8. CASE Panic(n)
  <2>1. PICK r : r = OuterProblem(n, "INTERNAL")
    OBVIOUS
  <2>2. handler'[n] = "panicked"
    BY <1>0, <1>8 DEF Panic
  <2>3. Applies("INTERNAL", n)'
    BY <2>2 DEF Applies
  <2>4. (call # Null => GoodBody(r)) /\ Documented(n, r)'
    BY <2>1, <2>3, ProblemContent DEF Code, Failure
  <2>5. answer' = answer \/ answer' = [answer EXCEPT ![n] = r]
    BY <1>8, <2>1 DEF Panic, Answers
  <2> QED
    BY <1>8, <2>4, <2>5, ServerContent DEF Panic, Handler
<1>9. CASE Deadline(n)
  <2>1. CASE answer' = [answer EXCEPT ![n] = OuterProblem(n, "TIMEOUT")]
    <3>1. PICK r : r = OuterProblem(n, "TIMEOUT")
      OBVIOUS
    <3>2. Applies("TIMEOUT", n)'
      BY DEF Applies
    <3>3. (call # Null => GoodBody(r)) /\ Documented(n, r)'
      BY <3>1, <3>2, ProblemContent DEF Code, Failure
    <3> QED
      BY <1>9, <2>1, <3>1, <3>3, ServerContent DEF Deadline
  <2>2. CASE answer[n].part = "head" /\ answer' = [answer EXCEPT ![n].part = "cut"]
    BY <1>6, <1>9, <2>2 DEF Deadline
  <2> QED
    BY <1>9, <2>1, <2>2 DEF Deadline
<1> QED
  BY <1>1, <1>2, <1>3, <1>4, <1>5, <1>7, <1>8, <1>9 DEF ServerStep

-----------------------------------------------------------------------------
LEMMA ContentInvariance == Spec => []ContentInv
<1>1. Init => ContentInv
  <2> SUFFICES ASSUME Init PROVE ContentInv
    OBVIOUS
  <2>1. call = Null /\ client = "idle" /\ \A n \in Attempt : handler[n] = "none" /\ ~Answered(n)
    BY DEF Init, Answered
  <2> QED
    BY <2>1 DEF ContentInv, RequestInv, AheadInv, BodyInv, OutcomeInv, DocumentInv
<1>2. Inv /\ ContentInv /\ [Next]_vars => ContentInv'
  <2> SUFFICES ASSUME Inv, ContentInv, [Next]_vars PROVE ContentInv'
    OBVIOUS
  <2>1. CASE PageStep
    BY <2>1, AskContent, RetryContent, TimerFiresContent, AbortContent, NetworkBreaksContent,
       HeadersArriveContent, BodyArrivesContent DEF PageStep
  <2>2. CASE UNCHANGED vars
    <3> USE <2>2 DEF vars, clientVars, serverVars
    <3>1. RequestInv'
      BY DEF ContentInv, RequestInv, Decodable
    <3>2. AheadInv'
      BY DEF ContentInv, AheadInv, Answered
    <3>3. BodyInv'
      BY DEF ContentInv, BodyInv, Answered, GoodBody
    <3>4. OutcomeInv'
      BY DEF ContentInv, OutcomeInv, GoodOutcome
    <3>5. DocumentInv'
      BY DocumentedStays DEF ContentInv, DocumentInv, Answered
    <3> QED
      BY <3>1, <3>2, <3>3, <3>4, <3>5 DEF ContentInv
  <2> QED
    BY <2>1, <2>2, AskOtherwiseContent, ServerStepContent DEF Next
<1> QED
  BY <1>1, <1>2, Invariance, PTL DEF Spec

(* Whatever is sent, by whomever, the server's answer is the row of         *)
(* docs/errors.md that applies to it, or a 200 when none does.              *)
THEOREM DocumentedCorrect == Spec => []AnswersAsDocumented
<1>1. ContentInv => AnswersAsDocumented
  <2> SUFFICES ASSUME ContentInv, NEW n \in Attempt, Answered(n), answer[n].requestId = n
               PROVE  CASE answer[n].status = 200 ->
                             \A code \in Code \ {"RATE_LIMITED", "TIMEOUT"} : ~Applies(code, n)
                        [] answer[n].status = 204 -> request.method = "OPTIONS"
                        [] OTHER -> /\ Applies(answer[n].body.code, n)
                                    /\ answer[n].status = Status(answer[n].body.code)
    BY DEF AnswersAsDocumented
  <2>1. Documented(n, answer[n])
    BY DEF ContentInv, DocumentInv
  <2>2. CASE answer[n].status = 200
    BY <2>1, <2>2 DEF Documented
  <2>3. CASE answer[n].status = 204
    BY <2>1, <2>3 DEF Documented
  <2>4. CASE answer[n].status \notin {200, 204}
    BY <2>1, <2>4 DEF Documented
  <2> QED
    BY <2>2, <2>3, <2>4
<1> QED
  BY <1>1, ContentInvariance, PTL

(* The engine's operations all have their keys, and the bar enables no key  *)
(* for anything else, whichever list of operations the page goes by.        *)
LEMMA BarIsRegistry ==
  ASSUME NEW list \in {FALLBACK_OPERATIONS, operations, NewerOperations}
  PROVE  LET enabled == {key.name : key \in {k \in OperationsBar(list, FALSE) : ~k.disabled}}
         IN  KEYPAD_OPERATIONS \cup enabled = Registry
<1> DEFINE bar == OperationsBar(list, FALSE)
           enabled == {key.name : key \in {k \in bar : ~k.disabled}}
           own == {"sqrt", "percent", "power"}
<1>1. /\ pressHandler("sqrt") # Null /\ pressHandler("percent") # Null /\ pressHandler("power") # Null
      /\ pressHandler("modulo") = Null
  BY CallAssumption DEF pressHandler
<1>2. \A o \in list : o.name \in Registry \cup {"modulo"}
  BY DEF FALLBACK_OPERATIONS, operations, NewerOperations, Registry, Binary
<1>3. \A name \in own : \E o \in list : o.name = name
  <2>1. \A name \in own : [name |-> name, arity |-> Arity(name)] \in operations
    BY DEF operations, Registry, Binary
  <2>2. /\ [name |-> "sqrt", arity |-> 1] \in FALLBACK_OPERATIONS
        /\ \A name \in {"percent", "power"} : [name |-> name, arity |-> 2] \in FALLBACK_OPERATIONS
    BY DEF FALLBACK_OPERATIONS
  <2>3. \A name \in own : \E arity : [name |-> name, arity |-> arity] \in list
    BY <2>1, <2>2 DEF NewerOperations
  <2>4. \A name, arity : [name |-> name, arity |-> arity].name = name
    OBVIOUS
  <2> QED
    BY <2>3, <2>4
<1>4. \A k \in bar : \E o \in list : /\ o.name \notin KEYPAD_OPERATIONS /\ k.name = o.name
                                     /\ k.disabled = (pressHandler(o.name) = Null)
  BY DEF OperationsBar
<1>5. \A o \in list : o.name \notin KEYPAD_OPERATIONS =>
        \E k \in bar : k.name = o.name /\ k.disabled = (pressHandler(o.name) = Null)
  <2> SUFFICES ASSUME NEW o \in list, o.name \notin KEYPAD_OPERATIONS
               PROVE  \E k \in bar : k.name = o.name /\ k.disabled = (pressHandler(o.name) = Null)
    OBVIOUS
  <2> DEFINE k == [name |-> o.name, press |-> pressHandler(o.name),
                   disabled |-> FALSE \/ pressHandler(o.name) = Null]
  <2>1. k \in bar
    BY DEF OperationsBar
  <2>2. k.name = o.name /\ k.disabled = (pressHandler(o.name) = Null)
    OBVIOUS
  <2> QED
    BY <2>1, <2>2
<1> HIDE DEF bar
<1>6. enabled \subseteq own
  BY <1>1, <1>2, <1>4 DEF Registry, Binary, KEYPAD_OPERATIONS
<1>7. own \subseteq enabled
  <2> SUFFICES ASSUME NEW name \in own PROVE name \in enabled
    OBVIOUS
  <2>1. PICK o \in list : o.name = name
    BY <1>3
  <2>2. name \notin KEYPAD_OPERATIONS /\ pressHandler(name) # Null
    BY <1>1 DEF KEYPAD_OPERATIONS
  <2>3. PICK k \in bar : k.name = name /\ k.disabled = (pressHandler(name) = Null)
    BY <1>5, <2>1, <2>2
  <2> QED
    BY <2>2, <2>3
<1>8. KEYPAD_OPERATIONS \cup own = Registry
  BY DEF KEYPAD_OPERATIONS, Registry, Binary
<1>9. KEYPAD_OPERATIONS \cup enabled = Registry
  BY <1>6, <1>7, <1>8
<1> QED
  BY <1>9 DEF bar

(* At every moment, and whatever has become of the query, the keypad and    *)
(* the enabled keys of the bar are the engine's operations, exactly.        *)
THEOREM KeysCorrect == Spec => []EveryOperationHasAKey
<1>1. Inv /\ ContentInv => EveryOperationHasAKey
  <2> SUFFICES ASSUME Inv, ContentInv PROVE EveryOperationHasAKey
    OBVIOUS
  <2> DEFINE list == IF call # Null /\ call.kind = "operations" THEN useOperations(result)
                     ELSE FALLBACK_OPERATIONS
  <2>1. list \in {FALLBACK_OPERATIONS, operations, NewerOperations}
    <3> SUFFICES ASSUME call # Null, call.kind = "operations", result # Null, result.ok
                 PROVE  result.value \in {operations, NewerOperations}
      BY DEF useOperations
    <3>1. [code |-> Null, value |-> result.value] \in Meaning(call)
      BY DEF ContentInv, OutcomeInv, GoodOutcome
    <3> QED
      BY <3>1 DEF Meaning
  <2> QED
    BY <2>1, BarIsRegistry DEF EveryOperationHasAKey
<1> QED
  BY <1>1, Invariance, ContentInvariance, PTL

-----------------------------------------------------------------------------
(* A call of the page is an evaluation: it is asked, and it ends once, with *)
(* what it means or with one of the failures.                               *)
LEMMA SettleIsAnEnd ==
  ASSUME call # Null, client \in {"sending", "reading", "waiting"}, NEW r, Settle(r), GoodOutcome(r)
  PROVE  Promise!Next \/ UNCHANGED Promise!absVars
<1>1. call' = call /\ result' = r /\ client' \in {"waiting", "settled"}
  BY DEF Settle
<1>2. CASE client' = "waiting"
  BY <1>1, <1>2 DEF Promise!absVars
<1>3. CASE client' = "settled" /\ [code |-> r.code, value |-> r.value] \in Meaning(call)
  BY <1>1, <1>3 DEF Promise!Next, Promise!Answer
<1>4. CASE client' = "settled" /\ [code |-> r.code, value |-> r.value] \in Failure
  BY <1>1, <1>4 DEF Promise!Next, Promise!Fail
<1> QED
  BY <1>1, <1>2, <1>3, <1>4 DEF GoodOutcome

LEMMA StepImplements ==
  ASSUME Inv, ContentInv, [Next]_vars
  PROVE  Promise!Next \/ UNCHANGED Promise!absVars
<1>1. CASE UNCHANGED clientVars
  BY <1>1 DEF clientVars, Promise!absVars
<1>2. CASE \E n \in Attempt : Proxy(n) \/ ServerStep(n)
  BY <1>1, <1>2 DEF Proxy, ServerStep, Limit, Preflight, Handle, Commit, Finish, Panic, Deadline
<1>3. ASSUME NEW r \in OtherRequest, AskOtherwise(r) PROVE UNCHANGED Promise!absVars
  BY <1>3, NobodyHasAnswered DEF AskOtherwise, Promise!absVars
<1>4. ASSUME NEW c \in Call, Ask(c) PROVE Promise!Next
  <2>1. call = Null /\ call' = c /\ client' = "sending"
    BY <1>4, NobodyHasAnswered DEF Ask, Send
  <2> QED
    BY <2>1 DEF Promise!Next, Promise!Ask
<1>5. CASE Retry
  <2>1. client = "waiting" /\ client' = "sending" /\ call' = call
    BY <1>5 DEF Retry, Send
  <2> QED
    BY <2>1 DEF Promise!absVars
<1>6. CASE TimerFires
  <2>1. client \in {"sending", "reading"} /\ Settle(rejection(timedOut', aborted'))
    BY <1>6 DEF TimerFires
  <2> QED
    BY <2>1, RejectionContent, SettleIsAnEnd DEF Inv, ClientInv
<1>7. CASE Abort
  <2>1. CASE client = "waiting"
    <3>1. GoodOutcome(result) /\ Settle(result) /\ call # Null
      BY <1>7, <2>1 DEF Abort, ContentInv, OutcomeInv
    <3> QED
      BY <2>1, <3>1, SettleIsAnEnd
  <2>2. CASE client # "waiting"
    BY <1>7, <2>2, RejectionContent, SettleIsAnEnd DEF Abort
  <2> QED
    BY <2>1, <2>2
<1>8. CASE NetworkBreaks
  <2>1. client \in {"sending", "reading"} /\ Settle(rejection(timedOut', aborted'))
    BY <1>8 DEF NetworkBreaks
  <2> QED
    BY <2>1, RejectionContent, SettleIsAnEnd DEF Inv, ClientInv
<1>9. CASE HeadersArrive
  <2>1. client = "sending" /\ call # Null
    BY <1>9 DEF HeadersArrive, Inv, ClientInv
  <2>2. CASE Settle(rejection(timedOut, aborted))
    BY <2>1, <2>2, RejectionContent, SettleIsAnEnd
  <2>3. CASE client' = "reading" /\ call' = call
    BY <2>1, <2>3 DEF Promise!absVars
  <2> QED
    BY <1>9, <2>2, <2>3 DEF HeadersArrive
<1>10. CASE BodyArrives
  <2>1. call # Null /\ client = "reading" /\ attempt \in Attempt /\ Answered(attempt)
    BY <1>10 DEF BodyArrives, Inv, ClientInv, Attempt, Answered
  <2>2. GoodBody(answer[attempt])
    BY <2>1 DEF ContentInv, BodyInv
  <2>3. CASE answer[attempt].part = "whole"
    BY <1>10, <2>1, <2>2, <2>3, AnswerContent, SettleIsAnEnd DEF BodyArrives
  <2>4. CASE answer[attempt].part # "whole"
    BY <1>10, <2>1, <2>4, RejectionContent, SettleIsAnEnd DEF BodyArrives
  <2> QED
    BY <2>3, <2>4
<1> QED
  BY <1>1, <1>2, <1>3, <1>4, <1>5, <1>6, <1>7, <1>8, <1>9, <1>10 DEF Next, PageStep, vars

(* Whatever the network, the server and the clock do, the page never takes  *)
(* for a result what its request does not mean, and a call ends once.       *)
THEOREM EvaluationCorrect == Spec => ImplementsEvaluation
<1>1. Init => Promise!Init
  BY DEF Init, Promise!Init
<1>2. Inv /\ ContentInv /\ [Next]_vars => [Promise!Next]_Promise!absVars
  BY StepImplements
<1> QED
  BY <1>1, <1>2, Invariance, ContentInvariance, PTL DEF Spec, ImplementsEvaluation, Promise!Spec
=============================================================================
