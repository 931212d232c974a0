----------------------------- MODULE DisplayProofs -----------------------------
(****************************************************************************)
(* What String(), toPrecision() and toExponential() print, Number() reads   *)
(* as the same number; what formatEntry groups, parseEntry reads as what    *)
(* was typed; and so the display tells the number the next key works with.  *)
(* JsNumber's functions go through a text digit by digit: what one computes *)
(* is shown by a closed form of the whole function, and by the least place  *)
(* at which two functions with the same equation could differ.              *)
(****************************************************************************)
EXTENDS Display, PageProofs, FiniteSetTheorems, WellFoundedInduction

-----------------------------------------------------------------------------
(* Least and greatest places of a text, and the digits.                     *)

(* A set of natural numbers has a least element.                            *)
LEMMA LeastPlace ==
  ASSUME NEW S \in SUBSET Nat, S # {}
  PROVE  \E m \in S : \A n \in S : m <= n
<1> DEFINE Below == {p \in Nat \X Nat : p[1] < p[2]}
<1>1. IsWellFoundedOn(Below, Nat)
  BY NatLessThanWellFounded DEF OpToRel
<1>2. PICK m \in S : \A n \in S : <<n, m>> \notin Below
  BY <1>1, WFMin
<1>3. ASSUME NEW n \in S PROVE m <= n
  <2>1. m \in Nat /\ n \in Nat
    OBVIOUS
  <2>2. ~ (n < m)
    BY <1>2, <2>1
  <2> QED BY <2>1, <2>2
<1> QED BY <1>3

(* The minimum of the library is the least element.                         *)
LEMMA SetsMin ==
  ASSUME NEW S \in SUBSET Nat, NEW m \in S, \A n \in S : m <= n
  PROVE  Sets!Min(S) = m
<1>1. \A x \in S : (\A y \in S : x <= y) => x = m
  OBVIOUS
<1>2. Sets!Min(S) \in S /\ \A y \in S : Sets!Min(S) <= y
  BY DEF Sets!Min
<1> QED
  BY <1>1, <1>2

(* The maximum of the library is the greatest element.                      *)
LEMMA SetsMax ==
  ASSUME NEW S \in SUBSET Nat, NEW m \in S, \A n \in S : n <= m
  PROVE  Sets!Max(S) = m
<1>1. \A x \in S : (\A y \in S : x >= y) => x = m
  OBVIOUS
<1>2. m \in S /\ \A y \in S : m >= y
  OBVIOUS
<1>3. Sets!Max(S) \in S /\ \A y \in S : Sets!Max(S) >= y
  BY <1>2, Zenon DEF Sets!Max
<1> QED
  BY <1>1, <1>3

(* So has one that is bounded a greatest.                                   *)
LEMMA GreatestPlace ==
  ASSUME NEW n \in Nat, NEW S \in SUBSET (1..n), S # {}
  PROVE  \E m \in S : \A i \in S : i <= m
<1> DEFINE Bounds == {k \in Nat : \A i \in S : i <= k}
<1>1. n \in Bounds
  OBVIOUS
<1>2. PICK m \in Bounds : \A k \in Bounds : m <= k
  BY <1>1, LeastPlace
<1>3. m \in S
  <2> SUFFICES ASSUME m \notin S PROVE FALSE
    OBVIOUS
  <2>1. m \in Nat /\ \A i \in S : i <= m
    BY <1>2
  <2>2. PICK s \in S : s \in 1..n
    OBVIOUS
  <2>3. m # 0
    BY ONLY <2>1, <2>2
  <2>4. PICK k \in Nat : k + 1 = m
    BY ONLY <2>1, <2>3, m - 1 \in Nat
  <2>5. \A i \in S : i <= k
    <3>1. \A i \in S : i \in Nat /\ i # m
      OBVIOUS
    <3> QED
      BY ONLY <2>1, <2>4, <3>1
  <2>6. m <= k
    BY <1>2, <2>5
  <2> QED
    BY ONLY <2>1, <2>4, <2>6
<1> QED
  BY <1>2, <1>3

(* The ten digits.                                                          *)
LEMMA TenDigits ==
  /\ DOMAIN JsDigits = 1..10
  /\ JsDigits[1] = "0" /\ JsDigits[2] = "1" /\ JsDigits[3] = "2" /\ JsDigits[4] = "3"
  /\ JsDigits[5] = "4" /\ JsDigits[6] = "5" /\ JsDigits[7] = "6" /\ JsDigits[8] = "7"
  /\ JsDigits[9] = "8" /\ JsDigits[10] = "9"
  /\ \A i, j \in 1..10 : JsDigits[i] = JsDigits[j] => i = j
BY DEF JsDigits

(* The digits of JsNumber are those of EntryText.                           *)
LEMMA DigitChars == JsDigitChar = DigitChar
BY TenDigits DEF JsDigitChar, DigitChar

(* The place of a digit in the table is its value.                          *)
LEMMA DigitValue ==
  /\ \A i \in 1..10 : JsDigitValue(JsDigits[i]) = i - 1
  /\ \A c \in DigitChar : JsDigitValue(c) \in 0..9 /\ JsDigits[JsDigitValue(c) + 1] = c
  /\ \A c \in DigitChar : JsDigitValue(c) = 9 <=> c = "9"
<1>1. ASSUME NEW i \in 1..10 PROVE JsDigitValue(JsDigits[i]) = i - 1
  <2> DEFINE j == CHOOSE j \in 1..10 : JsDigits[j] = JsDigits[i]
  <2>1. j \in 1..10 /\ JsDigits[j] = JsDigits[i]
    OBVIOUS
  <2>2. j = i
    BY <2>1, TenDigits
  <2> QED
    BY <2>2 DEF JsDigitValue
<1>2. ASSUME NEW c \in DigitChar
      PROVE  /\ JsDigitValue(c) \in 0..9 /\ JsDigits[JsDigitValue(c) + 1] = c
             /\ JsDigitValue(c) = 9 <=> c = "9"
  <2>1. PICK i \in 1..10 : JsDigits[i] = c
    BY DigitChars DEF JsDigitChar
  <2>2. JsDigitValue(c) = i - 1
    BY <1>1, <2>1
  <2>3. i = 10 <=> c = "9"
    BY <2>1, TenDigits
  <2> QED
    BY <2>1, <2>2, <2>3
<1> QED
  BY <1>1, <1>2

-----------------------------------------------------------------------------
(* Where a text is cut, and the number its digits make.                     *)

(* The place of a character, by where it is first.                          *)
LEMMA PlaceFound ==
  ASSUME NEW t, Len(t) \in Nat, NEW c, NEW i \in 1..Len(t), t[i] = c, \A j \in 1..(i - 1) : t[j] # c
  PROVE  JsPlace(t, c) = i
<1> DEFINE p == JsPlace(t, c)
<1>1. i \in 1..(Len(t) + 1)
  OBVIOUS
<1>2. p \in 1..(Len(t) + 1) /\ (p <= Len(t) => t[p] = c) /\ \A j \in 1..(p - 1) : t[j] # c
  BY <1>1 DEF JsPlace
<1> HIDE DEF p
<1>3. ~ (i < p)
  BY <1>2
<1>4. ~ (p < i)
  BY <1>2
<1> QED
  BY <1>2, <1>3, <1>4 DEF p

(* JsPlace is behind the end of a text without the character.               *)
LEMMA PlaceMissing ==
  ASSUME NEW t, Len(t) \in Nat, NEW c, \A j \in 1..Len(t) : t[j] # c
  PROVE  JsPlace(t, c) = Len(t) + 1
<1> DEFINE p == JsPlace(t, c)
<1>1. Len(t) + 1 \in 1..(Len(t) + 1)
  OBVIOUS
<1>2. p \in 1..(Len(t) + 1) /\ (p <= Len(t) => t[p] = c) /\ \A j \in 1..(p - 1) : t[j] # c
  BY <1>1 DEF JsPlace
<1> HIDE DEF p
<1>3. ~ (p <= Len(t))
  BY <1>2
<1> QED
  BY <1>2, <1>3 DEF p

Joined(a, c, b) == a \o <<c>> \o b

(* A text falls into what is before the character and what is after it.     *)
LEMMA SplitAt ==
  ASSUME NEW a \in Seq(EntryChar), NEW b \in Seq(EntryChar), NEW c \in EntryChar, \A i \in DOMAIN a : a[i] # c
  PROVE  /\ JsBefore(Joined(a, c, b), c) = a /\ JsAfter(Joined(a, c, b), c) = b
         /\ JsPlace(Joined(a, c, b), c) = Len(a) + 1
<1>0. PICK t : t = a \o <<c>> \o b
  OBVIOUS
<1>1. /\ t \in Seq(EntryChar) /\ Len(t) = Len(a) + 1 + Len(b) /\ Len(a) \in Nat /\ Len(b) \in Nat
      /\ DOMAIN a = 1..Len(a)
      /\ \A i \in 1..Len(a) : t[i] = a[i]
      /\ t[Len(a) + 1] = c
      /\ \A i \in 1..Len(b) : t[Len(a) + 1 + i] = b[i]
  BY <1>0
<1>2. JsPlace(t, c) = Len(a) + 1
  <2>1. /\ Len(t) \in Nat /\ Len(a) + 1 \in 1..Len(t) /\ t[Len(a) + 1] = c
    BY <1>1
  <2>2. \A j \in 1..((Len(a) + 1) - 1) : t[j] # c
    <3>1. (Len(a) + 1) - 1 = Len(a)
      BY <1>1
    <3>2. \A j \in 1..Len(a) : t[j] # c
      BY <1>1
    <3> QED
      BY <3>1, <3>2
  <2> QED
    BY <2>1, <2>2, PlaceFound
<1>3. SubSeq(t, 1, Len(a)) = a
  BY <1>1
<1>4. SubSeq(t, Len(a) + 2, Len(t)) = b
  <2>1. PICK u : u = SubSeq(t, Len(a) + 2, Len(t))
    OBVIOUS
  <2>2. /\ u \in Seq(EntryChar) /\ Len(u) = Len(b)
        /\ \A i \in 1..Len(b) : u[i] = t[(Len(a) + 2) + i - 1]
    BY <1>1, <2>1
  <2>3. \A i \in 1..Len(b) : (Len(a) + 2) + i - 1 = Len(a) + 1 + i
    BY <1>1
  <2>4. \A i \in 1..Len(b) : u[i] = b[i]
    BY <1>1, <2>2, <2>3
  <2>5. u = b
    BY <2>2, <2>4
  <2> QED
    BY <2>1, <2>5
<1>5. JsPlace(t, c) - 1 = Len(a) /\ JsPlace(t, c) + 1 = Len(a) + 2
  BY <1>1, <1>2
<1> QED
  BY <1>0, <1>1, <1>2, <1>3, <1>4, <1>5 DEF JsBefore, JsAfter, Joined

(* Its length and its characters.                                           *)
Parts(t, a, c, b) ==
  /\ t \in Seq(EntryChar) /\ t # <<>> /\ Len(t) = Len(a) + 1 + Len(b)
  /\ \A i \in 1..Len(a) : t[i] = a[i]
  /\ t[Len(a) + 1] = c
  /\ \A i \in 1..Len(b) : t[Len(a) + 1 + i] = b[i]

(* A joined text has the characters of its parts.                           *)
LEMMA JoinedParts ==
  ASSUME NEW a \in Seq(EntryChar), NEW b \in Seq(EntryChar), NEW c \in EntryChar
  PROVE  Parts(Joined(a, c, b), a, c, b)
<1>1. PICK t : t = a \o <<c>> \o b
  OBVIOUS
<1>2. /\ t \in Seq(EntryChar) /\ Len(t) = Len(a) + 1 + Len(b) /\ t # <<>>
      /\ \A i \in 1..Len(a) : t[i] = a[i]
      /\ t[Len(a) + 1] = c
      /\ \A i \in 1..Len(b) : t[Len(a) + 1 + i] = b[i]
  BY <1>1
<1> QED
  BY <1>1, <1>2 DEF Joined, Parts

(* A text without the character is all before it.                           *)
LEMMA NoSplit ==
  ASSUME NEW t \in Seq(EntryChar), NEW c, \A i \in DOMAIN t : t[i] # c
  PROVE  JsBefore(t, c) = t /\ JsAfter(t, c) = <<>> /\ JsPlace(t, c) = Len(t) + 1
<1>1. JsPlace(t, c) = Len(t) + 1
  BY PlaceMissing
<1>2. SubSeq(t, 1, Len(t)) = t /\ SubSeq(t, Len(t) + 2, Len(t)) = <<>>
  OBVIOUS
<1> QED
  BY <1>1, <1>2 DEF JsBefore, JsAfter

(* The value of a text of digits, by the values of what it begins with.     *)
LEMMA IntBySteps ==
  ASSUME NEW t \in Seq(DigitChar), NEW w, w = [i \in 0..Len(t) |-> w[i]], w[0] = 0,
         \A i \in 1..Len(t) : w[i] = 10 * w[i - 1] + JsDigitValue(t[i])
  PROVE  JsInt(t) = w[Len(t)]
<1> DEFINE n == Len(t)
           Step(v) == v = [i \in 0..n |-> IF i = 0 THEN 0 ELSE 10 * v[i - 1] + JsDigitValue(t[i])]
           v == CHOOSE v : Step(v)
<1>1. n \in Nat
  OBVIOUS
<1>2. Step(w)
  <2>1. ASSUME NEW i \in 0..n
        PROVE  w[i] = IF i = 0 THEN 0 ELSE 10 * w[i - 1] + JsDigitValue(t[i])
    <3>1. CASE i = 0
      BY <3>1
    <3>2. CASE i # 0
      <4>1. i \in 1..Len(t)
        BY <1>1, <3>2
      <4> QED
        BY <3>2, <4>1
    <3> QED
      BY <3>1, <3>2
  <2> QED
    BY <2>1, Zenon
<1>3. Step(v)
  BY <1>2
<1> HIDE DEF v
<1>4. v[0] = 0 /\ \A i \in 1..n : v[i] = 10 * v[i - 1] + JsDigitValue(t[i])
  BY <1>1, <1>3
<1>5. ASSUME \E i \in 0..n : v[i] # w[i] PROVE FALSE
  <2> DEFINE S == {i \in 0..n : v[i] # w[i]}
  <2>1. S \in SUBSET Nat /\ S # {}
    BY <1>5
  <2>2. PICK m \in S : \A i \in S : m <= i
    BY <2>1, LeastPlace
  <2>3. m # 0 /\ m \in 0..n
    BY <1>4
  <2>4. v[m - 1] = w[m - 1]
    BY <2>2, <2>3
  <2>5. m \in 1..n /\ v[m] # w[m]
    BY <1>1, <2>3
  <2>6. v[m] = 10 * v[m - 1] + JsDigitValue(t[m]) /\ w[m] = 10 * w[m - 1] + JsDigitValue(t[m])
    BY <1>4, <2>5
  <2> QED
    BY <2>4, <2>5, <2>6
<1>6. v[n] = w[n]
  BY <1>1, <1>5
<1> QED
  BY <1>6 DEF JsInt, v

(* Of up to three digits.                                                   *)
LEMMA IntOfThree ==
  ASSUME NEW t \in Seq(DigitChar), Len(t) \in 0..3
  PROVE  /\ Len(t) = 0 => JsInt(t) = 0
         /\ Len(t) = 1 => JsInt(t) = JsDigitValue(t[1])
         /\ Len(t) = 2 => JsInt(t) = 10 * JsDigitValue(t[1]) + JsDigitValue(t[2])
         /\ Len(t) = 3 => JsInt(t) = 100 * JsDigitValue(t[1]) + 10 * JsDigitValue(t[2])
                                     + JsDigitValue(t[3])
<1> DEFINE w == [i \in 0..Len(t) |->
                   IF i = 0 THEN 0
                   ELSE IF i = 1 THEN JsDigitValue(t[1])
                   ELSE IF i = 2 THEN 10 * JsDigitValue(t[1]) + JsDigitValue(t[2])
                   ELSE 100 * JsDigitValue(t[1]) + 10 * JsDigitValue(t[2]) + JsDigitValue(t[3])]
<1>1. Len(t) \in {0, 1, 2, 3}
  OBVIOUS
<1>2. \A i \in 1..Len(t) : JsDigitValue(t[i]) \in Int
  BY DigitValue
<1>3. \A i \in 1..Len(t) : w[i] = 10 * w[i - 1] + JsDigitValue(t[i])
  <2>1. CASE Len(t) = 0
    BY <2>1
  <2>2. CASE Len(t) = 1
    BY <1>2, <2>2
  <2>3. CASE Len(t) = 2
    BY <1>2, <2>3
  <2>4. CASE Len(t) = 3
    BY <1>2, <2>4
  <2> QED
    BY <1>1, <2>1, <2>2, <2>3, <2>4
<1>4. w[0] = 0 /\ w = [i \in 0..Len(t) |-> w[i]]
  <2>1. 0 \in 0..Len(t)
    BY <1>1
  <2> QED
    BY <2>1
<1>5. JsInt(t) = w[Len(t)]
  <2> HIDE DEF w
  <2> QED
    BY <1>3, <1>4, IntBySteps
<1> QED
  BY <1>1, <1>5

(* An exponent is read back as it was written.                              *)
LEMMA DecimalValue ==
  ASSUME NEW n \in 0..999
  PROVE  /\ JsDecimal(n) \in Seq(DigitChar) /\ JsDecimal(n) # <<>>
         /\ JsInt(JsDecimal(n)) = n
<1> DEFINE d(k) == JsDigits[(k % 10) + 1]
<1>1. \A k \in Nat : d(k) \in DigitChar /\ JsDigitValue(d(k)) = k % 10
  <2> SUFFICES ASSUME NEW k \in Nat PROVE d(k) \in DigitChar /\ JsDigitValue(d(k)) = k % 10
    OBVIOUS
  <2>1. (k % 10) + 1 \in 1..10 /\ ((k % 10) + 1) - 1 = k % 10
    OBVIOUS
  <2> QED
    BY <2>1, DigitValue, DigitChars DEF JsDigitChar
<1>2. PICK x \in Nat, y \in Nat : x = n \div 100 /\ y = n \div 10
  OBVIOUS
<1>3. /\ n = 100 * (x % 10) + 10 * (y % 10) + (n % 10)
      /\ n < 100 => n = 10 * (y % 10) + (n % 10)
      /\ n < 10 => n = n % 10
  BY <1>2
<1>4. PICK a \in DigitChar, b \in DigitChar, c \in DigitChar : a = d(x) /\ b = d(y) /\ c = d(n)
  BY <1>1
<1>5. JsDigitValue(a) = x % 10 /\ JsDigitValue(b) = y % 10 /\ JsDigitValue(c) = n % 10
  BY <1>1, <1>4
<1>6. JsDecimal(n) = IF n < 10 THEN <<c>> ELSE IF n < 100 THEN <<b, c>> ELSE <<a, b, c>>
  BY <1>2, <1>4 DEF JsDecimal
<1>7. PICK t : t = JsDecimal(n)
  OBVIOUS
<1>8. CASE n < 10
  <2>1. t \in Seq(DigitChar) /\ Len(t) = 1 /\ t[1] = c /\ t # <<>> /\ Len(t) \in 0..3
    BY <1>6, <1>7, <1>8
  <2>2. JsInt(t) = JsDigitValue(c)
    BY <2>1, IntOfThree
  <2> QED
    BY <1>3, <1>5, <1>7, <1>8, <2>1, <2>2
<1>9. CASE n >= 10 /\ n < 100
  <2>1. t \in Seq(DigitChar) /\ Len(t) = 2 /\ t[1] = b /\ t[2] = c /\ t # <<>> /\ Len(t) \in 0..3
    BY <1>6, <1>7, <1>9
  <2>2. JsInt(t) = 10 * JsDigitValue(b) + JsDigitValue(c)
    BY <2>1, IntOfThree
  <2> QED
    BY <1>3, <1>5, <1>7, <1>9, <2>1, <2>2
<1>10. CASE n >= 100
  <2>1. t \in Seq(DigitChar) /\ Len(t) = 3 /\ t[1] = a /\ t[2] = b /\ t[3] = c /\ t # <<>> /\ Len(t) \in 0..3
    BY <1>6, <1>7, <1>10
  <2>2. JsInt(t) = 100 * JsDigitValue(a) + 10 * JsDigitValue(b) + JsDigitValue(c)
    BY <2>1, IntOfThree
  <2> QED
    BY <1>3, <1>5, <1>7, <1>10, <2>1, <2>2
<1> QED
  BY <1>8, <1>9, <1>10

(* No digits are zero.                                                      *)
LEMMA NoInt == JsInt(<<>>) = 0
<1>1. <<>> \in Seq(DigitChar) /\ Len(<<>>) = 0
  OBVIOUS
<1>2. PICK t : t = <<>>
  OBVIOUS
<1>3. t \in Seq(DigitChar) /\ Len(t) = 0 /\ Len(t) \in 0..3
  BY <1>1, <1>2
<1>4. JsInt(t) = 0
  BY ONLY <1>3, IntOfThree
<1> QED
  BY <1>2, <1>4

(* What trimming the zeros leaves, by the first and last other digit.       *)
LEMMA RoundTrimmed ==
  ASSUME NEW neg, NEW t \in Seq(DigitChar), NEW p \in Int,
         NEW a \in 1..Len(t), NEW b \in 1..Len(t), t[a] # "0", t[b] # "0",
         \A i \in 1..Len(t) : t[i] # "0" => a <= i /\ i <= b
  PROVE  JsRound(neg, t, p) =
           IF p - a + 1 < -TinyPoint THEN JsFinite(neg, <<>>, 0)
           ELSE IF p - a + 1 > MaxPoint THEN JsInfinity(neg)
           ELSE JsFinite(neg, SubSeq(t, a, b), p - a + 1)
<1> DEFINE nonzero == {i \in DOMAIN t : t[i] # "0"}
<1>1. nonzero \in SUBSET Nat /\ a \in nonzero /\ b \in nonzero /\ \A i \in nonzero : a <= i /\ i <= b
  OBVIOUS
<1>2. Sets!Min(nonzero) = a /\ Sets!Max(nonzero) = b
  <2> HIDE DEF nonzero
  <2> QED
    BY <1>1, SetsMin, SetsMax
<1>3. nonzero # {}
  BY <1>1
<1> QED
  BY <1>2, <1>3 DEF JsRound

(* Digits that are all zero make a zero.                                    *)
LEMMA RoundZeros ==
  ASSUME NEW neg, NEW t, NEW p, \A i \in DOMAIN t : t[i] = "0"
  PROVE  JsRound(neg, t, p) = JsFinite(neg, <<>>, 0)
<1>1. {i \in DOMAIN t : t[i] # "0"} = {}
  OBVIOUS
<1> QED
  BY <1>1 DEF JsRound

(* The fields of a finite number; it is no infinity and no NaN.             *)
LEMMA FiniteFacts ==
  ASSUME NEW neg, NEW digits, NEW point
  PROVE  LET x == JsFinite(neg, digits, point)
         IN  /\ x.kind = "finite" /\ x.neg = neg /\ x.digits = digits /\ x.point = point
             /\ x \notin JsNonFinite /\ \A sign : x # JsInfinity(sign)
BY DEF JsFinite, JsNonFinite, JsNaN, JsInfinity

(* Either zero is a number.                                                 *)
LEMMA ZeroIsNumber ==
  ASSUME NEW neg \in BOOLEAN
  PROVE  IsJsNumber(JsFinite(neg, <<>>, 0))
<1>1. PICK none \in Seq(JsDigitChar) : none = <<>>
  <2>1. <<>> \in Seq(JsDigitChar)
    OBVIOUS
  <2> QED
    BY <2>1, Zenon
<1>2. PICK x : x = JsFinite(neg, none, 0)
  OBVIOUS
<1>3. x.neg = neg /\ x.digits = none /\ x.point = 0
  BY <1>2, FiniteFacts
<1>4. x = JsFinite(x.neg, x.digits, x.point) /\ x.neg \in BOOLEAN
  BY <1>2, <1>3
<1>5. x.digits \in Seq(JsDigitChar) /\ x.digits = <<>> /\ x.point = 0 /\ x.point \in Int
  BY <1>1, <1>3
<1>6. IsJsNumber(x)
  BY <1>4, <1>5, Zenon DEF IsJsNumber
<1> QED
  BY <1>1, <1>2, <1>6

(* Rounding gives a number, an infinite one only when the point is beyond   *)
(* the range; a first digit other than zero stays where it is.              *)
LEMMA RoundForm ==
  ASSUME NEW neg \in BOOLEAN, NEW t \in Seq(DigitChar), NEW p \in Int
  PROVE  /\ IsJsNumber(JsRound(neg, t, p))
         /\ p <= MaxPoint => JsRound(neg, t, p) \notin JsNonFinite
         /\ t # <<>> /\ t[1] # "0" /\ p \in -TinyPoint..MaxPoint =>
              JsRound(neg, t, p).digits # <<>> /\ JsRound(neg, t, p).point = p
<1> DEFINE nonzero == {i \in 1..Len(t) : t[i] # "0"}
<1>1. CASE nonzero = {}
  <2>1. JsRound(neg, t, p) = JsFinite(neg, <<>>, 0)
    BY <1>1, RoundZeros
  <2>2. t # <<>> => t[1] = "0"
    BY <1>1
  <2> QED
    BY <2>1, <2>2, ZeroIsNumber, FiniteFacts
<1>2. CASE nonzero # {}
  <2>1. nonzero \in SUBSET Nat /\ Len(t) \in Nat /\ nonzero \in SUBSET (1..Len(t))
    OBVIOUS
  <2>2. PICK a \in nonzero : \A i \in nonzero : a <= i
    BY <1>2, <2>1, LeastPlace
  <2>3. PICK b \in nonzero : \A i \in nonzero : i <= b
    BY <1>2, <2>1, GreatestPlace
  <2>4. /\ a \in 1..Len(t) /\ b \in 1..Len(t) /\ t[a] # "0" /\ t[b] # "0" /\ a <= b
        /\ \A i \in 1..Len(t) : t[i] # "0" => a <= i /\ i <= b
    BY <2>2, <2>3
  <2>5. t # <<>> /\ t[1] # "0" => a = 1
    BY <2>4
  <2> HIDE DEF nonzero
  <2> DEFINE u == SubSeq(t, a, b)
             q == p - a + 1
  <2>6. JsRound(neg, t, p) = IF q < -TinyPoint THEN JsFinite(neg, <<>>, 0)
                             ELSE IF q > MaxPoint THEN JsInfinity(neg)
                             ELSE JsFinite(neg, u, q)
    BY <2>4, RoundTrimmed
  <2>7. /\ u \in Seq(DigitChar) /\ Len(u) = b - a + 1 /\ u # <<>>
        /\ u[1] = t[a] /\ u[Len(u)] = t[b]
    <3>1. /\ u \in Seq(DigitChar) /\ Len(u) = b - a + 1
          /\ \A i \in 1..(b - a + 1) : u[i] = t[a + i - 1]
      BY <2>4
    <3>2. /\ 1 \in 1..(b - a + 1) /\ b - a + 1 \in 1..(b - a + 1)
          /\ a + 1 - 1 = a /\ a + (b - a + 1) - 1 = b
      BY <2>4
    <3> HIDE DEF u
    <3>3. u[1] = t[a + 1 - 1] /\ u[b - a + 1] = t[a + (b - a + 1) - 1]
      BY <3>1, <3>2
    <3>4. u # <<>>
      BY <2>4, <3>1
    <3> QED
      BY <3>1, <3>2, <3>3, <3>4
  <2>8. q \in Int /\ (a = 1 => q = p) /\ q <= p /\ TinyPoint \in Int /\ MaxPoint \in Int
    BY <2>4, JsRangeAssumption
  <2> HIDE DEF u, q
  <2>9. CASE q < -TinyPoint
    BY <2>5, <2>6, <2>8, <2>9, ZeroIsNumber, FiniteFacts
  <2>10. CASE ~ (q < -TinyPoint) /\ q > MaxPoint
    <3>1. JsRound(neg, t, p) = JsInfinity(neg) /\ ~ (p <= MaxPoint)
      BY <2>6, <2>8, <2>10
    <3>2. JsInfinity(neg) \in JsNonFinite
      BY DEF JsNonFinite
    <3>3. ~ (p \in -TinyPoint..MaxPoint)
      BY <3>1, <2>8
    <3> QED
      BY <3>1, <3>2, <3>3 DEF IsJsNumber
  <2>11. CASE ~ (q < -TinyPoint) /\ ~ (q > MaxPoint)
    <3>1. PICK x : x = JsFinite(neg, u, q)
      OBVIOUS
    <3>2. /\ JsRound(neg, t, p) = x /\ x.neg = neg /\ x.digits = u /\ x.point = q
          /\ x \notin JsNonFinite /\ q \in -TinyPoint..MaxPoint
      BY <2>6, <2>8, <2>11, <3>1, FiniteFacts
    <3>3. "0" \notin {u[1], u[Len(u)]}
      BY <2>4, <2>7
    <3>4. IsJsNumber(x)
      BY <2>7, <2>8, <3>1, <3>2, <3>3, DigitChars DEF IsJsNumber
    <3> QED
      BY <2>5, <2>7, <2>8, <3>2, <3>4
  <2> QED
    BY <2>9, <2>10, <2>11
<1> QED
  BY <1>1, <1>2
-----------------------------------------------------------------------------
(* The texts of finite numbers.  The mantissa of one: digits, and others    *)
(* behind a point when it has one.                                          *)
Mantissa(m, int, frac) ==
  /\ int \in Seq(DigitChar) /\ frac \in Seq(DigitChar) /\ int # <<>>
  /\ (m = int /\ frac = <<>>) \/ m = Joined(int, ".", frac)

Sign(neg) == IF neg THEN <<"-">> ELSE <<>>

(* Cutting a mantissa at its point gives its two parts back.                *)
LEMMA MantissaParts ==
  ASSUME NEW m, NEW int, NEW frac, Mantissa(m, int, frac)
  PROVE  /\ JsBefore(m, ".") = int /\ JsAfter(m, ".") = frac
         /\ m \in Seq(EntryChar) /\ m # <<>> /\ m[1] = int[1] /\ m[1] \in DigitChar
         /\ \A i \in DOMAIN m : m[i] \in DigitChar \cup {"."}
<1>1. /\ int \in Seq(DigitChar) /\ frac \in Seq(DigitChar) /\ int # <<>> /\ Len(int) >= 1
      /\ int \in Seq(EntryChar) /\ frac \in Seq(EntryChar) /\ "." \in EntryChar
      /\ \A i \in DOMAIN int : int[i] # "."
  BY DEF Mantissa, DigitChar, EntryChar
<1>2. CASE m = int /\ frac = <<>>
  <2>1. JsBefore(m, ".") = int /\ JsAfter(m, ".") = <<>>
    BY <1>1, <1>2, NoSplit
  <2> QED
    BY <1>1, <1>2, <2>1
<1>3. CASE m = Joined(int, ".", frac)
  <2>1. JsBefore(m, ".") = int /\ JsAfter(m, ".") = frac
    BY <1>1, <1>3, SplitAt
  <2>2. /\ m \in Seq(EntryChar) /\ m # <<>> /\ Len(m) = Len(int) + 1 + Len(frac)
        /\ \A i \in 1..Len(int) : m[i] = int[i]
        /\ m[Len(int) + 1] = "."
        /\ \A i \in 1..Len(frac) : m[Len(int) + 1 + i] = frac[i]
    <3>1. Parts(m, int, ".", frac)
      BY <1>1, <1>3, JoinedParts
    <3> QED
      BY <3>1 DEF Parts
  <2>3. m[1] = int[1] /\ int[1] \in DigitChar
    BY <1>1, <2>2
  <2>4. ASSUME NEW i \in DOMAIN m PROVE m[i] \in DigitChar \cup {"."}
    <3>1. i \in Nat /\ 1 <= i /\ i <= Len(int) + 1 + Len(frac) /\ Len(int) \in Nat /\ Len(frac) \in Nat
      BY <1>1, <2>2
    <3>2. CASE i <= Len(int)
      BY <1>1, <2>2, <3>1, <3>2
    <3>3. CASE i > Len(int) + 1
      <4>1. i - Len(int) - 1 \in 1..Len(frac) /\ Len(int) + 1 + (i - Len(int) - 1) = i
        BY <3>1, <3>3
      <4>2. m[i] = frac[i - Len(int) - 1]
        BY <2>2, <4>1
      <4> QED
        BY <1>1, <4>1, <4>2
    <3>4. CASE i = Len(int) + 1
      BY <2>2, <3>4
    <3> QED
      BY <3>1, <3>2, <3>3, <3>4
  <2> QED
    BY <2>1, <2>2, <2>3, <2>4
<1> QED
  BY <1>2, <1>3 DEF Mantissa

(* The sign is read off the text, and what is left is the body.             *)
LEMMA SignParts ==
  ASSUME NEW neg \in BOOLEAN, NEW body \in Seq(EntryChar), body # <<>>, body[1] \in DigitChar,
         NEW t, t = Sign(neg) \o body
  PROVE  /\ JsUnsigned(t) = body /\ neg = (JsSigned(t) /\ t[1] = "-")
         /\ t # <<>> /\ (t[1] = "-" <=> neg)
<1>1. body[1] \notin {"-", "+"}
  BY DEF DigitChar
<1>2. CASE neg
  <2>1. t = <<"-">> \o body
    BY <1>2 DEF Sign
  <2>2. t # <<>> /\ t[1] = "-" /\ Tail(t) = body
    BY <2>1
  <2> QED
    BY <1>2, <2>2 DEF JsSigned, JsUnsigned
<1>3. CASE ~neg
  <2>1. t = <<>> \o body
    BY <1>3 DEF Sign
  <2>2. t = body
    BY <2>1
  <2> QED
    BY <1>1, <1>3, <2>2 DEF JsSigned, JsUnsigned
<1> QED
  BY <1>2, <1>3

(* A text of digits has no sign.                                            *)
LEMMA DigitsOnly ==
  ASSUME NEW t \in Seq(DigitChar)
  PROVE  JsAllDigits(t) /\ JsUnsigned(t) = t /\ ~JsSigned(t)
<1>1. \A i \in DOMAIN t : t[i] \in DigitChar
  OBVIOUS
<1>2. t # <<>> => t[1] \in DigitChar
  OBVIOUS
<1>3. "-" \notin DigitChar /\ "+" \notin DigitChar
  BY DEF DigitChar
<1> QED
  BY <1>1, <1>2, <1>3, DigitChars DEF JsAllDigits, JsSigned, JsUnsigned

(* A text without an exponent is the number its digits make.                *)
LEMMA ParsePlain ==
  ASSUME NEW neg, neg \in BOOLEAN, NEW m, NEW int, NEW frac, Mantissa(m, int, frac),
         NEW t, t = Sign(neg) \o m
  PROVE  JsNumberOf(t) = JsRound(neg, int \o frac, Len(int))
<1>1. /\ JsBefore(m, ".") = int /\ JsAfter(m, ".") = frac
      /\ m \in Seq(EntryChar) /\ m # <<>> /\ m[1] \in DigitChar
      /\ \A i \in DOMAIN m : m[i] # "e"
  BY MantissaParts DEF DigitChar
<1>2. JsUnsigned(t) = m /\ (JsSigned(t) /\ t[1] = "-") = neg
  BY <1>1, SignParts
<1>3. JsBefore(m, "e") = m /\ JsAfter(m, "e") = <<>> /\ JsPlace(m, "e") = Len(m) + 1
  BY <1>1, NoSplit
<1>4. m # <<"Infinity">>
  BY <1>1 DEF DigitChar
<1>5. int \in Seq(DigitChar) /\ frac \in Seq(DigitChar) /\ int # <<>> /\ int \o frac # <<>>
  BY DEF Mantissa
<1>6. JsAllDigits(int) /\ JsAllDigits(frac) /\ JsAllDigits(<<>>) /\ JsUnsigned(<<>>) = <<>>
      /\ ~JsSigned(<<>>)
  <2>1. <<>> \in Seq(DigitChar)
    OBVIOUS
  <2> QED
    BY <1>5, <2>1, DigitsOnly
<1>7. ~ (JsPlace(m, "e") <= Len(m)) /\ Len(int) + 0 = Len(int)
  BY <1>1, <1>3, <1>5
<1> QED
  BY <1>1, <1>2, <1>3, <1>4, <1>5, <1>6, <1>7, NoInt DEF JsNumberOf

(* One with an exponent has its point moved by it.                          *)
ExponentText(neg, m, s, k) == Sign(neg) \o Joined(m, "e", <<s>> \o JsDecimal(k))

ExponentParts(m, int, frac, s, k, p) ==
  /\ Mantissa(m, int, frac) /\ s \in {"-", "+"} /\ k \in 0..999
  /\ p = IF s = "-" THEN -k ELSE k

(* JsNumberOf of a text with an exponent moves the point by it.             *)
LEMMA ParseExponential ==
  ASSUME NEW neg, neg \in BOOLEAN, NEW m, NEW int, NEW frac, NEW s, NEW k, NEW p,
         ExponentParts(m, int, frac, s, k, p)
  PROVE  JsNumberOf(ExponentText(neg, m, s, k)) = JsRound(neg, int \o frac, Len(int) + p)
<1>t. PICK t : t = ExponentText(neg, m, s, k)
  OBVIOUS
<1>0. /\ Mantissa(m, int, frac) /\ s \in {"-", "+"} /\ k \in 0..999
      /\ p = (IF s = "-" THEN -k ELSE k)
      /\ t = Sign(neg) \o Joined(m, "e", <<s>> \o JsDecimal(k))
  BY <1>t DEF ExponentParts, ExponentText
<1>1. /\ JsBefore(m, ".") = int /\ JsAfter(m, ".") = frac
      /\ m \in Seq(EntryChar) /\ m # <<>> /\ m[1] \in DigitChar
      /\ \A i \in DOMAIN m : m[i] # "e"
  BY <1>0, MantissaParts DEF DigitChar
<1>2. PICK dec \in Seq(DigitChar) : dec = JsDecimal(k) /\ dec # <<>> /\ JsInt(dec) = k
  BY <1>0, DecimalValue, ZenonT(60)
<1>3. PICK exp : exp = <<s>> \o dec
  OBVIOUS
<1>4. exp \in Seq(EntryChar) /\ exp # <<>> /\ exp[1] = s /\ Tail(exp) = dec
  BY <1>0, <1>3 DEF EntryChar
<1>5. JsSigned(exp) /\ JsUnsigned(exp) = dec
  BY <1>0, <1>4 DEF JsSigned, JsUnsigned
<1>7. PICK body : body = Joined(m, "e", exp)
  OBVIOUS
<1>8. JsBefore(body, "e") = m /\ JsAfter(body, "e") = exp
  <2>1. "e" \in EntryChar
    BY DEF EntryChar
  <2> QED
    BY <1>1, <1>4, <1>7, <2>1, SplitAt
<1>9. body \in Seq(EntryChar) /\ body # <<>> /\ body[1] = m[1]
  <2>1. "e" \in EntryChar
    BY DEF EntryChar
  <2>2. Parts(body, m, "e", exp)
    BY <1>1, <1>4, <1>7, <2>1, JoinedParts
  <2>3. 1 \in 1..Len(m)
    BY <1>1
  <2> QED
    BY <2>2, <2>3 DEF Parts
<1>10. body # <<"Infinity">>
  BY <1>1, <1>9 DEF DigitChar
<1>11. JsUnsigned(t) = body /\ (JsSigned(t) /\ t[1] = "-") = neg
  <2>1. t = Sign(neg) \o body /\ body \in Seq(EntryChar) /\ body # <<>> /\ body[1] \in DigitChar
    BY <1>0, <1>1, <1>2, <1>3, <1>7, <1>9, SMTT(30)
  <2> QED
    BY ONLY <2>1, neg \in BOOLEAN, SignParts
<1>12. int \in Seq(DigitChar) /\ frac \in Seq(DigitChar) /\ int # <<>> /\ int \o frac # <<>>
  BY <1>0 DEF Mantissa
<1>13. JsAllDigits(int) /\ JsAllDigits(frac) /\ JsAllDigits(dec)
  BY <1>12, DigitsOnly
<1> QED
  BY <1>t, <1>0, <1>1, <1>2, <1>4, <1>5, <1>8, <1>10, <1>11, <1>12, <1>13, ZenonT(60) DEF JsNumberOf

-----------------------------------------------------------------------------
(* Finite numbers, and the texts String() prints for them.                  *)

(* A finite number other than a negative zero.                              *)
Finite(x) == IsJsNumber(x) /\ x \notin JsNonFinite /\ x # JsNegZero

(* What IsJsNumber says of the fields of a number that is finite.           *)
LEMMA NumberParts ==
  ASSUME NEW x, IsJsNumber(x), x \notin JsNonFinite
  PROVE  /\ x = JsFinite(x.neg, x.digits, x.point) /\ x.kind = "finite"
         /\ x.neg \in BOOLEAN /\ x.digits \in Seq(DigitChar) /\ x.point \in Int
         /\ x.digits = <<>> => x.point = 0
         /\ x.digits # <<>> => /\ Len(x.digits) >= 1
                               /\ x.digits[1] # "0" /\ x.digits[Len(x.digits)] # "0"
                               /\ -TinyPoint <= x.point /\ x.point <= MaxPoint
<1>1. /\ x = JsFinite(x.neg, x.digits, x.point)
      /\ x.neg \in BOOLEAN /\ x.digits \in Seq(JsDigitChar) /\ x.point \in Int
      /\ IF x.digits = <<>> THEN x.point = 0
         ELSE "0" \notin {x.digits[1], x.digits[Len(x.digits)]} /\ x.point \in -TinyPoint..MaxPoint
  BY DEF IsJsNumber
<1>2. x.kind = "finite"
  BY <1>1, FiniteFacts
<1>3. x.digits # <<>> => Len(x.digits) >= 1
  BY <1>1
<1>4. TinyPoint \in Int /\ MaxPoint \in Int
  BY JsRangeAssumption
<1> QED
  BY <1>1, <1>2, <1>3, <1>4, DigitChars

(* A finite number without digits is zero.                                  *)
LEMMA NoDigits ==
  ASSUME NEW x, Finite(x), x.digits = <<>>
  PROVE  x = JsZero
<1>1. x = JsFinite(x.neg, <<>>, 0) /\ x.neg \in BOOLEAN
  BY NumberParts DEF Finite
<1>2. x.neg # TRUE
  BY <1>1 DEF Finite, JsNegZero
<1>3. x.neg = FALSE
  BY <1>1, <1>2
<1> QED
  BY <1>1, <1>3 DEF JsZero

(* The zeros around the digits of a number do not count.                    *)
LEMMA RoundPadded ==
  ASSUME NEW neg, NEW d \in Seq(DigitChar), NEW k \in Nat, k >= 1, Len(d) = k,
         d[1] # "0", d[k] # "0", NEW n \in -TinyPoint..MaxPoint,
         NEW t \in Seq(DigitChar), NEW i \in Nat, i + k <= Len(t),
         \A q \in 1..k : t[i + q] = d[q],
         \A q \in 1..Len(t) : q <= i \/ q > i + k => t[q] = "0"
  PROVE  JsRound(neg, t, n + i) = JsFinite(neg, d, n)
<1>1. /\ i + 1 \in 1..Len(t) /\ i + k \in 1..Len(t) /\ t[i + 1] # "0" /\ t[i + k] # "0"
      /\ \A q \in 1..Len(t) : t[q] # "0" => i + 1 <= q /\ q <= i + k
  <2>1. t[i + 1] = d[1] /\ t[i + k] = d[k]
    OBVIOUS
  <2>2. i + 1 \in 1..Len(t) /\ i + k \in 1..Len(t)
    OBVIOUS
  <2>3. ASSUME NEW q \in 1..Len(t), t[q] # "0" PROVE i + 1 <= q /\ q <= i + k
    BY <2>3
  <2> QED
    BY <2>1, <2>2, <2>3
<1>2. TinyPoint \in Int /\ MaxPoint \in Int
  BY JsRangeAssumption
<1>3. PICK p, a, b : p = n + i /\ a = i + 1 /\ b = i + k
  OBVIOUS
<1>4. /\ p \in Int /\ p - a + 1 = n /\ ~ (n < -TinyPoint) /\ ~ (n > MaxPoint)
      /\ a \in 1..Len(t) /\ b \in 1..Len(t) /\ t[a] # "0" /\ t[b] # "0"
      /\ \A q \in 1..Len(t) : t[q] # "0" => a <= q /\ q <= b
  BY <1>1, <1>2, <1>3
<1>5. JsRound(neg, t, p) = JsFinite(neg, SubSeq(t, a, b), n)
  BY <1>4, RoundTrimmed, ZenonT(60)
<1>6. SubSeq(t, a, b) = d
  <2>1. PICK u : u = SubSeq(t, i + 1, i + k)
    OBVIOUS
  <2>2. /\ u \in Seq(DigitChar) /\ Len(u) = k
        /\ \A q \in 1..k : u[q] = t[(i + 1) + q - 1]
    BY <1>1, <2>1
  <2>3. \A q \in 1..k : (i + 1) + q - 1 = i + q
    OBVIOUS
  <2>4. \A q \in 1..k : u[q] = d[q]
    BY <2>2, <2>3
  <2> QED
    BY <1>3, <2>1, <2>2, <2>4
<1> QED
  BY <1>3, <1>5, <1>6

(* A number's own digits make it.                                           *)
LEMMA RoundOwn ==
  ASSUME NEW x, IsJsNumber(x), x \notin JsNonFinite, x.digits # <<>>,
         NEW neg, NEW d, NEW n, neg = x.neg, d = x.digits, n = x.point
  PROVE  JsRound(neg, d, n) = x
<1>1. PICK k, i : k = Len(d) /\ i = 0
  OBVIOUS
<1>2. TinyPoint \in Int /\ MaxPoint \in Int
  BY JsRangeAssumption
<1>3. /\ d \in Seq(DigitChar) /\ k \in Nat /\ k >= 1 /\ Len(d) = k /\ d[1] # "0" /\ d[k] # "0"
      /\ n \in -TinyPoint..MaxPoint
  BY <1>1, <1>2, NumberParts
<1>4. i \in Nat /\ i + k <= Len(d) /\ \A q \in 1..k : d[i + q] = d[q]
  BY <1>1, <1>3
<1>5. \A q \in 1..Len(d) : q <= i \/ q > i + k => d[q] = "0"
  BY <1>1, <1>3
<1>6. JsRound(neg, d, n + i) = JsFinite(neg, d, n)
  BY ONLY <1>3, <1>4, <1>5, RoundPadded, ZenonT(60)
<1>7. x = JsFinite(neg, d, n) /\ n \in Int
  BY NumberParts
<1> QED
  BY <1>1, <1>6, <1>7

(* One text of digits behind another.                                       *)
Chained(t, a, b) ==
  /\ t \in Seq(DigitChar) /\ Len(t) = Len(a) + Len(b)
  /\ \A i \in 1..Len(a) : t[i] = a[i]
  /\ \A i \in 1..Len(b) : t[Len(a) + i] = b[i]

(* The characters of two texts of digits put together.                      *)
LEMMA Chain ==
  ASSUME NEW a \in Seq(DigitChar), NEW b \in Seq(DigitChar)
  PROVE  Chained(a \o b, a, b)
<1>1. PICK t : t = a \o b
  OBVIOUS
<1>2. /\ t \in Seq(DigitChar) /\ Len(t) = Len(a) + Len(b)
      /\ \A i \in 1..Len(a) : t[i] = a[i]
      /\ \A i \in 1..Len(b) : t[Len(a) + i] = b[i]
  BY <1>1
<1> QED
  BY <1>1, <1>2 DEF Chained

(* JsZeros is a text of zeros.                                              *)
LEMMA Zeros ==
  ASSUME NEW n \in Nat
  PROVE  JsZeros(n) \in Seq(DigitChar) /\ Len(JsZeros(n)) = n /\ \A i \in 1..n : JsZeros(n)[i] = "0"
BY DEF JsZeros, DigitChar

(* A zero in front stands before the point.                                 *)
Leading(m) == m[1] = "0" => Len(m) > 1 /\ m[2] = "."

(* String() of a number without an exponent, taken apart.                   *)
Plainly(x, m, int, frac) ==
  /\ JsStringOf(x) = Sign(x.neg) \o m /\ Mantissa(m, int, frac) /\ Len(int) <= 21 /\ Leading(m)
  /\ JsRound(x.neg, int \o frac, Len(int)) = x

(* A number in the plain range is printed as a sign and a mantissa that     *)
(* makes it again, with 21 digits at most before the point.                 *)
LEMMA PlainShape ==
  ASSUME NEW x, IsJsNumber(x), x \notin JsNonFinite, x.digits # <<>>, x.point <= 21, x.point > -6
  PROVE  \E m, int, frac : Plainly(x, m, int, frac)
<1>1. PICK d, n, k : d = x.digits /\ n = x.point /\ k = Len(d)
  OBVIOUS
<1>2. /\ d \in Seq(DigitChar) /\ n \in Int /\ k \in Nat /\ k >= 1 /\ Len(d) = k
      /\ x.kind = "finite" /\ k # 0 /\ ~ (n > 21 \/ n <= -6)
      /\ x = JsFinite(x.neg, d, n) /\ d[1] # "0" /\ d[k] # "0" /\ n \in -TinyPoint..MaxPoint
  <2>1. TinyPoint \in Int /\ MaxPoint \in Int
    <3>1. TinyPoint \in 6..998 /\ MaxPoint \in 21..1000
      BY JsRangeAssumption
    <3> QED
      BY ONLY <3>1
  <2> QED
    BY <1>1, <2>1, NumberParts
<1>3. JsStringOf(x) = Sign(x.neg) \o (IF k <= n THEN d \o JsZeros(n - k)
                                      ELSE IF 0 < n THEN Joined(SubSeq(d, 1, n), ".", SubSeq(d, n + 1, k))
                                      ELSE Joined(<<"0">>, ".", JsZeros(-n) \o d))
  BY <1>1, <1>2 DEF JsStringOf, Sign, Joined
<1>4. CASE k <= n
  <2>1. PICK z : z = JsZeros(n - k)
    OBVIOUS
  <2>2. z \in Seq(DigitChar) /\ Len(z) = n - k /\ \A i \in 1..(n - k) : z[i] = "0"
    <3>1. n - k \in Nat
      BY <1>2, <1>4
    <3> QED
      BY <2>1, <3>1, Zeros
  <2>3. PICK int : int = d \o z
    OBVIOUS
  <2>4. /\ int \in Seq(DigitChar) /\ int # <<>> /\ Len(int) = n
        /\ \A q \in 1..k : int[q] = d[q]
        /\ \A q \in 1..(n - k) : int[k + q] = "0"
    <3>1. Chained(int, d, z)
      BY <1>2, <2>2, <2>3, Chain
    <3>2. int \in Seq(DigitChar) /\ Len(int) = k + (n - k) /\ \A q \in 1..k : int[q] = d[q]
      BY <1>2, <2>2, <3>1 DEF Chained
    <3>3. \A q \in 1..(n - k) : int[k + q] = z[q]
      BY <1>2, <2>2, <3>1 DEF Chained
    <3>4. \A q \in 1..(n - k) : int[k + q] = "0"
      BY <2>2, <3>3
    <3>5. k + (n - k) = n /\ n >= 1
      BY <1>2, <1>4
    <3>6. Len(int) = n /\ int # <<>>
      BY ONLY <3>2, <3>5
    <3> QED
      BY <3>2, <3>4, <3>6
  <2>5. PICK none : none = <<>>
    OBVIOUS
  <2>6. int \o none = int /\ none \in Seq(DigitChar)
    BY <2>4, <2>5
  <2>7. JsRound(x.neg, int, n + 0) = x
    <3>1. \A q \in 1..k : int[0 + q] = d[q]
      BY <1>2, <2>4
    <3>2. ASSUME NEW q \in 1..Len(int), q <= 0 \/ q > 0 + k PROVE int[q] = "0"
      <4>1. q - k \in 1..(n - k) /\ k + (q - k) = q
        BY <1>2, <2>4, <3>2
      <4> QED
        BY <2>4, <4>1
    <3>3. 0 + k <= Len(int) /\ 0 \in Nat
      BY <1>2, <1>4, <2>4
    <3>4. \A q \in 1..Len(int) : q <= 0 \/ q > 0 + k => int[q] = "0"
      BY <3>2
    <3>5. PICK i, neg : i = 0 /\ neg = x.neg
      OBVIOUS
    <3>6. i \in Nat /\ i + k <= Len(int) /\ \A q \in 1..k : int[i + q] = d[q]
      BY <3>1, <3>3, <3>5
    <3>7. \A q \in 1..Len(int) : q <= i \/ q > i + k => int[q] = "0"
      BY <3>4, <3>5
    <3>8. /\ d \in Seq(DigitChar) /\ k \in Nat /\ k >= 1 /\ Len(d) = k /\ d[1] # "0" /\ d[k] # "0"
          /\ n \in -TinyPoint..MaxPoint /\ int \in Seq(DigitChar)
      BY <1>2, <2>4
    <3>9. JsRound(neg, int, n + i) = JsFinite(neg, d, n)
      BY <3>6, <3>7, <3>8, RoundPadded, ZenonT(60)
    <3> QED
      BY <1>2, <3>5, <3>9
  <2>8. n + 0 = Len(int) /\ Len(int) <= 21
    BY <1>2, <2>4
  <2>9. Leading(int)
    BY <1>2, <2>4 DEF Leading
  <2>10. Plainly(x, int, int, none)
    BY <1>3, <1>4, <2>1, <2>3, <2>4, <2>5, <2>6, <2>7, <2>8, <2>9 DEF Plainly, Mantissa
  <2> QED
    BY <2>10
<1>5. CASE 0 < n /\ n < k
  <2>1. PICK int, frac : int = SubSeq(d, 1, n) /\ frac = SubSeq(d, n + 1, k)
    OBVIOUS
  <2>2. /\ int \in Seq(DigitChar) /\ Len(int) = n /\ int # <<>>
        /\ frac \in Seq(DigitChar) /\ Len(frac) = k - n
        /\ \A q \in 1..n : int[q] = d[q]
        /\ \A q \in 1..(k - n) : frac[q] = d[n + 1 + q - 1]
    <3>0. int \in Seq(DigitChar) /\ Len(int) = n
      BY <1>2, <1>5, <2>1
    <3>1. int \in Seq(DigitChar) /\ Len(int) = n /\ int # <<>> /\ \A q \in 1..n : int[q] = d[q]
      <4>1. int # <<>>
        BY <1>2, <1>5, <3>0
      <4>2. \A q \in 1..n : int[q] = d[q]
        BY <1>2, <1>5, <2>1
      <4> QED
        BY <3>0, <4>1, <4>2
    <3>2. frac \in Seq(DigitChar)
      BY <1>2, <1>5, <2>1
    <3>3. Len(frac) = k - n
      BY <1>2, <1>5, <2>1
    <3>4. \A q \in 1..(k - n) : frac[q] = d[n + 1 + q - 1]
      BY <1>2, <1>5, <2>1
    <3> QED
      BY <3>1, <3>2, <3>3, <3>4
  <2>3. int \o frac = d
    <3>1. PICK u : u = int \o frac
      OBVIOUS
    <3>2. /\ u \in Seq(DigitChar) /\ Len(u) = k
          /\ \A q \in 1..n : u[q] = d[q]
          /\ \A q \in 1..(k - n) : u[n + q] = frac[q]
      <4>1. Chained(u, int, frac)
        BY <2>2, <3>1, Chain
      <4>2. \A q \in 1..n : u[q] = int[q]
        BY <2>2, <4>1 DEF Chained
      <4> QED
        BY <1>2, <1>5, <2>2, <4>1, <4>2 DEF Chained
    <3>3. ASSUME NEW q \in 1..k PROVE u[q] = d[q]
      <4>1. CASE q <= n
        BY <1>2, <3>2, <4>1
      <4>2. CASE q > n
        <5>1. PICK r \in 1..(k - n) : r = q - n /\ n + r = q /\ n + 1 + r - 1 = q
          BY <1>2, <4>2
        <5>2. u[n + r] = frac[r] /\ frac[r] = d[n + 1 + r - 1]
          BY <2>2, <3>2
        <5> QED
          BY <5>1, <5>2
      <4> QED
        BY <1>2, <4>1, <4>2
    <3> QED
      BY <1>2, <3>1, <3>2, <3>3
  <2>4. JsRound(x.neg, d, n + 0) = x
    <3>1. JsRound(x.neg, d, n) = x
      BY <1>1, RoundOwn
    <3>2. n + 0 = n
      BY <1>2
    <3> QED
      BY <3>1, <3>2
  <2>5. n + 0 = Len(int) /\ Len(int) <= 21
    BY <1>2, <2>2
  <2>6. ~ (k <= n)
    BY <1>2, <1>5
  <2>7. Leading(Joined(int, ".", frac))
    <3>1. PICK m : m = Joined(int, ".", frac)
      OBVIOUS
    <3>2. Mantissa(m, int, frac)
      BY <2>2, <3>1 DEF Mantissa
    <3>3. m[1] = int[1] /\ int[1] = d[1]
      BY <1>5, <1>2, <2>2, <3>2, MantissaParts
    <3> QED
      BY <1>2, <3>1, <3>3 DEF Leading
  <2>8. Plainly(x, Joined(int, ".", frac), int, frac)
    BY <1>3, <1>5, <2>1, <2>2, <2>3, <2>4, <2>5, <2>6, <2>7 DEF Plainly, Mantissa
  <2> QED
    BY <2>8
<1>6. CASE n <= 0
  <2>1. PICK z, zero, frac : z = JsZeros(-n) /\ zero = <<"0">> /\ frac = z \o d
    OBVIOUS
  <2>2. z \in Seq(DigitChar) /\ Len(z) = -n /\ \A i \in 1..(-n) : z[i] = "0"
    <3>1. -n \in Nat
      BY <1>2, <1>6
    <3> QED
      BY <2>1, <3>1, Zeros
  <2>3. /\ frac \in Seq(DigitChar) /\ Len(frac) = -n + k
        /\ \A q \in 1..(-n) : frac[q] = "0"
        /\ \A q \in 1..k : frac[-n + q] = d[q]
    <3>1. Chained(frac, z, d)
      BY <1>2, <2>1, <2>2, Chain
    <3>2. \A q \in 1..(-n) : frac[q] = z[q]
      BY <2>2, <3>1 DEF Chained
    <3> QED
      BY <1>2, <2>2, <3>1, <3>2 DEF Chained
  <2>4. zero \in Seq(DigitChar) /\ Len(zero) = 1 /\ zero[1] = "0" /\ zero # <<>>
    BY <2>1 DEF DigitChar
  <2>5. PICK u : u = zero \o frac
    OBVIOUS
  <2>6. /\ u \in Seq(DigitChar) /\ Len(u) = 1 - n + k /\ u[1] = "0"
        /\ \A q \in 1..(-n + k) : u[1 + q] = frac[q]
    <3>1. Chained(u, zero, frac)
      BY <2>3, <2>4, <2>5, Chain
    <3>2. u \in Seq(DigitChar) /\ Len(u) = 1 + (-n + k) /\ \A q \in 1..1 : u[q] = zero[q]
      BY <2>3, <2>4, <3>1 DEF Chained
    <3>3. \A q \in 1..(-n + k) : u[1 + q] = frac[q]
      BY <2>3, <2>4, <3>1 DEF Chained
    <3> QED
      BY <1>2, <2>4, <3>2, <3>3
  <2>7. JsRound(x.neg, u, n + (1 - n)) = x
    <3>1. ASSUME NEW q \in 1..k PROVE u[(1 - n) + q] = d[q]
      <4>1. -n + q \in 1..(-n + k) /\ (1 - n) + q = 1 + (-n + q)
        BY <1>2, <1>6
      <4> QED
        BY <1>2, <2>3, <2>6, <4>1
    <3>2. ASSUME NEW q \in 1..Len(u), q <= 1 - n \/ q > (1 - n) + k PROVE u[q] = "0"
      <4>1. q <= 1 - n
        BY <1>2, <2>6, <3>2
      <4>2. CASE q = 1
        BY <2>6, <4>2
      <4>3. CASE q # 1
        <5>1. q - 1 \in 1..(-n) /\ q - 1 \in 1..(-n + k) /\ 1 + (q - 1) = q
          BY <1>2, <1>6, <2>6, <4>1, <4>3
        <5> QED
          BY <2>3, <2>6, <5>1
      <4> QED
        BY <4>2, <4>3
    <3>3. (1 - n) + k <= Len(u) /\ 1 - n \in Nat
      BY <1>2, <1>6, <2>6
    <3>4. JsRound(x.neg, u, n + (1 - n)) = JsFinite(x.neg, d, n)
      BY ONLY <1>2, <2>6, <3>1, <3>2, <3>3, RoundPadded, ZenonT(60)
    <3> QED
      BY <1>2, <3>4
  <2>8. n + (1 - n) = Len(zero) /\ Len(zero) <= 21 /\ ~ (k <= n) /\ ~ (0 < n)
    BY <1>2, <1>6, <2>4
  <2>9. Leading(Joined(zero, ".", frac))
    <3>1. PICK m : m = Joined(zero, ".", frac)
      OBVIOUS
    <3>2. zero \in Seq(EntryChar) /\ frac \in Seq(EntryChar) /\ "." \in EntryChar
      BY <2>3, <2>4 DEF EntryChar
    <3>3. Parts(m, zero, ".", frac)
      BY <3>1, <3>2, JoinedParts
    <3>4. Len(m) = 1 + 1 + Len(frac) /\ m[1 + 1] = "." /\ Len(frac) \in Nat
      BY <2>3, <2>4, <3>3 DEF Parts
    <3> QED
      BY <3>1, <3>4 DEF Leading
  <2>10. Plainly(x, Joined(zero, ".", frac), zero, frac)
    BY <1>3, <2>1, <2>3, <2>4, <2>5, <2>7, <2>8, <2>9 DEF Plainly, Mantissa
  <2> QED
    BY <2>10
<1> QED
  BY <1>2, <1>4, <1>5, <1>6

(* toExponential(), taken apart.                                            *)
Exponentially(x, m, int, frac, s, k, p) ==
  /\ JsExponential(x) = ExponentText(x.neg, m, s, k) /\ ExponentParts(m, int, frac, s, k, p)
  /\ m[1] # "0"
  /\ JsRound(x.neg, int \o frac, Len(int) + p) = x

(* toExponential() prints a mantissa and an exponent that make the number   *)
(* again.                                                                   *)
LEMMA ExponentialShape ==
  ASSUME NEW x, IsJsNumber(x), x \notin JsNonFinite, x.digits # <<>>
  PROVE  \E m, int, frac, s, k, p : Exponentially(x, m, int, frac, s, k, p)
<1>1. PICK d, n, l : d = x.digits /\ n = x.point /\ l = Len(d)
  OBVIOUS
<1>2. TinyPoint \in 6..998 /\ MaxPoint \in 21..1000
  BY JsRangeAssumption
<1>3. d \in Seq(DigitChar) /\ l \in Nat /\ l >= 1 /\ Len(d) = l /\ n \in Int /\ -998 <= n /\ n <= 1000
  <2>1. x.digits \in Seq(DigitChar) /\ Len(x.digits) >= 1
    BY NumberParts
  <2>2. x.point \in Int /\ -TinyPoint <= x.point /\ x.point <= MaxPoint
    BY NumberParts
  <2>3. d \in Seq(DigitChar) /\ l \in Nat /\ l >= 1 /\ Len(d) = l
    BY <1>1, <2>1
  <2>4. n \in Int /\ -TinyPoint <= n /\ n <= MaxPoint
    BY <1>1, <2>2
  <2> QED
    BY ONLY <1>2, <2>3, <2>4, SMTT(30)
<1>4. PICK c \in DigitChar : c = d[1]
  BY <1>3
<1>5. PICK int, tail : int = <<c>> /\ tail = Tail(d)
  OBVIOUS
<1>6. int \in Seq(DigitChar) /\ Len(int) = 1 /\ int # <<>> /\ int[1] = c
  BY <1>5
<1>7. \E m, frac : /\ m = (IF l = 1 THEN int ELSE Joined(int, ".", tail))
                   /\ Mantissa(m, int, frac) /\ int \o frac = d
  <2>1. CASE l = 1
    <3>1. PICK none : none = <<>>
      OBVIOUS
    <3>2. none \in Seq(DigitChar) /\ int \o none = int
      BY <1>6, <3>1
    <3>3. int = d
      BY <1>3, <1>4, <1>5, <2>1
    <3>4. Mantissa(int, int, none)
      BY <1>6, <3>1, <3>2 DEF Mantissa
    <3> QED
      BY <2>1, <3>2, <3>3, <3>4
  <2>2. CASE l # 1
    <3>1. tail \in Seq(DigitChar) /\ Len(tail) = l - 1 /\ \A q \in 1..(l - 1) : tail[q] = d[q + 1]
      BY <1>3, <1>5
    <3>2. PICK u : u = int \o tail
      OBVIOUS
    <3>3. Chained(u, int, tail)
      BY <1>6, <3>1, <3>2, Chain
    <3>4. /\ u \in Seq(DigitChar) /\ Len(u) = l /\ u[1] = c
          /\ \A q \in 1..(l - 1) : u[1 + q] = tail[q]
      BY <1>3, <1>6, <3>1, <3>3 DEF Chained
    <3>5. ASSUME NEW q \in 1..l PROVE u[q] = d[q]
      <4>1. CASE q = 1
        BY <1>4, <3>4, <4>1
      <4>2. CASE q # 1
        <5>1. PICK r \in 1..(l - 1) : 1 + r = q /\ r + 1 = q
          <6>1. q - 1 \in 1..(l - 1) /\ 1 + (q - 1) = q /\ (q - 1) + 1 = q
            BY <1>3, <4>2
          <6> QED
            BY <6>1
        <5> QED
          BY <3>1, <3>4, <5>1
      <4> QED
        BY <4>1, <4>2
    <3>6. u = d
      BY <1>3, <3>4, <3>5
    <3>7. Mantissa(Joined(int, ".", tail), int, tail)
      BY <1>6, <3>1 DEF Mantissa
    <3> QED
      BY <2>2, <3>2, <3>6, <3>7
  <2> QED
    BY <2>1, <2>2
<1>8. PICK m, frac : /\ m = (IF l = 1 THEN int ELSE Joined(int, ".", tail))
                     /\ Mantissa(m, int, frac) /\ int \o frac = d
  BY <1>7
<1>9. PICK s, k, p : /\ s = (IF n - 1 < 0 THEN "-" ELSE "+")
                     /\ k = (IF n - 1 < 0 THEN -(n - 1) ELSE n - 1) /\ p = n - 1
  OBVIOUS
<1>10. /\ s \in {"-", "+"} /\ k \in 0..999 /\ p = (IF s = "-" THEN -k ELSE k)
       /\ Len(int) + p = n
  BY <1>3, <1>6, <1>9
<1>11. JsExponential(x) = Sign(x.neg) \o Joined(m, "e", <<s>> \o JsDecimal(k))
  <2>1. PICK pow : pow = n - 1
    OBVIOUS
  <2>2. JsExponential(x) = Sign(x.neg) \o Joined(m, "e", IF pow < 0 THEN <<"-">> \o JsDecimal(-pow)
                                                           ELSE <<"+">> \o JsDecimal(pow))
    BY <1>1, <1>4, <1>5, <1>8, <2>1 DEF JsExponential, Sign, Joined
  <2> QED
    BY <1>9, <2>1, <2>2
<1>12. JsRound(x.neg, d, n) = x
  BY <1>1, RoundOwn
<1>13. m[1] # "0"
  <2>1. m[1] = int[1] /\ int[1] = d[1]
    BY <1>4, <1>6, <1>8, MantissaParts
  <2> QED
    BY <1>1, <2>1, NumberParts
<1>14. Exponentially(x, m, int, frac, s, k, p)
  BY <1>8, <1>10, <1>11, <1>12, <1>13 DEF Exponentially, ExponentParts, ExponentText
<1> QED
  BY <1>14

(* Text back to number, without an exponent and with one.                   *)
LEMMA SignedText ==
  ASSUME NEW neg \in BOOLEAN, NEW body \in Seq(EntryChar)
  PROVE  Sign(neg) \o body \in Seq(EntryChar)
<1>1. PICK sign : sign = Sign(neg)
  OBVIOUS
<1>2. sign \in Seq(EntryChar)
  <2>1. <<>> \in Seq(EntryChar) /\ <<"-">> \in Seq(EntryChar)
    BY DEF EntryChar
  <2> QED
    BY <1>1, <2>1 DEF Sign
<1> QED
  BY <1>1, <1>2

(* What toExponential() prints is read as the number printed.               *)
LEMMA ExponentialBack ==
  ASSUME NEW x, IsJsNumber(x), x \notin JsNonFinite, x.digits # <<>>
  PROVE  JsNumberOf(JsExponential(x)) = x /\ JsExponential(x) \in Seq(EntryChar)
<1>1. PICK m, int, frac, s, k, p : Exponentially(x, m, int, frac, s, k, p)
  BY ExponentialShape
<1>2. PICK neg : neg \in BOOLEAN /\ neg = x.neg
  BY NumberParts
<1>3. PICK t : t = ExponentText(neg, m, s, k)
  OBVIOUS
<1>4. /\ ExponentParts(m, int, frac, s, k, p) /\ t = JsExponential(x)
      /\ JsRound(neg, int \o frac, Len(int) + p) = x
  BY <1>1, <1>2, <1>3 DEF Exponentially
<1>5. JsNumberOf(t) = JsRound(neg, int \o frac, Len(int) + p)
  <2>1. neg \in BOOLEAN /\ ExponentParts(m, int, frac, s, k, p)
    BY <1>2, <1>4
  <2> QED
    BY ONLY <1>3, <2>1, ParseExponential
<1>6. t \in Seq(EntryChar)
  <2>1. PICK dec \in Seq(DigitChar) : dec = JsDecimal(k)
    BY <1>4, DecimalValue, ZenonT(60) DEF ExponentParts
  <2>2. PICK exp : exp = <<s>> \o dec
    OBVIOUS
  <2>3. exp \in Seq(EntryChar) /\ "e" \in EntryChar
    BY <1>4, <2>1, <2>2 DEF EntryChar, ExponentParts
  <2>4. m \in Seq(EntryChar)
    BY <1>4, MantissaParts DEF ExponentParts
  <2>5. PICK body : body = Joined(m, "e", exp)
    OBVIOUS
  <2>6. body \in Seq(EntryChar)
    BY <2>3, <2>4, <2>5 DEF Joined
  <2>7. t = Sign(neg) \o body
    BY <1>3, <2>1, <2>2, <2>5 DEF ExponentText
  <2>8. neg \in BOOLEAN
    BY <1>2
  <2> QED
    BY ONLY <2>6, <2>7, <2>8, SignedText
<1> QED
  BY <1>4, <1>5, <1>6

(* So is what String() prints without an exponent.                          *)
LEMMA PlainBack ==
  ASSUME NEW x, IsJsNumber(x), x \notin JsNonFinite, x.digits # <<>>, x.point <= 21, x.point > -6
  PROVE  JsNumberOf(JsStringOf(x)) = x /\ JsStringOf(x) \in Seq(EntryChar)
<1>1. PICK m, int, frac : Plainly(x, m, int, frac)
  BY PlainShape
<1>2. PICK neg : neg \in BOOLEAN /\ neg = x.neg
  BY NumberParts
<1>3. PICK t : t = Sign(neg) \o m
  OBVIOUS
<1>4. /\ Mantissa(m, int, frac) /\ t = JsStringOf(x) /\ JsRound(neg, int \o frac, Len(int)) = x
  BY <1>1, <1>2, <1>3 DEF Plainly
<1>5. JsNumberOf(t) = JsRound(neg, int \o frac, Len(int))
  <2>1. neg \in BOOLEAN /\ Mantissa(m, int, frac)
    BY <1>2, <1>4
  <2> QED
    BY ONLY <2>1, <1>3, ParsePlain, ZenonT(60)
<1>6. m \in Seq(EntryChar) /\ neg \in BOOLEAN
  BY <1>2, <1>4, MantissaParts
<1>7. t \in Seq(EntryChar)
  BY ONLY <1>3, <1>6, SignedText
<1> QED
  BY <1>4, <1>5, <1>7

(* So is a zero.                                                            *)
LEMMA ZeroBack == JsNumberOf(<<"0">>) = JsZero /\ <<"0">> \in Seq(EntryChar)
<1>1. PICK m, none, neg : m = <<"0">> /\ none = <<>> /\ neg = FALSE
  OBVIOUS
<1>2. m \in Seq(DigitChar) /\ none \in Seq(DigitChar) /\ m # <<>> /\ m \o none = m
      /\ Len(m) = 1 /\ m \in Seq(EntryChar) /\ \A i \in DOMAIN m : m[i] = "0"
  BY <1>1 DEF DigitChar, EntryChar
<1>3. Mantissa(m, m, none)
  BY <1>1, <1>2 DEF Mantissa
<1>4. m = Sign(neg) \o m
  <2>1. Sign(neg) = none
    BY <1>1 DEF Sign
  <2>2. none \o m = m
    BY <1>1, <1>2
  <2> QED
    BY <2>1, <2>2
<1>5. JsNumberOf(m) = JsRound(neg, m, Len(m))
  <2>1. neg \in BOOLEAN
    BY <1>1
  <2>2. JsNumberOf(m) = JsRound(neg, m \o none, Len(m))
    BY <1>3, <1>4, <2>1, ParsePlain
  <2> QED
    BY <1>2, <2>2
<1>6. JsRound(neg, m, Len(m)) = JsFinite(neg, <<>>, 0)
  BY <1>2, RoundZeros
<1> QED
  BY <1>1, <1>2, <1>5, <1>6 DEF JsZero

(* String() and Number() are inverse on the finite numbers.                 *)
THEOREM StringReadsBack ==
  ASSUME NEW x, Finite(x)
  PROVE  JsNumberOf(JsStringOf(x)) = x /\ JsStringOf(x) \in Seq(EntryChar)
<1>0. IsJsNumber(x) /\ x \notin JsNonFinite
  BY DEF Finite
<1>1. CASE x.digits = <<>>
  <2>1. x = JsZero
    BY <1>1, NoDigits
  <2>2. JsStringOf(x) = <<"0">>
    <3>1. x.kind = "finite" /\ Len(x.digits) = 0
      BY <1>0, <1>1, NumberParts
    <3> QED
      BY <3>1 DEF JsStringOf
  <2> QED
    BY <2>1, <2>2, ZeroBack
<1>2. CASE x.digits # <<>> /\ x.point <= 21 /\ x.point > -6
  BY <1>0, <1>2, PlainBack
<1>3. CASE x.digits # <<>> /\ (x.point > 21 \/ x.point <= -6)
  <2>1. JsStringOf(x) = JsExponential(x)
    <3>1. x.kind = "finite" /\ Len(x.digits) # 0
      BY <1>0, <1>3, NumberParts
    <3> QED
      BY <1>3, <3>1 DEF JsStringOf
  <2> QED
    BY <1>0, <1>3, <2>1, ExponentialBack
<1>4. x.point \in Int
  BY <1>0, NumberParts
<1> QED
  BY <1>1, <1>2, <1>3, <1>4

(* A mantissa has one point at most.                                        *)
LEMMA MantissaPoint ==
  ASSUME NEW m, NEW int, NEW frac, Mantissa(m, int, frac)
  PROVE  \A i, j \in DOMAIN m : m[i] = "." /\ m[j] = "." => i = j
<1>1. /\ int \in Seq(DigitChar) /\ frac \in Seq(DigitChar) /\ "." \notin DigitChar
      /\ int \in Seq(EntryChar) /\ frac \in Seq(EntryChar) /\ "." \in EntryChar
  BY DEF Mantissa, DigitChar, EntryChar
<1>2. CASE m = int
  BY <1>1, <1>2
<1>3. CASE m = Joined(int, ".", frac)
  <2>1. Parts(m, int, ".", frac)
    BY <1>1, <1>3, JoinedParts
  <2>2. PICK l, r : l = Len(int) /\ r = Len(frac)
    OBVIOUS
  <2>3. l \in Nat /\ r \in Nat
    BY <1>1, <2>2
  <2>4. /\ DOMAIN m = 1..(l + 1 + r)
        /\ \A i \in 1..l : m[i] = int[i]
        /\ \A i \in 1..r : m[l + 1 + i] = frac[i]
    BY <2>1, <2>2 DEF Parts
  <2>5. ASSUME NEW i \in DOMAIN m, m[i] = "." PROVE i = l + 1
    <3>1. i \in Int /\ 1 <= i /\ i <= l + 1 + r
      BY <2>3, <2>4
    <3>2. CASE i <= l
      BY <1>1, <2>2, <2>3, <2>4, <2>5, <3>1, <3>2
    <3>3. CASE i > l + 1
      <4>1. i - l - 1 \in 1..r /\ l + 1 + (i - l - 1) = i
        BY <2>3, <3>1, <3>3
      <4>2. m[i] = frac[i - l - 1]
        BY <2>4, <4>1
      <4> QED
        BY <1>1, <2>2, <2>5, <4>1, <4>2
    <3> QED
      BY <2>3, <3>1, <3>2, <3>3
  <2> QED
    BY <2>5
<1> QED
  BY <1>2, <1>3 DEF Mantissa

(* A sign in front of a body that is a normal entry's.                      *)
LEMMA SignedNormal ==
  ASSUME NEW neg, neg \in BOOLEAN, NEW b, b \in Seq(EntryChar), b # <<>>, b[1] \in DigitChar,
         Leading(b), \A i, j \in DOMAIN b : b[i] = "." /\ b[j] = "." => i = j,
         NEW t, t = Sign(neg) \o b
  PROVE  NormalEntry(t)
<1>1. PICK l : l = Len(b) /\ l \in Nat /\ l >= 1 /\ DOMAIN b = 1..l
  OBVIOUS
<1>2. "-" \in EntryChar /\ b[1] # "-"
  BY DEF EntryChar, DigitChar
<1>3. CASE neg
  <2>1. t = <<"-">> \o b
    BY <1>3 DEF Sign
  <2>2. t \in Seq(EntryChar)
    BY <1>2, <2>1
  <2>3. Len(t) = l + 1 /\ t[1] = "-" /\ t # <<>> /\ DOMAIN t = 1..(l + 1)
    BY <1>1, <2>1
  <2>4. \A i \in 1..l : t[i + 1] = b[i]
    BY <1>1, <2>1
  <2>5. t[2] = b[1] /\ (l > 1 => t[3] = b[2])
    <3>1. 1 \in 1..l /\ (l > 1 => 2 \in 1..l) /\ 1 + 1 = 2 /\ 2 + 1 = 3
      BY <1>1
    <3>2. t[1 + 1] = b[1] /\ (l > 1 => t[2 + 1] = b[2])
      BY ONLY <2>4, <3>1
    <3> QED
      BY ONLY <3>1, <3>2
  <2>6. ASSUME NEW i \in DOMAIN t, NEW j \in DOMAIN t, t[i] = ".", t[j] = "." PROVE i = j
    <3>1. i # 1 /\ j # 1
      BY <2>3, <2>6
    <3>2. i - 1 \in 1..l /\ j - 1 \in 1..l /\ (i - 1) + 1 = i /\ (j - 1) + 1 = j
      BY <1>1, <2>3, <3>1
    <3>3. b[i - 1] = "." /\ b[j - 1] = "."
      BY <2>4, <2>6, <3>2
    <3>4. i - 1 = j - 1
      BY <1>1, <3>2, <3>3
    <3> QED
      BY <3>2, <3>4
  <2>7. t # <<"-", "0">>
    <3>1. CASE t[2] = "0"
      <4>1. b[1] = "0"
        BY <2>5, <3>1
      <4>2. l > 1
        BY <1>1, <4>1 DEF Leading
      <4>3. Len(t) # 2 /\ Len(<<"-", "0">>) = 2
        BY <1>1, <2>3, <4>2
      <4> QED
        BY <4>3
    <3>2. CASE t[2] # "0"
      <4>1. PICK u : u = <<"-", "0">>
        OBVIOUS
      <4>2. u[2] = "0"
        BY ONLY <4>1
      <4> QED
        BY ONLY <3>2, <4>1, <4>2
    <3> QED
      BY <3>1, <3>2
  <2>8. Len(t) > 2 /\ t[2] = "0" => t[2 + 1] = "."
    BY <1>1, <2>3, <2>5 DEF Leading
  <2>9. Len(t) >= 2 /\ t[2] \in DigitChar
    BY <1>1, <2>3, <2>5
  <2> QED
    BY <2>2, <2>3, <2>6, <2>7, <2>8, <2>9 DEF NormalEntry
<1>4. CASE ~neg
  <2>1. t = <<>> \o b
    BY <1>4 DEF Sign
  <2>2. t = b
    BY <2>1
  <2>3. t # <<"-", "0">> /\ t[1] # "-" /\ Len(t) >= 1
    BY <1>1, <1>2, <2>2
  <2>4. Len(t) > 1 /\ t[1] = "0" => t[1 + 1] = "."
    BY <1>1, <2>2 DEF Leading
  <2> QED
    BY <2>2, <2>3, <2>4 DEF NormalEntry
<1> QED
  BY <1>3, <1>4

(* What toExponential() prints is a normal entry.                           *)
LEMMA ExponentialNormal ==
  ASSUME NEW x, IsJsNumber(x), x \notin JsNonFinite, x.digits # <<>>
  PROVE  NormalEntry(JsExponential(x))
<1>1. PICK m, int, frac, s, k, p : Exponentially(x, m, int, frac, s, k, p)
  BY ExponentialShape
<1>2. PICK neg : neg \in BOOLEAN /\ neg = x.neg
  BY NumberParts
<1>3. /\ Mantissa(m, int, frac) /\ s \in {"-", "+"} /\ m[1] # "0"
      /\ JsExponential(x) = ExponentText(neg, m, s, k)
  BY <1>1, <1>2 DEF Exponentially, ExponentParts
<1>4. PICK dec \in Seq(DigitChar) : dec = JsDecimal(k)
  BY <1>1, DecimalValue, ZenonT(60) DEF Exponentially, ExponentParts
<1>5. PICK exp : exp = <<s>> \o dec
  OBVIOUS
<1>6. exp \in Seq(EntryChar) /\ "e" \in EntryChar
  BY <1>3, <1>4, <1>5 DEF EntryChar
<1>7. \A i \in DOMAIN exp : exp[i] # "."
  <2>1. s # "." /\ \A i \in DOMAIN dec : dec[i] # "."
    BY <1>3, <1>4 DEF DigitChar
  <2>2. \A i \in DOMAIN exp : i = 1 \/ (i - 1 \in DOMAIN dec /\ exp[i] = dec[i - 1])
    BY <1>4, <1>5
  <2>3. exp[1] = s
    BY <1>4, <1>5
  <2> QED
    BY <2>1, <2>2, <2>3
<1>8. m \in Seq(EntryChar) /\ m # <<>> /\ m[1] \in DigitChar
  BY <1>3, MantissaParts
<1>9. PICK b : b = Joined(m, "e", exp)
  OBVIOUS
<1>10. Parts(b, m, "e", exp)
  BY <1>6, <1>8, <1>9, JoinedParts
<1>11. PICK l, r : l = Len(m) /\ r = Len(exp) /\ l \in Nat /\ r \in Nat /\ l >= 1
  <2>1. Len(m) \in Nat /\ Len(exp) \in Nat /\ Len(m) >= 1
    BY ONLY <1>6, <1>8
  <2> QED
    BY <2>1
<1>12. /\ b \in Seq(EntryChar) /\ DOMAIN b = 1..(l + 1 + r) /\ b[l + 1] = "e"
       /\ \A i \in 1..l : b[i] = m[i]
       /\ \A i \in 1..r : b[l + 1 + i] = exp[i]
  BY <1>10, <1>11 DEF Parts
<1>13. b # <<>> /\ b[1] = m[1]
  BY <1>11, <1>12
<1>14. ASSUME NEW i \in DOMAIN b, b[i] = "." PROVE i \in DOMAIN m /\ m[i] = "."
  <2>1. i \in Int /\ 1 <= i /\ i <= l + 1 + r
    BY <1>11, <1>12
  <2>2. CASE i <= l
    BY <1>8, <1>11, <1>12, <1>14, <2>1, <2>2
  <2>3. CASE i = l + 1
    BY <1>12, <1>14, <2>3
  <2>4. CASE i > l + 1
    <3>1. i - l - 1 \in 1..r /\ l + 1 + (i - l - 1) = i
      BY <1>11, <2>1, <2>4, SMTT(30)
    <3>2. b[i] = exp[i - l - 1] /\ i - l - 1 \in DOMAIN exp
      BY <1>6, <1>11, <1>12, <3>1
    <3> QED
      BY <1>7, <1>14, <3>2
  <2> QED
    BY <1>11, <2>1, <2>2, <2>3, <2>4
<1>15. \A i, j \in DOMAIN b : b[i] = "." /\ b[j] = "." => i = j
  BY <1>3, <1>14, MantissaPoint
<1>16. Leading(b)
  BY <1>3, <1>13 DEF Leading
<1>17. JsExponential(x) = Sign(neg) \o b
  BY <1>3, <1>4, <1>5, <1>9 DEF ExponentText
<1> QED
  BY <1>2, <1>8, <1>12, <1>13, <1>15, <1>16, <1>17, SignedNormal

(* String() of a finite number is a normal entry: ECMAScript's String()     *)
(* gives what StoreAssumption asks of the results that become entries.      *)
THEOREM StringIsNormal ==
  ASSUME NEW x, Finite(x)
  PROVE  NormalEntry(JsStringOf(x))
<1>1. IsJsNumber(x) /\ x \notin JsNonFinite
  BY DEF Finite
<1>2. CASE x.digits = <<>>
  <2>1. x.kind = "finite" /\ Len(x.digits) = 0
    BY <1>1, <1>2, NumberParts
  <2>2. JsStringOf(x) = <<"0">>
    BY <2>1 DEF JsStringOf
  <2> QED
    BY <2>2, ZeroNormal
<1>3. CASE x.digits # <<>> /\ x.point <= 21 /\ x.point > -6
  <2>1. PICK m, int, frac : Plainly(x, m, int, frac)
    BY <1>1, <1>3, PlainShape
  <2>2. PICK neg : neg \in BOOLEAN /\ neg = x.neg
    BY <1>1, NumberParts
  <2>3. JsStringOf(x) = Sign(neg) \o m /\ Mantissa(m, int, frac) /\ Leading(m)
    BY <2>1, <2>2 DEF Plainly
  <2>4. m \in Seq(EntryChar) /\ m # <<>> /\ m[1] \in DigitChar
    BY <2>3, MantissaParts
  <2>5. \A i, j \in DOMAIN m : m[i] = "." /\ m[j] = "." => i = j
    BY <2>3, MantissaPoint
  <2> QED
    BY <2>2, <2>3, <2>4, <2>5, SignedNormal
<1>4. CASE x.digits # <<>> /\ (x.point > 21 \/ x.point <= -6)
  <2>1. x.kind = "finite" /\ Len(x.digits) # 0
    BY <1>1, <1>4, NumberParts
  <2>2. JsStringOf(x) = JsExponential(x)
    BY <1>4, <2>1 DEF JsStringOf
  <2> QED
    BY <1>1, <1>4, <2>2, ExponentialNormal
<1>5. x.point \in Int
  BY <1>1, NumberParts
<1> QED
  BY <1>2, <1>3, <1>4, <1>5

-----------------------------------------------------------------------------
(* Rounding to the digits shown.                                            *)

(* A rounded number whose first digit is not zero and whose point is in     *)
(* range is finite and has digits.                                          *)
LEMMA RoundWithDigits ==
  ASSUME NEW neg, neg \in BOOLEAN, NEW t, t \in Seq(DigitChar), t # <<>>, t[1] # "0",
         NEW p, p \in -TinyPoint..MaxPoint
  PROVE  Finite(JsRound(neg, t, p)) /\ JsRound(neg, t, p).digits # <<>>
<1>1. p \in Int /\ p <= MaxPoint
  BY JsRangeAssumption
<1>2. PICK y : y = JsRound(neg, t, p)
  OBVIOUS
<1>3. IsJsNumber(y) /\ y \notin JsNonFinite /\ y.digits # <<>>
  BY <1>1, <1>2, RoundForm
<1>4. y # JsNegZero
  BY <1>3 DEF JsNegZero, JsFinite
<1> QED
  BY <1>2, <1>3, <1>4 DEF Finite

(* Beyond the range it is infinite.                                         *)
LEMMA RoundBeyond ==
  ASSUME NEW neg, neg \in BOOLEAN, NEW p, p \in Int, p > MaxPoint
  PROVE  JsRound(neg, <<"1">>, p) \in JsNonFinite
<1>1. PICK t, a : t = <<"1">> /\ a = 1
  OBVIOUS
<1>2. /\ t \in Seq(DigitChar) /\ Len(t) = 1 /\ a \in 1..Len(t) /\ t[a] # "0"
      /\ \A i \in 1..Len(t) : t[i] # "0" => a <= i /\ i <= a
  BY <1>1 DEF DigitChar
<1>3. ~ (p - a + 1 < -TinyPoint) /\ p - a + 1 > MaxPoint
  BY <1>1, JsRangeAssumption
<1>4. JsRound(neg, t, p) = JsInfinity(neg)
  BY <1>2, <1>3, RoundTrimmed
<1> QED
  BY <1>1, <1>4 DEF JsNonFinite

(* Rounding to some digits leaves a finite number, unless it overflows.     *)
LEMMA RoundToForm ==
  ASSUME NEW n \in Nat \ {0}, NEW x, Finite(x), JsRoundTo(n, x) \notin JsNonFinite
  PROVE  Finite(JsRoundTo(n, x)) /\ (x.digits # <<>> => JsRoundTo(n, x).digits # <<>>)
<1>1. PICK neg, d, p, k : neg = x.neg /\ d = x.digits /\ p = x.point /\ k = Len(d)
  OBVIOUS
<1>2. IsJsNumber(x) /\ x \notin JsNonFinite
  BY DEF Finite
<1>3. CASE k <= n
  BY <1>1, <1>3 DEF JsRoundTo
<1>4. CASE k > n
  <2>1. neg \in BOOLEAN /\ d \in Seq(DigitChar) /\ k \in Nat /\ k > n /\ Len(d) = k
    BY <1>1, <1>2, <1>4, NumberParts
  <2>2. x.digits # <<>>
    BY <1>1, <2>1
  <2>3. d[1] # "0" /\ p \in -TinyPoint..MaxPoint
    BY <1>1, <1>2, <2>2, NumberParts, JsRangeAssumption
  <2>4. PICK t : t = SubSeq(d, 1, n)
    OBVIOUS
  <2>5. t \in Seq(DigitChar) /\ Len(t) = n /\ t[1] = d[1] /\ t # <<>> /\ \A i \in 1..n : t[i] \in DigitChar
    BY ONLY <2>1, <2>4, n \in Nat \ {0}
  <2>6. PICK below9, up : below9 = {i \in 1..n : SubSeq(x.digits, 1, n)[i] # "9"} /\ up = Sets!Max(below9)
    OBVIOUS
  <2>7. JsRoundTo(n, x) = IF JsDigitValue(d[n + 1]) < 5 THEN JsRound(neg, t, p)
                          ELSE IF below9 = {} THEN JsRound(neg, <<"1">>, p + 1)
                          ELSE JsRound(neg, Append(SubSeq(t, 1, up - 1), JsDigits[JsDigitValue(t[up]) + 2]), p)
    <3>1. ~ (Len(x.digits) <= n)
      BY <1>1, <2>1
    <3>2. JsRoundTo(n, x) =
            IF JsDigitValue(x.digits[n + 1]) < 5 THEN JsRound(x.neg, SubSeq(x.digits, 1, n), x.point)
            ELSE IF below9 = {} THEN JsRound(x.neg, <<"1">>, x.point + 1)
            ELSE JsRound(x.neg, Append(SubSeq(SubSeq(x.digits, 1, n), 1, up - 1),
                                       JsDigits[JsDigitValue(SubSeq(x.digits, 1, n)[up]) + 2]), x.point)
      BY <2>6, <3>1, Zenon DEF JsRoundTo
    <3> QED
      BY <1>1, <2>4, <3>2
  <2>8. CASE JsDigitValue(d[n + 1]) < 5
    <3>1. Finite(JsRound(neg, t, p)) /\ JsRound(neg, t, p).digits # <<>>
      BY <2>1, <2>3, <2>5, RoundWithDigits
    <3> QED
      BY <2>7, <2>8, <3>1
  <2>9. CASE ~ (JsDigitValue(d[n + 1]) < 5) /\ below9 = {}
    <3>1. p \in Int
      BY <2>3, JsRangeAssumption
    <3>2. JsRound(neg, <<"1">>, p + 1) \notin JsNonFinite
      BY <2>7, <2>9
    <3>3. PICK q, one : q = p + 1 /\ one = <<"1">>
      OBVIOUS
    <3>4. q \in Int /\ ~ (q > MaxPoint)
      BY ONLY <2>1, <3>1, <3>2, <3>3, RoundBeyond
    <3>5. q \in -TinyPoint..MaxPoint
      BY <2>3, <3>3, <3>4, JsRangeAssumption
    <3>6. one \in Seq(DigitChar) /\ one # <<>> /\ one[1] # "0"
      BY <3>3 DEF DigitChar
    <3>7. Finite(JsRound(neg, one, q)) /\ JsRound(neg, one, q).digits # <<>>
      BY <2>1, <3>5, <3>6, RoundWithDigits
    <3> QED
      BY <2>7, <2>9, <3>3, <3>7
  <2>10. CASE ~ (JsDigitValue(d[n + 1]) < 5) /\ below9 # {}
    <3>1. up \in below9
      <4>1. below9 \in SUBSET (1..n) /\ below9 \in SUBSET Nat
        BY ONLY <2>6, n \in Nat \ {0}
      <4>2. PICK m \in below9 : \A i \in below9 : i <= m
        BY <2>10, <4>1, GreatestPlace
      <4>3. Sets!Max(below9) = m
        BY <4>1, <4>2, SetsMax
      <4> QED
        BY <2>6, <4>2, <4>3
    <3>2. up \in 1..n /\ t[up] \in DigitChar /\ t[up] # "9"
      BY ONLY <1>1, <2>4, <2>5, <2>6, <3>1
    <3>3. JsDigitValue(t[up]) \in 0..9 /\ JsDigitValue(t[up]) # 9
      BY <3>2, DigitValue
    <3>4. JsDigits[JsDigitValue(t[up]) + 2] \in DigitChar /\ JsDigits[JsDigitValue(t[up]) + 2] # "0"
      <4>1. PICK v : v = JsDigitValue(t[up]) + 2
        OBVIOUS
      <4>2. v \in 2..10
        BY <3>3, <4>1
      <4>3. v \in 1..10 /\ 1 \in 1..10 /\ v # 1
        BY <4>2
      <4>4. JsDigits[v] \in DigitChar
        BY <4>3, DigitChars DEF JsDigitChar
      <4>5. JsDigits[v] # "0"
        BY <4>3, TenDigits
      <4> QED
        BY <4>1, <4>4, <4>5
    <3>5. PICK c, h, u : c = JsDigits[JsDigitValue(t[up]) + 2] /\ h = SubSeq(t, 1, up - 1) /\ u = Append(h, c)
      OBVIOUS
    <3>6. h \in Seq(DigitChar) /\ Len(h) = up - 1 /\ (up > 1 => h[1] = t[1])
      BY ONLY <2>5, <3>2, <3>5, n \in Nat \ {0}
    <3>7. u \in Seq(DigitChar) /\ u # <<>> /\ u[1] # "0"
      <4>1. u \in Seq(DigitChar) /\ u # <<>> /\ Len(u) = up
        BY ONLY <3>2, <3>4, <3>5, <3>6, n \in Nat \ {0}
      <4>2. CASE up = 1
        <5>1. u[1] = c
          BY ONLY <4>2, <3>5, <3>6
        <5> QED
          BY <3>4, <3>5, <4>1, <5>1
      <4>3. CASE up # 1
        <5>1. u[1] = h[1] /\ h[1] = t[1]
          BY ONLY <4>3, <3>2, <3>4, <3>5, <3>6, n \in Nat \ {0}
        <5> QED
          BY <2>3, <2>5, <4>1, <5>1
      <4> QED
        BY <4>2, <4>3
    <3>8. Finite(JsRound(neg, u, p)) /\ JsRound(neg, u, p).digits # <<>>
      BY <2>1, <2>3, <3>7, RoundWithDigits
    <3>9. JsRoundTo(n, x) = JsRound(neg, u, p)
      BY <2>7, <2>10, <3>5
    <3> QED
      BY <3>8, <3>9
  <2> QED
    BY <2>8, <2>9, <2>10
<1>5. k \in Nat
  BY <1>1, <1>2, NumberParts
<1> QED
  BY <1>3, <1>4, <1>5

-----------------------------------------------------------------------------
(* Grouping, and taking the commas out again.                               *)

(* The characters of the display.                                           *)
ShownChar == EntryChar \cup {","}

(* Taking the commas out, by the length of what is kept.                    *)
Kept(raw, t, count) ==
  /\ count[0] = 0 /\ count[Len(raw)] = Len(t)
  /\ \A i \in 0..Len(raw) : count[i] \in 0..Len(t)
  /\ \A i \in 1..Len(raw) :
       \/ raw[i] = "," /\ count[i] = count[i - 1]
       \/ raw[i] # "," /\ count[i] = count[i - 1] + 1 /\ t[count[i]] = raw[i]

(* The text that is kept, character by character, is the one replace()      *)
(* leaves.                                                                  *)
LEMMA KeptIsLeft ==
  ASSUME NEW raw, raw \in Seq(ShownChar), NEW t, t \in Seq(EntryChar), NEW count, Kept(raw, t, count)
  PROVE  WithoutCommas(raw) = t
<1> DEFINE n == Len(raw)
           Step(v) == v = [i \in 0..n |-> IF i = 0 THEN <<>>
                                          ELSE IF raw[i] = "," THEN v[i - 1] ELSE Append(v[i - 1], raw[i])]
           v == CHOOSE v : Step(v)
           w == [i \in 0..n |-> SubSeq(t, 1, count[i])]
<1>1. n \in Nat
  OBVIOUS
<1>2. Step(w)
  <2>1. ASSUME NEW i \in 0..n
        PROVE  w[i] = IF i = 0 THEN <<>> ELSE IF raw[i] = "," THEN w[i - 1] ELSE Append(w[i - 1], raw[i])
    <3>1. CASE i = 0
      <4>1. w[i] = SubSeq(t, 1, 0)
        BY <3>1 DEF Kept
      <4>2. SubSeq(t, 1, 0) = <<>>
        OBVIOUS
      <4> QED
        BY <3>1, <4>1, <4>2
    <3>2. CASE i # 0
      <4>1. i \in 1..n /\ i - 1 \in 0..n
        BY <1>1, <3>2
      <4>2. PICK a, b : a = count[i - 1] /\ b = count[i]
        OBVIOUS
      <4>3. w[i] = SubSeq(t, 1, b) /\ w[i - 1] = SubSeq(t, 1, a)
        BY <4>1, <4>2
      <4>4. a \in 0..Len(t) /\ b \in 0..Len(t)
        BY <4>1, <4>2 DEF Kept
      <4>5. CASE raw[i] = ","
        <5>1. a = b
          BY <4>1, <4>2, <4>5 DEF Kept
        <5> QED
          BY <3>2, <4>3, <4>5, <5>1
      <4>6. CASE raw[i] # ","
        <5>1. b = a + 1 /\ t[b] = raw[i]
          BY <4>1, <4>2, <4>6 DEF Kept
        <5>2. SubSeq(t, 1, a + 1) = Append(SubSeq(t, 1, a), t[a + 1])
          BY ONLY <4>4, <5>1, t \in Seq(EntryChar)
        <5> QED
          BY <3>2, <4>3, <4>6, <5>1, <5>2
      <4> QED
        BY <4>5, <4>6
    <3> QED
      BY <3>1, <3>2
  <2> HIDE DEF w
  <2>2. w = [i \in 0..n |-> w[i]]
    BY DEF w
  <2> QED
    BY <2>1, <2>2, Zenon
<1>3. Step(v)
  BY <1>2
<1> HIDE DEF v, w
<1>4. ASSUME NEW i \in 0..n
      PROVE  /\ v[i] = IF i = 0 THEN <<>> ELSE IF raw[i] = "," THEN v[i - 1] ELSE Append(v[i - 1], raw[i])
             /\ w[i] = IF i = 0 THEN <<>> ELSE IF raw[i] = "," THEN w[i - 1] ELSE Append(w[i - 1], raw[i])
  BY <1>2, <1>3
<1>5. ASSUME \E i \in 0..n : v[i] # w[i] PROVE FALSE
  <2> DEFINE S == {i \in 0..n : v[i] # w[i]}
  <2>1. S \in SUBSET Nat /\ S # {}
    BY <1>5
  <2>2. PICK m \in S : \A i \in S : m <= i
    BY <2>1, LeastPlace
  <2>3. v[0] = <<>> /\ w[0] = <<>>
    <3>1. 0 \in 0..n
      BY <1>1
    <3> QED
      BY <1>4, <3>1
  <2>4. m # 0 /\ m \in 0..n /\ v[m] # w[m]
    BY <2>3
  <2>5. m - 1 \in 0..n /\ ~ (m <= m - 1)
    BY <1>1, <2>4
  <2>6. v[m - 1] = w[m - 1]
    BY <2>2, <2>5
  <2> QED
    BY <1>4, <2>4, <2>6
<1>6. v[n] = w[n]
  BY <1>1, <1>5
<1>7. w[n] = SubSeq(t, 1, Len(t))
  <2>1. n \in 0..n
    BY <1>1
  <2>2. count[n] = Len(t)
    BY DEF Kept
  <2> QED
    BY <2>1, <2>2 DEF w
<1>8. SubSeq(t, 1, Len(t)) = t
  OBVIOUS
<1> QED
  BY <1>6, <1>7, <1>8 DEF WithoutCommas, v

(* Three texts behind each other.                                           *)
InRow(t, a, b, c) ==
  /\ t \in Seq(ShownChar) /\ Len(t) = Len(a) + Len(b) + Len(c)
  /\ \A i \in 1..Len(a) : t[i] = a[i]
  /\ \A i \in 1..Len(b) : t[Len(a) + i] = b[i]
  /\ \A i \in 1..Len(c) : t[Len(a) + Len(b) + i] = c[i]

(* The characters of three texts put together.                              *)
LEMMA RowOfThree ==
  ASSUME NEW a, a \in Seq(ShownChar), NEW b, b \in Seq(ShownChar), NEW c, c \in Seq(ShownChar)
  PROVE  InRow(a \o b \o c, a, b, c)
<1>1. PICK t : t = a \o b \o c
  OBVIOUS
<1>2. /\ t \in Seq(ShownChar) /\ Len(t) = Len(a) + Len(b) + Len(c)
      /\ \A i \in 1..Len(a) : t[i] = a[i]
      /\ \A i \in 1..Len(b) : t[Len(a) + i] = b[i]
      /\ \A i \in 1..Len(c) : t[Len(a) + Len(b) + i] = c[i]
  BY <1>1
<1> QED
  BY <1>1, <1>2 DEF InRow

(* Where the commas are, and how many characters before a place are not one. *)
LEMMA GroupedLength ==
  ASSUME NEW m \in Nat, m >= 1, NEW l, l = m + (m - 1) \div 3
  PROVE  l \in Nat /\ l - l \div 4 = m
OBVIOUS

(* The digit at a place of a grouped text, by the digits that come before   *)
(* it; a comma moves none.                                                  *)
LEMMA GroupedPlace ==
  ASSUME NEW m \in Nat, NEW l \in Nat, l - l \div 4 = m, NEW q \in 1..l,
         NEW a, a = m - (q - q \div 4), NEW b, b = m - ((q - 1) - (q - 1) \div 4)
  PROVE  /\ a \in 0..m /\ b \in 0..m
         /\ q % 4 = 0 => b = a
         /\ q % 4 # 0 => b = a + 1 /\ b = m + 1 - (q - q \div 4)
<1>1. /\ q - q \div 4 <= l - l \div 4 /\ q - q \div 4 >= 0 /\ (q - 1) - (q - 1) \div 4 <= q - q \div 4
      /\ (q - 1) - (q - 1) \div 4 >= 0
      /\ q % 4 = 0 => (q - 1) - (q - 1) \div 4 = q - q \div 4
      /\ q % 4 # 0 => (q - 1) - (q - 1) \div 4 + 1 = q - q \div 4
  OBVIOUS
<1> QED
  BY <1>1

(* Without its commas a grouped text of digits is that text.                *)
LEMMA GroupedKept ==
  ASSUME NEW int, int \in Seq(DigitChar), int # <<>>
  PROVE  Grouped(int) \in Seq(ShownChar) /\ \E count : Kept(Grouped(int), int, count)
<1>1. PICK m \in Nat : m = Len(int) /\ m >= 1
  OBVIOUS
<1>2. PICK l : l = m + (m - 1) \div 3
  OBVIOUS
<1>3. PICK count : count = [p \in 0..l |-> m - ((l - p) - (l - p) \div 4)]
  OBVIOUS
<1>4. l \in Nat /\ l - l \div 4 = m
  BY <1>1, <1>2, GroupedLength
<1>5. count[0] = 0 /\ count[l] = m
  <2>1. l - 0 = l /\ l - l = 0 /\ 0 \div 4 = 0 /\ m - m = 0 /\ 0 - 0 = 0 /\ m - 0 = m
    BY <1>1, <1>4
  <2>2. count[0] = m - ((l - 0) - (l - 0) \div 4) /\ count[l] = m - ((l - l) - (l - l) \div 4)
    BY ONLY <1>3, <1>4
  <2> QED
    BY <1>4, <2>1, <2>2
<1>6. PICK g : g = Grouped(int)
  OBVIOUS
<1>7. g = [p \in 1..l |-> LET q == l + 1 - p IN IF q % 4 = 0 THEN "," ELSE int[m + 1 - (q - q \div 4)]]
  BY <1>1, <1>2, <1>6, Zenon DEF Grouped
<1>8. ASSUME NEW p \in 1..l
      PROVE  /\ count[p - 1] \in 0..m /\ count[p] \in 0..m
             /\ \/ g[p] = "," /\ count[p] = count[p - 1]
                \/ g[p] # "," /\ count[p] = count[p - 1] + 1 /\ int[count[p]] = g[p] /\ g[p] \in DigitChar
  <2>1. PICK q, a, b : /\ q = l + 1 - p /\ a = m - ((l - (p - 1)) - (l - (p - 1)) \div 4)
                       /\ b = m - ((l - p) - (l - p) \div 4)
    OBVIOUS
  <2>2. /\ a \in 0..m /\ b \in 0..m
        /\ q % 4 = 0 => b = a
        /\ q % 4 # 0 => b = a + 1 /\ b = m + 1 - (q - q \div 4)
    <3>1. q \in 1..l /\ l - (p - 1) = q /\ l - p = q - 1
      BY <1>4, <2>1
    <3>2. a = m - (q - q \div 4) /\ b = m - ((q - 1) - (q - 1) \div 4)
      BY <2>1, <3>1
    <3> QED
      BY ONLY m \in Nat, <1>4, <3>1, <3>2, GroupedPlace
  <2>3. count[p - 1] = a /\ count[p] = b
    BY <1>3, <1>4, <2>1
  <2>4. g[p] = IF q % 4 = 0 THEN "," ELSE int[m + 1 - (q - q \div 4)]
    BY <1>7, <2>1
  <2>5. CASE q % 4 = 0
    BY <2>2, <2>3, <2>4, <2>5
  <2>6. CASE q % 4 # 0
    <3>1. g[p] = int[b] /\ b \in 1..m
      BY <1>1, <2>2, <2>4, <2>6
    <3>2. int[b] \in DigitChar
      BY <1>1, <3>1
    <3>3. g[p] # ","
      BY <3>1, <3>2 DEF DigitChar
    <3> QED
      BY <2>2, <2>3, <2>6, <3>1, <3>2, <3>3
  <2> QED
    BY <2>5, <2>6
<1>9. g \in Seq(ShownChar) /\ Len(g) = l
  <2>1. \A p \in 1..l : g[p] \in ShownChar
    BY <1>8 DEF ShownChar, EntryChar
  <2>2. DOMAIN g = 1..l /\ g = [p \in 1..l |-> g[p]]
    BY <1>7
  <2>3. g \in [1..l -> ShownChar]
    BY <2>1, <2>2
  <2> QED
    BY <1>4, <2>2, <2>3
<1>10. \A p \in 0..l : count[p] \in 0..m
  <2>1. \A p \in 0..l : p = 0 \/ p \in 1..l
    BY <1>4
  <2>2. count[0] \in 0..m
    BY <1>1, <1>5
  <2> QED
    BY <1>8, <2>1, <2>2
<1>11. Kept(g, int, count)
  BY <1>1, <1>5, <1>8, <1>9, <1>10 DEF Kept
<1> QED
  BY <1>6, <1>9, <1>11

(* All of a text without commas is kept.                                    *)
LEMMA UngroupedKept ==
  ASSUME NEW t, t \in Seq(EntryChar)
  PROVE  t \in Seq(ShownChar) /\ \E count : Kept(t, t, count)
<1>1. PICK n \in Nat : n = Len(t)
  OBVIOUS
<1>2. t \in Seq(ShownChar)
  <2>1. EntryChar \subseteq ShownChar
    BY DEF ShownChar
  <2> QED
    BY <2>1
<1>3. \A i \in 1..n : t[i] # ","
  <2>1. "," \notin EntryChar
    BY DEF EntryChar, DigitChar
  <2>2. \A i \in 1..n : t[i] \in EntryChar
    BY <1>1
  <2> QED
    BY <2>1, <2>2
<1>4. PICK count : count = [i \in 0..n |-> i]
  OBVIOUS
<1>5. count[0] = 0 /\ count[n] = n
  BY ONLY <1>1, <1>4
<1>6. \A i \in 0..n : count[i] \in 0..n
  BY ONLY <1>1, <1>4
<1>7. \A i \in 1..n : count[i] = count[i - 1] + 1 /\ count[i] = i
  BY ONLY <1>1, <1>4
<1>8. Kept(t, t, count)
  BY <1>1, <1>3, <1>5, <1>6, <1>7 DEF Kept
<1> QED
  BY <1>2, <1>8

(* replace() changes nothing in a text without commas.                      *)
LEMMA NothingToTake ==
  ASSUME NEW t, t \in Seq(EntryChar)
  PROVE  WithoutCommas(t) = t
BY UngroupedKept, KeptIsLeft

(* Commas in the middle of a text.                                          *)
Layout(f, sg, g, rest, t, int) ==
  /\ InRow(f, sg, g, rest) /\ InRow(t, sg, int, rest) /\ t \in Seq(EntryChar)
  /\ sg \in Seq(EntryChar) /\ int \in Seq(EntryChar) /\ rest \in Seq(EntryChar) /\ g \in Seq(ShownChar)

(* Commas between a sign and the end of a text are all that replace()       *)
(* takes.                                                                   *)
LEMMA KeptAround ==
  ASSUME NEW f, NEW sg, NEW g, NEW rest, NEW t, NEW int, Layout(f, sg, g, rest, t, int),
         NEW k, Kept(g, int, k)
  PROVE  WithoutCommas(f) = t
<1>1. PICK m, l, s, r, n : m = Len(int) /\ l = Len(g) /\ s = Len(sg) /\ r = Len(rest) /\ n = s + l + r
  OBVIOUS
<1>2. m \in Nat /\ l \in Nat /\ s \in Nat /\ r \in Nat /\ n \in Nat
  <2>1. m \in Nat
    BY <1>1 DEF Layout
  <2>2. l \in Nat
    BY <1>1 DEF Layout
  <2>3. s \in Nat /\ r \in Nat
    BY <1>1 DEF Layout
  <2> QED
    BY <1>1, <2>1, <2>2, <2>3
<1>3. Len(f) = n /\ Len(t) = s + m + r
  BY <1>1 DEF Layout, InRow
<1>4. PICK count : count = [i \in 0..n |-> IF i <= s THEN i ELSE IF i <= s + l THEN s + k[i - s] ELSE i - l + m]
  OBVIOUS
<1>5. k[0] = 0 /\ k[l] = m /\ \A p \in 0..l : k[p] \in 0..m
  BY <1>1 DEF Kept
<1>6. count[0] = 0 /\ count[n] = s + m + r
  <2>1. 0 \in 0..n /\ n \in 0..n /\ 0 <= s
    BY <1>1, <1>2
  <2>2. count[0] = 0
    BY <1>4, <2>1
  <2>3. count[n] = IF n <= s THEN n ELSE IF n <= s + l THEN s + k[n - s] ELSE n - l + m
    BY <1>4, <2>1
  <2> QED
    <3>1. CASE r > 0
      BY <1>1, <1>2, <2>2, <2>3, <3>1
    <3>2. CASE r = 0 /\ l > 0
      <4>1. n = s + l /\ n - s = l /\ ~ (n <= s)
        BY <1>1, <1>2, <3>2
      <4> QED
        BY <1>2, <1>5, <2>2, <2>3, <3>2, <4>1
    <3>3. CASE r = 0 /\ l = 0
      <4>1. n = s /\ m = 0
        BY <1>1, <1>2, <1>5, <3>3
      <4> QED
        BY <1>2, <2>2, <2>3, <3>3, <4>1
    <3> QED
      BY <1>2, <3>1, <3>2, <3>3
<1>7. \A i \in 0..n : count[i] \in 0..(s + m + r)
  <2> SUFFICES ASSUME NEW i \in 0..n PROVE count[i] \in 0..(s + m + r)
    OBVIOUS
  <2>1. count[i] = IF i <= s THEN i ELSE IF i <= s + l THEN s + k[i - s] ELSE i - l + m
    BY <1>4
  <2>2. i > s /\ i <= s + l => k[i - s] \in 0..m
    BY <1>2, <1>5
  <2> QED
    BY <1>1, <1>2, <2>1, <2>2, SMTT(30)
<1>8. ASSUME NEW i \in 1..n
      PROVE  \/ f[i] = "," /\ count[i] = count[i - 1]
             \/ f[i] # "," /\ count[i] = count[i - 1] + 1 /\ t[count[i]] = f[i]
  <2>1. /\ count[i] = IF i <= s THEN i ELSE IF i <= s + l THEN s + k[i - s] ELSE i - l + m
        /\ count[i - 1] = IF i - 1 <= s THEN i - 1 ELSE IF i - 1 <= s + l THEN s + k[(i - 1) - s] ELSE (i - 1) - l + m
    <3>1. i \in 0..n /\ i - 1 \in 0..n
      BY <1>2
    <3> QED
      BY <1>4, <3>1
  <2>2. "," \notin EntryChar
    BY DEF EntryChar, DigitChar
  <2>3. CASE i <= s
    <3>1. i \in 1..s /\ i - 1 <= s
      BY <1>2, <2>3
    <3>2. f[i] = sg[i] /\ t[i] = sg[i]
      BY <1>1, <3>1 DEF Layout, InRow
    <3>3. sg[i] \in EntryChar
      BY <1>1, <3>1 DEF Layout
    <3>4. count[i] = i /\ count[i - 1] = i - 1
      BY <2>1, <2>3, <3>1
    <3>5. i = (i - 1) + 1 /\ f[i] # "," /\ t[i] = f[i]
      <4>1. i = (i - 1) + 1
        BY <1>2
      <4>2. f[i] # ","
        BY ONLY <2>2, <3>2, <3>3
      <4> QED
        BY <3>2, <4>1, <4>2
    <3> QED
      BY <3>4, <3>5
  <2>4. CASE i > s /\ i <= s + l
    <3>1. PICK p \in 1..l : p = i - s /\ s + p = i /\ p - 1 = (i - 1) - s
      <4>1. i - s \in 1..l /\ s + (i - s) = i /\ (i - s) - 1 = (i - 1) - s
        BY <1>2, <2>4
      <4> QED
        BY <4>1
    <3>2. f[s + p] = g[p]
      BY <1>1, <3>1 DEF Layout, InRow
    <3>3. count[i] = s + k[p]
      BY <1>2, <2>1, <2>4, <3>1
    <3>4. count[i - 1] = s + k[p - 1]
      <4>1. CASE i - 1 <= s
        <5>1. i - 1 = s /\ p - 1 = 0
          BY <1>2, <2>4, <3>1, <4>1
        <5> QED
          BY <1>2, <1>5, <2>1, <5>1
      <4>2. CASE ~ (i - 1 <= s)
        BY <1>2, <2>1, <2>4, <3>1, <4>2
      <4> QED
        BY <4>1, <4>2
    <3>5. \/ g[p] = "," /\ k[p] = k[p - 1]
          \/ g[p] # "," /\ k[p] = k[p - 1] + 1 /\ int[k[p]] = g[p]
      BY <1>1, <3>1 DEF Kept
    <3>6. k[p] \in 0..m /\ k[p - 1] \in 0..m
      <4>1. p \in 0..l /\ p - 1 \in 0..l
        BY <1>2, <3>1
      <4> QED
        BY <1>5, <4>1
    <3>7. CASE g[p] = "," /\ k[p] = k[p - 1]
      BY <3>1, <3>2, <3>3, <3>4, <3>7
    <3>8. CASE g[p] # "," /\ k[p] = k[p - 1] + 1 /\ int[k[p]] = g[p]
      <4>0. PICK a, b : a = k[p - 1] /\ b = k[p]
        OBVIOUS
      <4>1. k[p] \in 1..m
        <5>1. a \in 0..m /\ b \in 0..m /\ b = a + 1
          BY <3>6, <3>8, <4>0
        <5>2. b \in 1..m
          BY ONLY <1>2, <5>1
        <5> QED
          BY <4>0, <5>2
      <4>2. t[s + k[p]] = int[k[p]]
        BY <1>1, <4>1 DEF Layout, InRow
      <4>3. s + k[p] = (s + k[p - 1]) + 1
        <5>1. a \in 0..m /\ b = a + 1
          BY <3>6, <3>8, <4>0
        <5>2. s + b = (s + a) + 1
          BY ONLY <1>2, <5>1
        <5> QED
          BY <4>0, <5>2
      <4> QED
        BY <3>1, <3>2, <3>3, <3>4, <3>8, <4>2, <4>3
    <3> QED
      BY <3>5, <3>7, <3>8
  <2>5. CASE i > s + l
    <3>1. PICK p \in 1..r : s + l + p = i /\ s + m + p = i - l + m
      <4>1. i - s - l \in 1..r /\ s + l + (i - s - l) = i /\ s + m + (i - s - l) = i - l + m
        BY <1>1, <1>2, <2>5
      <4> QED
        BY <4>1
    <3>2. f[s + l + p] = rest[p] /\ t[s + m + p] = rest[p]
      BY <1>1, <3>1 DEF Layout, InRow
    <3>3. rest[p] \in EntryChar
      BY <1>1, <3>1 DEF Layout
    <3>4. count[i] = s + m + p
      BY <1>2, <2>1, <2>5, <3>1
    <3>5. count[i - 1] = s + m + p - 1
      <4>1. CASE i - 1 > s + l
        BY <1>2, <2>1, <3>1, <4>1
      <4>2. CASE i - 1 = s + l /\ l > 0
        <5>1. p = 1 /\ (i - 1) - s = l /\ ~ (i - 1 <= s)
          BY <1>2, <3>1, <4>2
        <5> QED
          BY <1>2, <1>5, <2>1, <4>2, <5>1
      <4>3. CASE i - 1 = s + l /\ l = 0
        <5>1. p = 1 /\ i - 1 = s /\ m = 0
          BY <1>2, <1>5, <3>1, <4>3
        <5> QED
          BY <1>2, <2>1, <5>1
      <4> QED
        BY <1>2, <2>5, <4>1, <4>2, <4>3
    <3>6. f[i] = rest[p] /\ t[count[i]] = rest[p] /\ f[i] # ","
      BY <2>2, <3>1, <3>2, <3>3, <3>4
    <3>7. count[i] = count[i - 1] + 1
      BY <1>2, <3>4, <3>5
    <3> QED
      BY <3>6, <3>7
  <2>6. i <= s \/ (i > s /\ i <= s + l) \/ i > s + l
    BY <1>2
  <2> QED
    BY <2>3, <2>4, <2>5, <2>6
<1>9. Kept(f, t, count)
  BY <1>3, <1>6, <1>7, <1>8 DEF Kept
<1>10. f \in Seq(ShownChar) /\ t \in Seq(EntryChar)
  BY DEF Layout, InRow
<1> QED
  BY <1>9, <1>10, KeptIsLeft

(* An entry as it is typed: no exponent, a sign in front only, and no more  *)
(* digits before the point than a finite number has.                        *)
PlainEntry(t) ==
  /\ NormalEntry(t)
  /\ \A i \in DOMAIN t : t[i] \in DigitChar \cup {"."} \/ (i = 1 /\ t[i] = "-")
  /\ \A i \in DOMAIN t : (\A j \in 1..i : t[j] # ".") => i <= MaxPoint + (IF t[1] = "-" THEN 1 ELSE 0)

Body(m, int, frac, rest) ==
  /\ Mantissa(m, int, frac) /\ rest \in Seq(EntryChar) /\ int \in Seq(EntryChar)
  /\ rest = SubSeq(m, JsPlace(m, "."), Len(m)) /\ Len(m) = Len(int) + Len(rest)
  /\ \A i \in 1..Len(int) : m[i] = int[i] /\ m[i] # "."
  /\ \A i \in 1..Len(rest) : m[Len(int) + i] = rest[i]

(* A text of digits with at most one point is an integer part and what      *)
(* follows, the point included.                                             *)
LEMMA BodyParts ==
  ASSUME NEW m, m \in Seq(EntryChar), Len(m) >= 1, m[1] \in DigitChar,
         \A i \in DOMAIN m : m[i] \in DigitChar \cup {"."},
         \A i, j \in DOMAIN m : m[i] = "." /\ m[j] = "." => i = j
  PROVE  \E int, frac, rest : Body(m, int, frac, rest)
<1>1. PICK n \in Nat : n = Len(m) /\ n >= 1
  OBVIOUS
<1>2. DOMAIN m = 1..n
  BY <1>1
<1>3. DigitChar \subseteq EntryChar /\ "." \notin DigitChar /\ "." \in EntryChar
  BY DEF DigitChar, EntryChar
<1>4. CASE \A i \in 1..n : m[i] # "."
  <2>1. PICK none : none = <<>>
    OBVIOUS
  <2>2. none \in Seq(DigitChar) /\ none \in Seq(EntryChar) /\ Len(none) = 0
    BY <2>1
  <2>3. \A i \in 1..n : m[i] \in DigitChar
    BY <1>2, <1>4
  <2>4. m \in Seq(DigitChar) /\ m # <<>>
    BY <1>1, <2>3
  <2>5. JsPlace(m, ".") = n + 1
    BY <1>1, <1>4, PlaceMissing
  <2>6. SubSeq(m, n + 1, n) = none
    BY <1>1, <2>1
  <2>7. Mantissa(m, m, none)
    BY <2>1, <2>2, <2>4 DEF Mantissa
  <2>8. Body(m, m, none, none)
    BY <1>1, <1>4, <2>2, <2>5, <2>6, <2>7 DEF Body
  <2> QED
    BY <2>8
<1>5. CASE \E i \in 1..n : m[i] = "."
  <2>1. PICK p \in 1..n : m[p] = "."
    BY <1>5
  <2>2. \A i \in 1..n : i # p => m[i] # "." /\ m[i] \in DigitChar
    BY <1>2, <2>1
  <2>3. p # 1
    BY <1>3, <2>1
  <2>4. JsPlace(m, ".") = p
    <3>1. \A i \in 1..(p - 1) : m[i] # "."
      BY <1>1, <2>2
    <3> QED
      BY <1>1, <2>1, <3>1, PlaceFound
  <2>5. PICK int, frac, rest : int = SubSeq(m, 1, p - 1) /\ frac = SubSeq(m, p + 1, n) /\ rest = SubSeq(m, p, n)
    OBVIOUS
  <2>6. /\ int \in Seq(EntryChar) /\ Len(int) = p - 1 /\ \A i \in 1..(p - 1) : int[i] = m[i]
    BY ONLY <1>1, <2>1, <2>5, m \in Seq(EntryChar)
  <2>7. frac \in Seq(EntryChar) /\ Len(frac) = n - p
    BY ONLY <1>1, <2>1, <2>5, m \in Seq(EntryChar)
  <2>8. \A i \in 1..(n - p) : frac[i] = m[p + i]
    BY ONLY <1>1, <2>1, <2>5, m \in Seq(EntryChar)
  <2>9. rest \in Seq(EntryChar) /\ Len(rest) = n - p + 1
    BY ONLY <1>1, <2>1, <2>5, m \in Seq(EntryChar)
  <2>10. \A i \in 1..(n - p + 1) : rest[i] = m[p - 1 + i]
    BY ONLY <1>1, <2>1, <2>5, m \in Seq(EntryChar)
  <2>11. int \in Seq(DigitChar) /\ int # <<>>
    <3>1. \A i \in 1..(p - 1) : int[i] \in DigitChar
      BY <1>1, <2>2, <2>6
    <3> QED
      BY <2>3, <2>6, <3>1
  <2>12. frac \in Seq(DigitChar)
    <3>1. ASSUME NEW i \in 1..(n - p) PROVE frac[i] \in DigitChar
      <4>1. p + i \in 1..n /\ p + i # p
        BY <1>1
      <4> QED
        BY <2>2, <2>8, <4>1
    <3> QED
      BY <2>7, <3>1
  <2>13. m = Joined(int, ".", frac)
    <3>1. PICK u : u = Joined(int, ".", frac)
      OBVIOUS
    <3>2. Parts(u, int, ".", frac)
      BY <1>3, <2>6, <2>7, <3>1, JoinedParts
    <3>3. /\ u \in Seq(EntryChar) /\ Len(u) = n
          /\ \A i \in 1..(p - 1) : u[i] = m[i]
          /\ u[p] = m[p]
          /\ \A i \in 1..(n - p) : u[p + i] = frac[i]
      <4>1. u \in Seq(EntryChar) /\ Len(u) = (p - 1) + 1 + (n - p)
        BY <2>6, <2>7, <3>2 DEF Parts
      <4>2. \A i \in 1..(p - 1) : u[i] = int[i]
        BY <2>6, <3>2 DEF Parts
      <4>3. u[(p - 1) + 1] = "." /\ (p - 1) + 1 = p
        BY <2>6, <3>2 DEF Parts
      <4>4. \A i \in 1..(n - p) : u[(p - 1) + 1 + i] = frac[i]
        BY <2>6, <2>7, <3>2 DEF Parts
      <4> QED
        BY <1>1, <2>1, <2>6, <4>1, <4>2, <4>3, <4>4
    <3>4. ASSUME NEW i \in 1..n PROVE u[i] = m[i]
      <4>1. CASE i <= p - 1
        BY <1>1, <3>3, <4>1
      <4>2. CASE i = p
        BY <3>3, <4>2
      <4>3. CASE i > p
        <5>1. i - p \in 1..(n - p) /\ p + (i - p) = i
          BY <1>1, <4>3
        <5>2. u[p + (i - p)] = frac[i - p] /\ frac[i - p] = m[p + (i - p)]
          BY <2>8, <3>3, <5>1
        <5> QED
          BY <5>1, <5>2
      <4> QED
        BY <1>1, <4>1, <4>2, <4>3
    <3> QED
      BY <1>1, <3>1, <3>3, <3>4
  <2>14. Mantissa(m, int, frac)
    BY <2>11, <2>12, <2>13 DEF Mantissa
  <2>15. \A i \in 1..Len(int) : m[i] = int[i] /\ m[i] # "."
    BY <1>1, <2>2, <2>6
  <2>16. \A i \in 1..Len(rest) : m[Len(int) + i] = rest[i]
    BY <2>6, <2>9, <2>10
  <2>17. Len(m) = Len(int) + Len(rest) /\ rest = SubSeq(m, JsPlace(m, "."), Len(m))
    <3>1. Len(m) = Len(int) + Len(rest)
      BY <1>1, <2>6, <2>9
    <3>2. rest = SubSeq(m, JsPlace(m, "."), Len(m))
      BY ONLY <1>1, <2>4, <2>5
    <3> QED
      BY <3>1, <3>2
  <2>18. Body(m, int, frac, rest)
    BY <2>6, <2>9, <2>14, <2>15, <2>16, <2>17 DEF Body
  <2> QED
    BY <2>18
<1> QED
  BY <1>4, <1>5

(* Grouping an integer that is written as String() does.                    *)
LEMMA GroupShape ==
  ASSUME NEW int, int \in Seq(DigitChar), int # <<>>, int[1] = "0" => Len(int) = 1
  PROVE  groupIntegerPart(int) \in {int, Grouped(int)}
<1>1. PICK m \in Nat : m = Len(int) /\ m >= 1
  OBVIOUS
<1>2. PICK none, neg, num : none = <<>> /\ neg = FALSE /\ num = JsNumberOf(int)
  OBVIOUS
<1>3. num = JsRound(neg, int, m)
  <2>1. none \in Seq(DigitChar) /\ int \o none = int
    BY <1>2
  <2>2. Mantissa(int, int, none)
    BY <1>2, <2>1 DEF Mantissa
  <2>3. PICK t : t = Sign(neg) \o int
    OBVIOUS
  <2>4. t = int
    <3>1. Sign(neg) = none
      BY <1>2 DEF Sign
    <3>2. none \o int = int
      BY <1>2
    <3> QED
      BY <2>3, <3>1, <3>2
  <2>5. neg \in BOOLEAN
    BY <1>2
  <2>6. JsNumberOf(t) = JsRound(neg, int \o none, Len(int))
    BY ONLY <2>2, <2>3, <2>5, ParsePlain, ZenonT(60)
  <2> QED
    BY <1>1, <1>2, <2>1, <2>4, <2>6
<1>4. groupIntegerPart(int) =
        IF num \in JsNonFinite THEN int
        ELSE IF num.point < 1 THEN <<"0">>
        ELSE Grouped(num.digits \o JsZeros(num.point - Len(num.digits)))
  BY <1>2 DEF groupIntegerPart
<1>5. CASE int[1] = "0"
  <2>1. \A i \in DOMAIN int : int[i] = "0"
    BY <1>1, <1>5
  <2>2. num = JsFinite(neg, <<>>, 0)
    BY <1>3, <2>1, RoundZeros
  <2>3. num \notin JsNonFinite /\ num.point = 0
    BY <2>2, FiniteFacts
  <2>4. int = <<"0">>
    BY <1>1, <1>5
  <2> QED
    BY <1>4, <2>3, <2>4
<1>6. CASE int[1] # "0"
  <2>1. \E b \in 1..m : int[b] # "0" /\ \A i \in 1..m : int[i] # "0" => i <= b
    <3>1. PICK S : S = {i \in 1..m : int[i] # "0"}
      OBVIOUS
    <3>2. S \in SUBSET (1..m) /\ S # {}
      BY <1>1, <1>6, <3>1
    <3>3. PICK b \in S : \A i \in S : i <= b
      BY <3>2, GreatestPlace
    <3> QED
      BY <3>1, <3>3
  <2>2. PICK b \in 1..m : int[b] # "0" /\ \A i \in 1..m : int[i] # "0" => i <= b
    BY <2>1
  <2>3. PICK a : a = 1
    OBVIOUS
  <2>4. /\ a \in 1..Len(int) /\ b \in 1..Len(int) /\ int[a] # "0" /\ m \in Int
        /\ \A i \in 1..Len(int) : int[i] # "0" => a <= i /\ i <= b
    BY <1>1, <1>6, <2>2, <2>3
  <2>5. num = IF m - a + 1 < -TinyPoint THEN JsFinite(neg, <<>>, 0)
              ELSE IF m - a + 1 > MaxPoint THEN JsInfinity(neg)
              ELSE JsFinite(neg, SubSeq(int, a, b), m - a + 1)
    BY <1>3, <2>2, <2>4, RoundTrimmed
  <2>6. ~ (m - a + 1 < -TinyPoint) /\ m - a + 1 = m
    BY <1>1, <2>3, JsRangeAssumption
  <2>7. CASE m > MaxPoint
    <3>1. num = JsInfinity(neg)
      BY <2>5, <2>6, <2>7
    <3>2. num \in JsNonFinite
      BY <1>2, <3>1 DEF JsNonFinite
    <3> QED
      BY <1>4, <3>2
  <2>8. CASE ~ (m > MaxPoint)
    <3>1. PICK d, z : d = SubSeq(int, a, b) /\ z = JsZeros(m - b)
      OBVIOUS
    <3>2. num = JsFinite(neg, d, m)
      BY <2>5, <2>6, <2>8, <3>1
    <3>3. num \notin JsNonFinite /\ num.point = m /\ num.digits = d
      BY <3>2, FiniteFacts
    <3>4. d \in Seq(DigitChar) /\ Len(d) = b /\ \A i \in 1..b : d[i] = int[i]
      BY ONLY <1>1, <2>2, <2>3, <3>1, int \in Seq(DigitChar)
    <3>5. z \in Seq(DigitChar) /\ Len(z) = m - b /\ \A i \in 1..(m - b) : z[i] = "0"
      <4>1. m - b \in Nat
        BY <1>1
      <4> QED
        BY <3>1, <4>1, Zeros
    <3>6. d \o z = int
      <4>1. PICK u : u = d \o z
        OBVIOUS
      <4>2. Chained(u, d, z)
        BY <3>4, <3>5, <4>1, Chain
      <4>3. u \in Seq(DigitChar) /\ Len(u) = b + (m - b) /\ \A i \in 1..b : u[i] = d[i]
        BY <3>4, <3>5, <4>2 DEF Chained
      <4>4. \A i \in 1..(m - b) : u[b + i] = z[i]
        BY <3>4, <3>5, <4>2 DEF Chained
      <4>5. ASSUME NEW i \in 1..m PROVE u[i] = int[i]
        <5>1. CASE i <= b
          BY <1>1, <3>4, <4>3, <5>1
        <5>2. CASE i > b
          <6>1. i - b \in 1..(m - b) /\ b + (i - b) = i
            BY <1>1, <5>2
          <6>2. u[i] = "0"
            BY <3>5, <4>4, <6>1
          <6>3. int[i] = "0"
            BY <1>1, <2>2, <5>2
          <6> QED
            BY <6>2, <6>3
        <5> QED
          BY <5>1, <5>2
      <4>6. Len(u) = m
        BY <1>1, <4>3
      <4> QED
        BY <1>1, <4>1, <4>3, <4>5, <4>6
    <3>7. ~ (m < 1)
      BY <1>1
    <3> QED
      BY <1>4, <3>1, <3>3, <3>4, <3>6, <3>7
  <2> QED
    BY <2>7, <2>8
<1> QED
  BY <1>5, <1>6

EntryParts(t, neg, m, int, frac, rest) ==
  /\ neg = (t # <<>> /\ t[1] = "-") /\ neg \in BOOLEAN /\ m = IF neg THEN Tail(t) ELSE t
  /\ Body(m, int, frac, rest) /\ t = Sign(neg) \o m
  /\ (int[1] = "0" => Len(int) = 1) /\ Len(int) <= MaxPoint
  /\ InRow(t, Sign(neg), int, rest)

(* A plain entry is a sign, an integer part and what follows.               *)
LEMMA PlainParts ==
  ASSUME NEW t, PlainEntry(t)
  PROVE  \E neg, m, int, frac, rest : EntryParts(t, neg, m, int, frac, rest)
<1>1. PICK neg : neg = (t # <<>> /\ t[1] = "-") /\ neg \in BOOLEAN /\ (neg <=> (t # <<>> /\ t[1] = "-"))
  OBVIOUS
<1>2. PICK o : o = (IF neg THEN 1 ELSE 0) /\ o = IF t # <<>> /\ t[1] = "-" THEN 1 ELSE 0
  BY <1>1
<1>3. PICK n : n = Len(t)
  OBVIOUS
<1>4. /\ t \in Seq(EntryChar) /\ n \in Nat /\ n >= o + 1 /\ t[o + 1] \in DigitChar
      /\ n > o + 1 /\ t[o + 1] = "0" => t[o + 2] = "."
  <2>1. PICK first : first = IF t # <<>> /\ t[1] = "-" THEN 2 ELSE 1
    OBVIOUS
  <2>2. /\ t \in Seq(EntryChar) /\ Len(t) >= first /\ t[first] \in DigitChar
        /\ Len(t) > first /\ t[first] = "0" => t[first + 1] = "."
    BY <2>1, Zenon DEF PlainEntry, NormalEntry
  <2>3. first = o + 1 /\ first + 1 = o + 2
    BY <1>2, <2>1
  <2>4. n \in Nat
    BY <1>3, <2>2
  <2> QED
    BY <1>3, <2>2, <2>3, <2>4
<1>5. /\ \A i, j \in 1..n : t[i] = "." /\ t[j] = "." => i = j
      /\ \A i \in 1..n : t[i] \in DigitChar \cup {"."} \/ (i = 1 /\ t[i] = "-")
      /\ \A i \in 1..n : (\A j \in 1..i : t[j] # ".") => i <= MaxPoint + o
  <2>1. DOMAIN t = 1..n
    BY <1>3, <1>4
  <2>2. \A i, j \in 1..n : t[i] = "." /\ t[j] = "." => i = j
    BY <2>1 DEF PlainEntry, NormalEntry
  <2>3. \A i \in 1..n : t[i] \in DigitChar \cup {"."} \/ (i = 1 /\ t[i] = "-")
    BY <2>1 DEF PlainEntry
  <2>4. t # <<>>
    BY <1>2, <1>3, <1>4
  <2>5. o = IF t[1] = "-" THEN 1 ELSE 0
    BY <1>1, <1>2, <2>4
  <2>6. \A i \in 1..n : (\A j \in 1..i : t[j] # ".") => i <= MaxPoint + o
    BY <2>1, <2>5 DEF PlainEntry
  <2> QED
    BY <2>2, <2>3, <2>6
<1>6. PICK m, sg : m = (IF neg THEN Tail(t) ELSE t) /\ sg = Sign(neg)
  OBVIOUS
<1>7. /\ m \in Seq(EntryChar) /\ Len(m) = n - o /\ \A i \in 1..(n - o) : m[i] = t[o + i]
  <2>1. CASE neg
    BY <1>2, <1>3, <1>4, <1>6, <2>1
  <2>2. CASE ~neg
    BY <1>2, <1>3, <1>4, <1>6, <2>2
  <2> QED
    BY <2>1, <2>2
<1>8. sg \in Seq(EntryChar) /\ Len(sg) = o /\ \A i \in 1..o : t[i] = sg[i]
  <2>1. CASE neg
    <3>1. sg = <<"-">> /\ "-" \in EntryChar
      BY <1>6, <2>1 DEF Sign, EntryChar
    <3>2. sg \in Seq(EntryChar) /\ Len(sg) = 1 /\ sg[1] = "-"
      BY <3>1
    <3>3. o = 1 /\ t[1] = "-"
      BY <1>1, <1>2, <2>1
    <3> QED
      BY <3>2, <3>3
  <2>2. CASE ~neg
    BY <1>2, <1>4, <1>6, <2>2 DEF Sign
  <2> QED
    BY <1>1, <2>1, <2>2
<1>9. \A i \in DOMAIN m : m[i] \in DigitChar \cup {"."}
  <2> SUFFICES ASSUME NEW i \in 1..(n - o) PROVE m[i] \in DigitChar \cup {"."}
    BY <1>7
  <2>1. o + i \in 1..n /\ m[i] = t[o + i]
    BY <1>2, <1>4, <1>7
  <2>2. CASE t[o + i] \in DigitChar \cup {"."}
    BY <2>1, <2>2
  <2>3. CASE o + i = 1 /\ t[o + i] = "-"
    <3>1. o = 0
      BY <1>2, <2>3
    <3>2. n # 0 /\ t[1] = "-"
      BY <1>4, <2>3, <3>1
    <3>3. t # <<>>
      BY <1>3, <1>4, <3>2
    <3> QED
      BY <1>2, <3>1, <3>2, <3>3
  <2> QED
    BY <1>5, <2>1, <2>2, <2>3
<1>10. \A i, j \in DOMAIN m : m[i] = "." /\ m[j] = "." => i = j
  <2> SUFFICES ASSUME NEW i \in 1..(n - o), NEW j \in 1..(n - o), m[i] = ".", m[j] = "." PROVE i = j
    BY <1>7
  <2>1. o + i \in 1..n /\ o + j \in 1..n /\ o \in Nat
    BY <1>2, <1>4
  <2>2. o + i = o + j
    BY <1>5, <1>7, <2>1
  <2> QED
    BY <2>1, <2>2
<1>11. Len(m) >= 1 /\ m[1] \in DigitChar
  <2>1. o \in Nat
    BY <1>2
  <2>2. 1 \in 1..(n - o)
    BY <1>4, <2>1
  <2> QED
    BY <1>4, <1>7, <2>1, <2>2
<1>12. PICK int, frac, rest : Body(m, int, frac, rest)
  BY <1>7, <1>9, <1>10, <1>11, BodyParts
<1>13. PICK a \in Nat, b \in Nat : a = Len(int) /\ b = Len(rest) /\ a >= 1
  <2>1. int \in Seq(EntryChar) /\ rest \in Seq(EntryChar) /\ int # <<>>
    BY <1>12 DEF Body, Mantissa
  <2> QED
    BY <2>1
<1>14. /\ n - o = a + b /\ \A i \in 1..a : m[i] = int[i] /\ m[i] # "."
       /\ \A i \in 1..b : m[a + i] = rest[i]
  BY <1>7, <1>12, <1>13 DEF Body
<1>15. o \in Nat /\ o <= 1
  BY <1>2
<1>16. int[1] = "0" => Len(int) = 1
  <2> SUFFICES ASSUME int[1] = "0", a # 1 PROVE FALSE
    BY <1>13
  <2>1. 1 \in 1..a /\ 2 \in 1..a /\ 1 \in 1..(n - o) /\ 2 \in 1..(n - o) /\ n > o + 1
    BY <1>4, <1>13, <1>14, <1>15
  <2>2. t[o + 1] = "0" /\ t[o + 2] = m[2] /\ m[2] # "."
    BY <1>7, <1>14, <2>1
  <2> QED
    BY <1>4, <2>1, <2>2
<1>17. a <= MaxPoint
  <2>1. o + a \in 1..n
    BY <1>4, <1>13, <1>14, <1>15
  <2>2. ASSUME NEW j \in 1..(o + a) PROVE t[j] # "."
    <3>1. CASE j <= o
      <4>1. o = 1 /\ j = 1
        BY <1>15, <3>1
      <4>2. t[1] = "-"
        <5>1. neg
          BY <1>1, <1>2, <4>1
        <5> QED
          BY <1>1, <5>1
      <4> QED
        BY <4>1, <4>2
    <3>2. CASE j > o
      <4>1. j - o \in 1..a /\ j - o \in 1..(n - o) /\ o + (j - o) = j
        BY <1>4, <1>13, <1>14, <1>15, <3>2
      <4> QED
        BY <1>7, <1>14, <4>1
    <3> QED
      BY <1>13, <1>15, <3>1, <3>2
  <2>3. o + a <= MaxPoint + o
    BY <1>5, <2>1, <2>2
  <2> QED
    BY <1>13, <1>15, <2>3, JsRangeAssumption
<1>18. t = sg \o m
  <2>1. PICK u : u = sg \o m
    OBVIOUS
  <2>2. /\ u \in Seq(EntryChar) /\ Len(u) = o + (n - o) /\ \A i \in 1..o : u[i] = sg[i]
        /\ \A i \in 1..(n - o) : u[o + i] = m[i]
    BY ONLY <1>4, <1>7, <1>8, <1>15, <2>1, SMTT(30)
  <2>3. ASSUME NEW i \in 1..n PROVE u[i] = t[i]
    <3>1. CASE i <= o
      BY <1>8, <1>15, <2>2, <3>1
    <3>2. CASE i > o
      <4>1. i - o \in 1..(n - o) /\ o + (i - o) = i
        BY <1>4, <1>15, <3>2
      <4> QED
        BY <1>7, <2>2, <4>1
    <3> QED
      BY <1>15, <3>1, <3>2
  <2>4. Len(u) = n
    BY <1>4, <1>15, <2>2
  <2>5. u = t
    BY ONLY <1>3, <1>4, <2>2, <2>3, <2>4
  <2> QED
    BY <2>1, <2>5
<1>19. InRow(t, sg, int, rest)
  <2>1. t \in Seq(ShownChar)
    <3>1. EntryChar \subseteq ShownChar
      BY DEF ShownChar
    <3> QED
      BY <1>4, <3>1
  <2>2. Len(t) = Len(sg) + Len(int) + Len(rest)
    BY <1>3, <1>4, <1>8, <1>13, <1>14, <1>15
  <2>3. \A i \in 1..Len(sg) : t[i] = sg[i]
    BY <1>8
  <2>4. ASSUME NEW i \in 1..a PROVE t[o + i] = int[i]
    <3>1. i \in 1..(n - o)
      BY <1>4, <1>13, <1>14, <1>15
    <3> QED
      BY <1>7, <1>14, <3>1
  <2>5. ASSUME NEW i \in 1..b PROVE t[o + a + i] = rest[i]
    <3>1. a + i \in 1..(n - o) /\ o + (a + i) = o + a + i
      BY <1>4, <1>13, <1>14, <1>15
    <3> QED
      BY <1>7, <1>14, <3>1
  <2> QED
    BY <1>8, <1>13, <2>1, <2>2, <2>3, <2>4, <2>5 DEF InRow
<1>20. EntryParts(t, neg, m, int, frac, rest)
  BY <1>1, <1>6, <1>12, <1>13, <1>16, <1>17, <1>18, <1>19 DEF EntryParts
<1> QED
  BY <1>20

(* What is typed is read off the display again.                             *)
THEOREM EntryReadsBack ==
  ASSUME NEW t, PlainEntry(t)
  PROVE  WithoutCommas(formatEntry(t)) = t
<1>1. PICK neg, m, int, frac, rest : EntryParts(t, neg, m, int, frac, rest)
  BY PlainParts
<1>2. PICK sg, g : sg = Sign(neg) /\ g = groupIntegerPart(int)
  OBVIOUS
<1>3. Body(m, int, frac, rest) /\ Mantissa(m, int, frac) /\ neg = (t # <<>> /\ t[1] = "-") /\ neg \in BOOLEAN
  BY <1>1 DEF EntryParts, Body
<1>4. JsBefore(m, ".") = int
  BY <1>3, MantissaParts
<1>5. PICK f : f = sg \o g \o rest
  OBVIOUS
<1>6. f = formatEntry(t)
  <2>1. m = IF neg THEN Tail(t) ELSE t
    BY <1>1 DEF EntryParts
  <2>2. rest = SubSeq(m, JsPlace(m, "."), Len(m))
    BY <1>3 DEF Body
  <2>3. sg = IF neg THEN <<"-">> ELSE <<>>
    BY <1>2 DEF Sign
  <2>4. formatEntry(t) = (IF neg THEN <<"-">> ELSE <<>>) \o groupIntegerPart(JsBefore(m, "."))
                         \o SubSeq(m, JsPlace(m, "."), Len(m))
    BY <1>3, <2>1, Zenon DEF formatEntry
  <2> QED
    BY <1>2, <1>4, <1>5, <2>2, <2>3, <2>4
<1>7. int \in Seq(DigitChar) /\ int # <<>> /\ (int[1] = "0" => Len(int) = 1) /\ int \in Seq(EntryChar) /\ rest \in Seq(EntryChar)
  BY <1>1, <1>3 DEF EntryParts, Body, Mantissa
<1>8. g \in Seq(ShownChar) /\ \E count : Kept(g, int, count)
  <2>1. CASE g = int
    BY <1>7, <2>1, UngroupedKept
  <2>2. CASE g = Grouped(int)
    BY <1>7, <2>2, GroupedKept
  <2> QED
    BY <1>2, <1>7, <2>1, <2>2, GroupShape
<1>9. t \in Seq(EntryChar) /\ InRow(t, sg, int, rest)
  BY <1>1, <1>2 DEF EntryParts, PlainEntry, NormalEntry
<1>10. sg \in Seq(EntryChar)
  <2>1. <<>> \in Seq(EntryChar) /\ <<"-">> \in Seq(EntryChar)
    BY DEF EntryChar
  <2> QED
    BY <1>2, <2>1 DEF Sign
<1>11. InRow(f, sg, g, rest)
  <2>1. sg \in Seq(ShownChar) /\ rest \in Seq(ShownChar)
    BY <1>7, <1>10, UngroupedKept
  <2> QED
    BY <1>5, <1>8, <2>1, RowOfThree
<1>12. Layout(f, sg, g, rest, t, int)
  BY <1>7, <1>8, <1>9, <1>10, <1>11 DEF Layout
<1>13. PICK count : Kept(g, int, count)
  BY <1>8
<1> QED
  BY <1>6, <1>12, <1>13, KeptAround

(* A plain entry is read as a number that is not infinite.                  *)
LEMMA EntryFinite ==
  ASSUME NEW t, PlainEntry(t)
  PROVE  IsJsNumber(JsNumberOf(t)) /\ JsNumberOf(t) \notin JsNonFinite
<1>1. PICK neg, m, int, frac, rest : EntryParts(t, neg, m, int, frac, rest)
  BY PlainParts
<1>2. /\ neg \in BOOLEAN /\ Mantissa(m, int, frac) /\ t = Sign(neg) \o m /\ Len(int) <= MaxPoint
      /\ int \in Seq(DigitChar) /\ frac \in Seq(DigitChar)
  BY <1>1 DEF EntryParts, Body, Mantissa
<1>3. JsNumberOf(t) = JsRound(neg, int \o frac, Len(int))
  <2>1. PICK u : u = Sign(neg) \o m
    OBVIOUS
  <2>2. neg \in BOOLEAN /\ Mantissa(m, int, frac)
    BY <1>2
  <2>3. JsNumberOf(u) = JsRound(neg, int \o frac, Len(int))
    BY ONLY <2>1, <2>2, ParsePlain, ZenonT(60)
  <2> QED
    BY <1>2, <2>1, <2>3
<1>4. PICK d, p : d = int \o frac /\ p = Len(int)
  OBVIOUS
<1>5. d \in Seq(DigitChar) /\ p \in Int /\ p <= MaxPoint
  BY <1>2, <1>4
<1>6. IsJsNumber(JsRound(neg, d, p)) /\ JsRound(neg, d, p) \notin JsNonFinite
  <2>1. neg \in BOOLEAN
    BY <1>2
  <2> QED
    BY ONLY <1>5, <2>1, RoundForm
<1> QED
  BY <1>3, <1>4, <1>6

-----------------------------------------------------------------------------
(* The edits keep an entry plain.                                           *)

PlainShort(t, n, o) ==
  /\ t \in Seq(EntryChar) /\ n \in Nat /\ n = Len(t) /\ DOMAIN t = 1..n /\ n >= 1
  /\ o \in {0, 1} /\ (o = 1 <=> t[1] = "-") /\ o + 1 <= n
  /\ \A i \in 1..n : i > o => t[i] \in DigitChar \cup {"."}
  /\ \A i \in 1..n : (\A j \in 1..i : t[j] # ".") => i <= MaxPoint + o

(* What is plain about a normal entry, by its length and the place before   *)
(* its first digit.                                                         *)
LEMMA PlainFacts ==
  ASSUME NEW t, NormalEntry(t)
  PROVE  PlainEntry(t) <=> \E n, o : PlainShort(t, n, o)
<1>1. PICK n, o : n = Len(t) /\ o = First(t) - 1
  OBVIOUS
<1>2. /\ t \in Seq(EntryChar) /\ n \in Nat /\ n >= First(t) /\ DOMAIN t = 1..n /\ n >= 1
      /\ o \in {0, 1} /\ o + 1 <= n /\ t[First(t)] \in DigitChar
  BY <1>1, NormalFacts, FirstFacts
<1>3. o = 1 <=> t[1] = "-"
  <2>1. t # <<>>
    BY <1>1, <1>2
  <2> QED
    BY <1>1, <2>1 DEF First
<1>4. o = IF t[1] = "-" THEN 1 ELSE 0
  BY <1>2, <1>3
<1>5. ASSUME PlainEntry(t) PROVE PlainShort(t, n, o)
  <2>1. ASSUME NEW i \in 1..n, i > o PROVE t[i] \in DigitChar \cup {"."}
    <3>1. t[i] \in DigitChar \cup {"."} \/ (i = 1 /\ t[i] = "-")
      BY <1>2, <1>5 DEF PlainEntry
    <3> QED
      BY <1>2, <1>3, <2>1, <3>1
  <2>2. \A i \in 1..n : (\A j \in 1..i : t[j] # ".") => i <= MaxPoint + o
    BY <1>2, <1>4, <1>5 DEF PlainEntry
  <2> QED
    BY <1>1, <1>2, <1>3, <2>1, <2>2 DEF PlainShort
<1>6. ASSUME NEW k, NEW p, PlainShort(t, k, p) PROVE PlainEntry(t)
  <2>1. k = n /\ p = o
    BY <1>1, <1>2, <1>3, <1>6 DEF PlainShort
  <2>2. ASSUME NEW i \in 1..n PROVE t[i] \in DigitChar \cup {"."} \/ (i = 1 /\ t[i] = "-")
    <3>1. i > o => t[i] \in DigitChar \cup {"."}
      BY <1>6, <2>1 DEF PlainShort
    <3>2. ~ (i > o) => i = 1 /\ o = 1
      BY <1>2
    <3> QED
      BY <1>3, <3>1, <3>2
  <2>3. \A i \in 1..n : (\A j \in 1..i : t[j] # ".") => i <= MaxPoint + o
    BY <1>6, <2>1 DEF PlainShort
  <2> QED
    BY <1>2, <1>4, <2>2, <2>3 DEF PlainEntry
<1> QED
  BY <1>5, <1>6

(* Typing behind a plain text: a point, or a digit while there is room.     *)
LEMMA AppendPlain ==
  ASSUME NEW t, NEW n, NEW o, PlainShort(t, n, o), NEW c \in DigitChar \cup {"."},
         c = "." \/ HasChar(t, ".") \/ n + 1 <= MaxPoint + o
  PROVE  PlainShort(Append(t, c), n + 1, o)
<1>1. /\ t \in Seq(EntryChar) /\ n \in Nat /\ n = Len(t) /\ DOMAIN t = 1..n /\ n >= 1
      /\ o \in {0, 1} /\ (o = 1 <=> t[1] = "-") /\ o + 1 <= n
      /\ \A i \in 1..n : i > o => t[i] \in DigitChar \cup {"."}
      /\ \A i \in 1..n : (\A j \in 1..i : t[j] # ".") => i <= MaxPoint + o
  BY DEF PlainShort
<1>2. PICK u : u = Append(t, c)
  OBVIOUS
<1>3. /\ u \in Seq(EntryChar) /\ Len(u) = n + 1 /\ DOMAIN u = 1..(n + 1) /\ u[n + 1] = c
      /\ \A i \in 1..n : u[i] = t[i]
  BY <1>1, <1>2 DEF EntryChar
<1>4. u[1] = t[1]
  BY <1>1, <1>3
<1>5. ASSUME NEW i \in 1..(n + 1), i > o PROVE u[i] \in DigitChar \cup {"."}
  BY <1>1, <1>3, <1>5
<1>6. ASSUME NEW i \in 1..(n + 1), \A j \in 1..i : u[j] # "." PROVE i <= MaxPoint + o
  <2>1. CASE i = n + 1
    <3>1. c # "."
      BY <1>3, <1>6, <2>1
    <3>2. \A j \in 1..n : t[j] # "."
      BY <1>1, <1>3, <1>6, <2>1
    <3> QED
      BY <1>1, <2>1, <3>1, <3>2 DEF HasChar
  <2>2. CASE i # n + 1
    <3>1. i \in 1..n
      BY <1>1, <2>2
    <3>2. ASSUME NEW j \in 1..i PROVE t[j] # "."
      <4>1. j \in 1..n
        BY <1>1, <3>1
      <4>2. u[j] = t[j] /\ u[j] # "."
        BY <1>3, <1>6, <4>1
      <4> QED
        BY <4>2
    <3> QED
      BY <1>1, <3>1, <3>2
  <2> QED
    BY <2>1, <2>2
<1> QED
  BY <1>1, <1>2, <1>3, <1>4, <1>5, <1>6 DEF PlainShort

(* The entries a key begins with are plain.                                 *)
LEMMA ZeroPlain == PlainEntry(<<"0">>) /\ PlainEntry(<<"0", ".">>) /\ \A d \in DigitChar : PlainEntry(<<d>>)
<1>1. ASSUME NEW d \in DigitChar, NEW t, t = <<d>> PROVE PlainEntry(t) /\ PlainShort(t, 1, 0)
  <2>1. /\ t \in Seq(EntryChar) /\ Len(t) = 1 /\ DOMAIN t = 1..1 /\ t[1] = d /\ t # <<>>
        /\ t # <<"-", "0">> /\ d # "-"
    BY <1>1 DEF EntryChar, DigitChar
  <2>2. First(t) = 1
    BY <2>1 DEF First
  <2>3. NormalEntry(t)
    BY <2>1, <2>2, NormalFacts
  <2>4. 1 <= MaxPoint + 0
    BY JsRangeAssumption
  <2>5. PlainShort(t, 1, 0)
    BY <2>1, <2>4 DEF PlainShort
  <2> QED
    BY <2>3, <2>5, PlainFacts
<1>2. "0" \in DigitChar
  BY DEF DigitChar
<1>3. PICK u : u = <<"0", ".">>
  OBVIOUS
<1>4. u \in Seq(EntryChar) /\ Len(u) = 2 /\ DOMAIN u = 1..2
  BY <1>3 DEF EntryChar, DigitChar
<1>5. u[1] = "0" /\ u[2] = "."
  BY <1>3
<1>6. \A i \in 1..2 : i > 0 => u[i] \in DigitChar \cup {"."}
  BY <1>2, <1>5
<1>7. \A i \in 1..2 : i <= MaxPoint + 0
  BY JsRangeAssumption
<1>8. PlainShort(u, 2, 0)
  <2>1. 0 = 1 <=> u[1] = "-"
    BY <1>5
  <2>2. 2 \in Nat /\ 2 = Len(u) /\ 2 >= 1 /\ 0 \in {0, 1} /\ 0 + 1 <= 2
    BY <1>4
  <2> QED
    BY <1>4, <1>6, <1>7, <2>1, <2>2, Zenon DEF PlainShort
<1>9. PlainEntry(u)
  BY <1>3, <1>8, ZeroNormal, PlainFacts
<1> QED
  BY <1>1, <1>2, <1>3, <1>9

(* Room for a digit: fewer digits than an entry may have.                   *)
LEMMA DigitsCounted ==
  ASSUME NEW t, NEW n, NEW o, PlainShort(t, n, o), ~HasChar(t, ".")
  PROVE  CountDigits(t) = n - o
<1>1. /\ n \in Nat /\ DOMAIN t = 1..n /\ o \in {0, 1} /\ (o = 1 <=> t[1] = "-") /\ o + 1 <= n
      /\ \A i \in 1..n : i > o => t[i] \in DigitChar \cup {"."}
  BY DEF PlainShort
<1>2. ASSUME NEW i \in 1..n PROVE t[i] \in DigitChar <=> i \in (o + 1)..n
  <2>1. i > o => t[i] \in DigitChar
    BY <1>1 DEF HasChar
  <2>2. ~ (i > o) => t[i] = "-"
    BY <1>1
  <2>3. "-" \notin DigitChar
    BY DEF DigitChar
  <2> QED
    BY <1>1, <2>1, <2>2, <2>3
<1>3. {i \in DOMAIN t : t[i] \in DigitChar} = (o + 1)..n
  <2>1. \A i \in (o + 1)..n : i \in 1..n
    BY <1>1
  <2> QED
    BY <1>1, <1>2, <2>1
<1>4. PICK a \in Int, b \in Int : a = o + 1 /\ b = n
  BY <1>1
<1>5. Cardinality(a..b) = n - o
  <2>1. a <= b + 1 /\ (b - a) + 1 = n - o /\ a <= b
    BY <1>1, <1>4
  <2>2. Cardinality(a..b) = (b - a) + 1
    BY <2>1, FS_Interval
  <2> QED
    BY <2>1, <2>2
<1>6. {i \in DOMAIN t : t[i] \in DigitChar} = a..b
  BY <1>3, <1>4
<1> QED
  BY <1>5, <1>6 DEF CountDigits

(* Typing a digit leaves a plain entry: there is room for it.               *)
LEMMA AppendDigitPlain ==
  ASSUME NEW t, PlainEntry(t), NEW d \in DigitChar
  PROVE  PlainEntry(AppendDigit(t, d))
<1>1. CASE CountDigits(t) >= MAX_ENTRY_DIGITS
  BY <1>1 DEF AppendDigit
<1>2. CASE ~(CountDigits(t) >= MAX_ENTRY_DIGITS) /\ t = <<"0">>
  BY <1>2, ZeroPlain DEF AppendDigit
<1>3. CASE ~(CountDigits(t) >= MAX_ENTRY_DIGITS) /\ t # <<"0">>
  <2>1. NormalEntry(t)
    BY DEF PlainEntry
  <2>2. PICK n, o : PlainShort(t, n, o)
    BY <2>1, PlainFacts
  <2>3. AppendDigit(t, d) = Append(t, d)
    BY <1>3 DEF AppendDigit
  <2>4. NormalEntry(Append(t, d))
    BY <2>1, <2>3, AppendDigitNormal
  <2>5. HasChar(t, ".") \/ n + 1 <= MaxPoint + o
    <3> SUFFICES ASSUME ~HasChar(t, ".") PROVE n + 1 <= MaxPoint + o
      OBVIOUS
    <3>1. CountDigits(t) = n - o
      BY <2>2, DigitsCounted
    <3>2. n \in Nat /\ o \in {0, 1}
      BY <2>2 DEF PlainShort
    <3> QED
      BY <1>3, <3>1, <3>2, DisplayAssumption, MaxEntryDigitsAssumption, JsRangeAssumption
  <2>6. PlainShort(Append(t, d), n + 1, o)
    BY <2>2, <2>5, AppendPlain
  <2> QED
    BY <2>3, <2>4, <2>6, PlainFacts
<1> QED
  BY <1>1, <1>2, <1>3

(* So does typing a point.                                                  *)
LEMMA AppendDecimalPlain ==
  ASSUME NEW t, PlainEntry(t)
  PROVE  PlainEntry(AppendDecimal(t))
<1>1. CASE HasChar(t, ".")
  BY <1>1 DEF AppendDecimal
<1>2. CASE ~HasChar(t, ".")
  <2>1. NormalEntry(t)
    BY DEF PlainEntry
  <2>2. PICK n, o : PlainShort(t, n, o)
    BY <2>1, PlainFacts
  <2>3. AppendDecimal(t) = Append(t, ".")
    BY <1>2 DEF AppendDecimal
  <2>4. NormalEntry(Append(t, "."))
    BY <2>1, <2>3, AppendDecimalNormal
  <2>5. PlainShort(Append(t, "."), n + 1, o)
    BY <2>2, AppendPlain
  <2> QED
    BY <2>3, <2>4, <2>5, PlainFacts
<1> QED
  BY <1>1, <1>2

(* So does backspace.                                                       *)
LEMMA DropLastCharPlain ==
  ASSUME NEW t, PlainEntry(t)
  PROVE  PlainEntry(DropLastChar(t))
<1>1. NormalEntry(t)
  BY DEF PlainEntry
<1>2. PICK n, o : PlainShort(t, n, o)
  BY <1>1, PlainFacts
<1>3. /\ t \in Seq(EntryChar) /\ n \in Nat /\ n = Len(t) /\ DOMAIN t = 1..n /\ n >= 1
      /\ o \in {0, 1} /\ (o = 1 <=> t[1] = "-") /\ o + 1 <= n
      /\ \A i \in 1..n : i > o => t[i] \in DigitChar \cup {"."}
      /\ \A i \in 1..n : (\A j \in 1..i : t[j] # ".") => i <= MaxPoint + o
  BY <1>2 DEF PlainShort
<1>4. PICK u : u = SubSeq(t, 1, n - 1)
  OBVIOUS
<1>5. /\ u \in Seq(EntryChar) /\ Len(u) = n - 1 /\ DOMAIN u = 1..(n - 1)
      /\ \A i \in 1..(n - 1) : u[i] = t[i]
  BY ONLY <1>3, <1>4
<1>6. CASE u \in {<<>>, <<"-">>, <<"-", "0">>}
  BY <1>3, <1>4, <1>6, ZeroPlain DEF DropLastChar, NormaliseEntry
<1>7. CASE u \notin {<<>>, <<"-">>, <<"-", "0">>}
  <2>1. DropLastChar(t) = u
    BY <1>3, <1>4, <1>7 DEF DropLastChar, NormaliseEntry
  <2>2. NormalEntry(u)
    BY <1>1, <2>1, DropLastCharNormal
  <2>3. n - 1 >= 1
    BY <1>3, <1>5, <1>7
  <2>4. o + 1 <= n - 1
    <3> SUFFICES ASSUME o = 1, n = 2 PROVE FALSE
      BY <1>3, <2>3
    <3>1. u[1] = "-" /\ Len(u) = 1
      BY <1>3, <1>5
    <3>2. u = <<"-">>
      BY <1>5, <3>1
    <3> QED
      BY <1>7, <3>2
  <2>5. PlainShort(u, n - 1, o)
    <3>1. u[1] = t[1] /\ n - 1 \in Nat
      BY <1>3, <1>5, <2>3
    <3>2. \A i \in 1..(n - 1) : i > o => u[i] \in DigitChar \cup {"."}
      BY <1>3, <1>5
    <3>3. ASSUME NEW i \in 1..(n - 1), \A j \in 1..i : u[j] # "." PROVE i <= MaxPoint + o
      <4>1. i \in 1..n /\ \A j \in 1..i : j \in 1..(n - 1)
        BY <1>3
      <4>2. \A j \in 1..i : t[j] # "."
        BY <1>5, <3>3, <4>1
      <4> QED
        BY <1>3, <4>1, <4>2
    <3> QED
      BY <1>3, <1>5, <2>3, <2>4, <3>1, <3>2, <3>3 DEF PlainShort
  <2> QED
    BY <2>1, <2>2, <2>5, PlainFacts
<1> QED
  BY <1>6, <1>7

(* So does the sign key.                                                    *)
LEMMA ToggleEntrySignPlain ==
  ASSUME NEW t, PlainEntry(t)
  PROVE  PlainEntry(ToggleEntrySign(t))
<1>1. NormalEntry(t)
  BY DEF PlainEntry
<1>2. PICK n, o : PlainShort(t, n, o)
  BY <1>1, PlainFacts
<1>3. /\ t \in Seq(EntryChar) /\ n \in Nat /\ n = Len(t) /\ DOMAIN t = 1..n /\ n >= 1 /\ t # <<>>
      /\ o \in {0, 1} /\ (o = 1 <=> t[1] = "-") /\ o + 1 <= n
      /\ \A i \in 1..n : i > o => t[i] \in DigitChar \cup {"."}
      /\ \A i \in 1..n : (\A j \in 1..i : t[j] # ".") => i <= MaxPoint + o
  BY <1>2 DEF PlainShort
<1>4. MaxPoint \in Int
  BY JsRangeAssumption
<1>5. PICK u : u = IF t[1] = "-" THEN Tail(t) ELSE <<"-">> \o t
  OBVIOUS
<1>6. ToggleEntrySign(t) = NormaliseEntry(u)
  BY <1>3, <1>5 DEF ToggleEntrySign
<1>7. NormaliseEntry(u) = u \/ NormaliseEntry(u) = <<"0">>
  BY DEF NormaliseEntry
<1>8. CASE NormaliseEntry(u) = <<"0">>
  BY <1>6, <1>8, ZeroPlain
<1>9. CASE NormaliseEntry(u) = u
  <2>1. NormalEntry(u)
    BY <1>1, <1>6, <1>9, ToggleEntrySignNormal
  <2>2. \E k, p : PlainShort(u, k, p)
    <3>1. CASE t[1] = "-"
      <4>1. o = 1 /\ n >= 2
        BY <1>3, <3>1
      <4>2. /\ u \in Seq(EntryChar) /\ Len(u) = n - 1 /\ DOMAIN u = 1..(n - 1)
            /\ \A i \in 1..(n - 1) : u[i] = t[i + 1]
        BY <1>3, <1>5, <3>1
      <4>3. ASSUME NEW i \in 1..(n - 1) PROVE u[i] \in DigitChar \cup {"."}
        BY <1>3, <4>1, <4>2
      <4>4. u[1] # "-"
        <5>1. 1 \in 1..(n - 1)
          BY <1>3, <4>1
        <5> QED
          BY <4>3, <5>1 DEF DigitChar
      <4>5. ASSUME NEW i \in 1..(n - 1), \A j \in 1..i : u[j] # "." PROVE i <= MaxPoint + 0
        <5>1. i + 1 \in 1..n
          BY <1>3
        <5>2. ASSUME NEW j \in 1..(i + 1) PROVE t[j] # "."
          <6>1. CASE j = 1
            BY <3>1, <6>1
          <6>2. CASE j # 1
            <7>1. j - 1 \in 1..i /\ j - 1 \in 1..(n - 1) /\ (j - 1) + 1 = j
              BY <1>3, <6>2
            <7> QED
              BY <4>2, <4>5, <7>1
          <6> QED
            BY <6>1, <6>2
        <5>3. i + 1 <= MaxPoint + o
          BY <1>3, <5>1, <5>2
        <5> QED
          BY <1>4, <4>1, <5>3
      <4>6. PlainShort(u, n - 1, 0)
        BY <1>3, <4>1, <4>2, <4>3, <4>4, <4>5 DEF PlainShort
      <4> QED
        BY <4>6
    <3>2. CASE t[1] # "-"
      <4>1. o = 0
        BY <1>3, <3>2
      <4>2. /\ u \in Seq(EntryChar) /\ Len(u) = n + 1 /\ DOMAIN u = 1..(n + 1) /\ u[1] = "-"
            /\ \A i \in 1..n : u[i + 1] = t[i]
        <5>1. u = <<"-">> \o t /\ "-" \in EntryChar
          BY <1>5, <3>2 DEF EntryChar
        <5> QED
          BY <1>3, <5>1
      <4>3. ASSUME NEW i \in 1..(n + 1), i > 1 PROVE u[i] \in DigitChar \cup {"."}
        <5>1. i - 1 \in 1..n /\ (i - 1) + 1 = i /\ i - 1 > o
          BY <1>3, <4>1, <4>3
        <5> QED
          BY <1>3, <4>2, <5>1
      <4>4. ASSUME NEW i \in 1..(n + 1), \A j \in 1..i : u[j] # "." PROVE i <= MaxPoint + 1
        <5>1. CASE i = 1
          BY <1>4, <5>1, JsRangeAssumption
        <5>2. CASE i # 1
          <6>1. i - 1 \in 1..n
            BY <1>3, <5>2
          <6>2. ASSUME NEW j \in 1..(i - 1) PROVE t[j] # "."
            <7>1. j + 1 \in 1..i /\ j \in 1..n
              BY <1>3, <6>1
            <7> QED
              BY <4>2, <4>4, <7>1
          <6>3. i - 1 <= MaxPoint + o
            BY <1>3, <6>1, <6>2
          <6> QED
            BY <1>4, <4>1, <6>3
        <5> QED
          BY <5>1, <5>2
      <4>5. PlainShort(u, n + 1, 1)
        BY <1>3, <4>1, <4>2, <4>3, <4>4 DEF PlainShort
      <4> QED
        BY <4>5
    <3> QED
      BY <3>1, <3>2
  <2> QED
    BY <1>6, <1>9, <2>1, <2>2, PlainFacts
<1> QED
  BY <1>7, <1>8, <1>9

(* The server's results, none of them printed with an exponent.             *)
PlainResponses == \A x \in Response : ~HasChar(StringOf(x), "e")

(* A sign in front of a text of digits.                                     *)
SignedParts(t, o, m) ==
  /\ t \in Seq(EntryChar) /\ Len(t) = Len(m) + o /\ o \in {0, 1} /\ (o = 1 <=> t[1] = "-")
  /\ \A i \in 1..Len(m) : t[o + i] = m[i]

(* A sign moves every other character of a text by one place.               *)
LEMMA SignedShape ==
  ASSUME NEW neg, neg \in BOOLEAN, NEW m, m \in Seq(EntryChar), m # <<>>, m[1] \in DigitChar,
         NEW t, t = Sign(neg) \o m
  PROVE  \E o : SignedParts(t, o, m)
<1>1. m[1] # "-" /\ "-" \in EntryChar /\ Len(m) >= 1 /\ Len(m) \in Nat
  BY DEF DigitChar, EntryChar
<1>2. CASE neg
  <2>1. t = <<"-">> \o m
    BY <1>2 DEF Sign
  <2>2. t \in Seq(EntryChar) /\ Len(t) = Len(m) + 1
    BY <1>1, <2>1
  <2>3. t[1] = "-" /\ \A i \in 1..Len(m) : t[1 + i] = m[i]
    BY <1>1, <2>1
  <2>4. SignedParts(t, 1, m)
    BY <2>2, <2>3 DEF SignedParts
  <2> QED
    BY <2>4
<1>3. CASE ~neg
  <2>1. t = <<>> \o m
    BY <1>3 DEF Sign
  <2>2. t = m
    BY <2>1
  <2>3. Len(t) = Len(m) + 0 /\ \A i \in 1..Len(m) : t[0 + i] = m[i]
    BY <1>1, <2>2
  <2>4. SignedParts(t, 0, m)
    BY <1>1, <2>2, <2>3 DEF SignedParts
  <2> QED
    BY <2>4
<1> QED
  BY <1>2, <1>3

(* Digits, at most one point, and no more digits before it than there is    *)
(* room for: a plain text when it is a normal one.                          *)
LEMMA MantissaPlain ==
  ASSUME NEW neg, neg \in BOOLEAN, NEW m, NEW int, NEW frac, Mantissa(m, int, frac),
         Len(int) <= 21, NEW t, t = Sign(neg) \o m, NormalEntry(t)
  PROVE  PlainEntry(t)
<1>1. /\ m \in Seq(EntryChar) /\ m # <<>> /\ m[1] \in DigitChar
      /\ \A i \in DOMAIN m : m[i] \in DigitChar \cup {"."}
  BY MantissaParts
<1>2. PICK o : SignedParts(t, o, m)
  BY ONLY <1>1, neg \in BOOLEAN, t = Sign(neg) \o m, SignedShape
<1>3. PICK n, l : n = Len(t) /\ l = Len(m)
  OBVIOUS
<1>4. /\ t \in Seq(EntryChar) /\ n = l + o /\ o \in {0, 1} /\ (o = 1 <=> t[1] = "-")
      /\ (\A i \in 1..l : t[o + i] = m[i]) /\ l \in Nat /\ l >= 1 /\ DOMAIN m = 1..l
      /\ DOMAIN t = 1..n /\ n \in Nat
  BY <1>1, <1>2, <1>3 DEF SignedParts
<1>5. ASSUME NEW i \in 1..n, i > o PROVE t[i] \in DigitChar \cup {"."}
  <2>1. i - o \in 1..l /\ o + (i - o) = i
    BY <1>4, <1>5
  <2> QED
    BY <1>1, <1>4, <2>1, ZenonT(60)
<1>6. ASSUME NEW i \in 1..n, \A j \in 1..i : t[j] # "." PROVE i <= MaxPoint + o
  <2>0. int \in Seq(DigitChar) /\ MaxPoint \in 21..1000
    BY JsRangeAssumption DEF Mantissa
  <2>1. Len(int) \in Nat /\ Len(int) <= MaxPoint /\ MaxPoint \in Int
    <3>1. PICK k : k = Len(int) /\ k <= 21
      OBVIOUS
    <3>2. k \in Nat
      BY ONLY <2>0, <3>1
    <3>3. k <= MaxPoint /\ MaxPoint \in Int
      BY ONLY <2>0, <3>1, <3>2
    <3> QED
      BY <3>1, <3>2, <3>3
  <2>2. CASE m = int
    BY <1>3, <1>4, <2>1, <2>2
  <2>3. CASE m = Joined(int, ".", frac)
    <3>1. Parts(m, int, ".", frac)
      <4>1. int \in Seq(EntryChar) /\ frac \in Seq(EntryChar) /\ "." \in EntryChar
        BY DEF Mantissa, EntryChar
      <4> QED
        BY <2>3, <4>1, JoinedParts
    <3>2. m[Len(int) + 1] = "." /\ Len(int) + 1 \in 1..l
      <4>1. Len(m) = Len(int) + 1 + Len(frac) /\ m[Len(int) + 1] = "."
        BY <3>1 DEF Parts
      <4>2. Len(frac) \in Nat
        BY DEF Mantissa
      <4> QED
        BY <1>3, <2>1, <4>1, <4>2
    <3>3. t[o + (Len(int) + 1)] = "."
      BY <1>4, <3>2
    <3>4. ~ (o + (Len(int) + 1) \in 1..i)
      BY <1>6, <3>3
    <3> QED
      BY <1>4, <2>1, <3>2, <3>4
  <2> QED
    BY <2>2, <2>3 DEF Mantissa
<1>7. n >= 1 /\ o + 1 <= n
  BY <1>4
<1>8. PlainShort(t, n, o)
  BY <1>3, <1>4, <1>5, <1>6, <1>7 DEF PlainShort
<1> QED
  BY <1>8, PlainFacts

(* toExponential() writes an "e".                                           *)
LEMMA ExponentialHasE ==
  ASSUME NEW x, IsJsNumber(x), x \notin JsNonFinite, x.digits # <<>>
  PROVE  HasChar(JsExponential(x), "e")
<1>1. PICK m, int, frac, s, k, p : Exponentially(x, m, int, frac, s, k, p)
  BY ExponentialShape
<1>2. PICK neg : neg \in BOOLEAN /\ neg = x.neg
  BY NumberParts
<1>3. PICK t : t = JsExponential(x)
  OBVIOUS
<1>4. ExponentParts(m, int, frac, s, k, p) /\ t = ExponentText(neg, m, s, k)
  BY <1>1, <1>2, <1>3 DEF Exponentially
<1>5. Mantissa(m, int, frac) /\ s \in {"-", "+"} /\ k \in 0..999
  BY <1>4 DEF ExponentParts
<1>6. m \in Seq(EntryChar) /\ m # <<>> /\ m[1] \in DigitChar
  BY <1>5, MantissaParts
<1>7. PICK dec \in Seq(DigitChar) : dec = JsDecimal(k)
  BY <1>5, DecimalValue, ZenonT(60)
<1>8. PICK exp : exp = <<s>> \o dec
  OBVIOUS
<1>9. exp \in Seq(EntryChar) /\ "e" \in EntryChar
  BY <1>5, <1>8 DEF EntryChar
<1>10. PICK body : body = Joined(m, "e", exp)
  OBVIOUS
<1>11. Parts(body, m, "e", exp)
  BY <1>6, <1>9, <1>10, JoinedParts
<1>12. /\ body \in Seq(EntryChar) /\ body # <<>> /\ body[1] = m[1] /\ body[Len(m) + 1] = "e"
       /\ Len(m) + 1 \in 1..Len(body)
  <2>1. 1 \in 1..Len(m) /\ Len(m) \in Nat /\ Len(exp) \in Nat
    BY <1>6, <1>9
  <2>2. body \in Seq(EntryChar) /\ body # <<>> /\ Len(body) = Len(m) + 1 + Len(exp)
        /\ body[Len(m) + 1] = "e" /\ \A i \in 1..Len(m) : body[i] = m[i]
    BY <1>11 DEF Parts
  <2> QED
    BY <2>1, <2>2
<1>13. t = Sign(neg) \o body
  BY <1>4, <1>7, <1>8, <1>10 DEF ExponentText
<1>14. PICK o : SignedParts(t, o, body)
  <2>1. body[1] \in DigitChar /\ neg \in BOOLEAN /\ body \in Seq(EntryChar) /\ body # <<>>
    BY <1>2, <1>6, <1>12
  <2> QED
    BY ONLY <1>13, <2>1, SignedShape
<1>15. t[o + (Len(m) + 1)] = "e" /\ o + (Len(m) + 1) \in DOMAIN t
  <2>1. t \in Seq(EntryChar) /\ Len(t) = Len(body) + o /\ o \in {0, 1}
        /\ \A i \in 1..Len(body) : t[o + i] = body[i]
    BY <1>14 DEF SignedParts
  <2>2. Len(body) \in Nat /\ Len(m) \in Nat /\ Len(m) + 1 \in 1..Len(body) /\ body[Len(m) + 1] = "e"
    BY <1>6, <1>12
  <2>3. o + (Len(m) + 1) \in 1..Len(t)
    BY <2>1, <2>2
  <2> QED
    BY <2>1, <2>2, <2>3
<1> QED
  BY <1>3, <1>15 DEF HasChar

(* A number printed without an exponent is a plain text.                    *)
LEMMA StringPlain ==
  ASSUME NEW x, Finite(x), NormalEntry(JsStringOf(x)), ~HasChar(JsStringOf(x), "e")
  PROVE  PlainEntry(JsStringOf(x))
<1>0. IsJsNumber(x) /\ x \notin JsNonFinite
  BY DEF Finite
<1>1. CASE x.digits = <<>>
  <2>1. x.kind = "finite" /\ Len(x.digits) = 0
    BY <1>0, <1>1, NumberParts
  <2>2. JsStringOf(x) = <<"0">>
    BY <2>1 DEF JsStringOf
  <2> QED
    BY <2>2, ZeroPlain
<1>2. CASE x.digits # <<>> /\ (x.point > 21 \/ x.point <= -6)
  <2>1. x.kind = "finite" /\ Len(x.digits) # 0
    <3>1. x.kind = "finite" /\ Len(x.digits) >= 1 /\ x.digits \in Seq(DigitChar)
      BY <1>0, <1>2, NumberParts
    <3> QED
      BY <3>1
  <2>2. JsStringOf(x) = JsExponential(x)
    BY <1>2, <2>1 DEF JsStringOf
  <2> QED
    BY <1>0, <1>2, <2>2, ExponentialHasE
<1>3. CASE x.digits # <<>> /\ x.point <= 21 /\ x.point > -6
  <2>1. PICK m, int, frac : Plainly(x, m, int, frac)
    BY <1>0, <1>3, PlainShape
  <2>2. PICK neg : neg \in BOOLEAN /\ neg = x.neg
    BY <1>0, NumberParts
  <2>3. PICK t : t = JsStringOf(x)
    OBVIOUS
  <2>4. Mantissa(m, int, frac) /\ Len(int) <= 21 /\ t = Sign(neg) \o m /\ NormalEntry(t)
    BY <2>1, <2>2, <2>3 DEF Plainly
  <2>5. PlainEntry(t)
    BY ONLY <2>2, <2>4, MantissaPlain
  <2> QED
    BY <2>3, <2>5
<1>4. x.digits # <<>> => x.point \in Int
  BY <1>0, NumberParts
<1> QED
  BY <1>1, <1>2, <1>3, <1>4

(* The results of the server are finite, and plain texts.                   *)
LEMMA ResponseFinite ==
  ASSUME NEW x \in Response
  PROVE  x \in Number /\ Finite(x)
<1>1. x \in Number /\ x \notin NonFinite /\ x # NegZero
  BY StoreAssumption
<1> QED
  BY <1>1, DisplayAssumption DEF Finite

(* Printed, a result without an exponent is a plain entry.                  *)
LEMMA ResponsePlain ==
  ASSUME PlainResponses, NEW x \in Response
  PROVE  PlainEntry(StringOf(x))
<1>1. x \in Number /\ Finite(x)
  BY ResponseFinite
<1>2. StringOf(x) = JsStringOf(x) /\ NormalEntry(StringOf(x))
  BY <1>1, StoreAssumption, DisplayAssumption
<1>3. ~HasChar(StringOf(x), "e")
  BY DEF PlainResponses
<1> QED
  BY <1>1, <1>2, <1>3, StringPlain

(* Negating keeps a number finite, and makes no negative zero.              *)
LEMMA NegateFinite ==
  ASSUME NEW x \in Number \cup {Null}, x # Null => Finite(x)
  PROVE  Negate(x) \in Number /\ Finite(Negate(x))
<1>1. Zero = JsZero /\ NegZero = JsNegZero /\ Zero \in Number
  BY NumberAssumption, DisplayAssumption
<1>2. Finite(JsZero)
  <2>1. IsJsNumber(JsZero)
    BY ZeroIsNumber DEF JsZero
  <2>2. JsZero \notin JsNonFinite
    BY FiniteFacts DEF JsZero
  <2>3. JsZero # JsNegZero
    <3>1. JsZero.neg <=> FALSE
      BY FiniteFacts DEF JsZero
    <3>2. JsNegZero.neg <=> TRUE
      BY FiniteFacts DEF JsNegZero
    <3>3. ASSUME JsZero = JsNegZero PROVE FALSE
      <4>1. JsZero.neg = JsNegZero.neg
        BY <3>3, Zenon
      <4> QED
        BY <3>1, <3>2, <4>1, Zenon
    <3> QED
      BY <3>3
  <2> QED
    BY <2>1, <2>2, <2>3 DEF Finite
<1>3. PICK y \in Number : y = OrZero(x) /\ Finite(y)
  BY <1>1, <1>2 DEF OrZero
<1>4. PICK z : z = JsNeg(y)
  OBVIOUS
<1>5. z = Neg(y) /\ z \in Number /\ IsJsNumber(z)
  BY <1>3, <1>4, NumberAssumption, DisplayAssumption
<1>6. z \notin JsNonFinite
  <2>1. y.kind = "finite" /\ y = JsFinite(y.neg, y.digits, y.point)
    BY <1>3, NumberParts DEF Finite
  <2>2. z.kind = "finite"
    BY <1>4, <2>1 DEF JsNeg, JsFinite
  <2> QED
    BY <2>2 DEF JsNonFinite, JsNaN, JsInfinity
<1>7. Negate(x) = IF z \in {Zero, NegZero} THEN Zero ELSE z
  BY <1>3, <1>5 DEF Negate, Unsigned
<1> QED
  BY <1>1, <1>2, <1>5, <1>6, <1>7 DEF Finite

(* A text the engine may show: as it is typed, or a finite number printed.  *)
Shown(t) == PlainEntry(t) \/ \E x \in Number : Finite(x) /\ t = StringOf(x)

(* Zero is a finite number, and its text may be shown.                      *)
LEMMA ZeroFinite == Zero \in Number /\ Finite(Zero) /\ StringOf(Zero) = <<"0">> /\ Shown(<<"0">>)
<1>1. Zero = JsZero /\ Zero \in Number /\ StringOf(Zero) = <<"0">>
  BY NumberAssumption, DisplayAssumption
<1>2. IsJsNumber(JsZero)
  BY ZeroIsNumber DEF JsZero
<1>3. JsZero \notin JsNonFinite
  BY FiniteFacts DEF JsZero
<1>4. JsZero # JsNegZero
  BY NumberAssumption, DisplayAssumption
<1> QED
  BY <1>1, <1>2, <1>3, <1>4, ZeroPlain DEF Finite, Shown

(* What is read off a text that is shown, by the engine and by the display. *)
LEMMA ShownIsRead ==
  ASSUME NEW t \in Text, Shown(t)
  PROVE  /\ t \in Seq(EntryChar) /\ parseEntry(t) = ParseEntry(t)
         /\ ParseEntry(t) \in Number /\ Finite(ParseEntry(t))
<1>1. PICK v : v = JsNumberOf(t)
  OBVIOUS
<1>2. t \in Seq(EntryChar) /\ IsJsNumber(v) /\ v \notin JsNonFinite
  <2>1. CASE PlainEntry(t)
    BY <1>1, <2>1, EntryFinite DEF PlainEntry, NormalEntry
  <2>2. CASE \E x \in Number : Finite(x) /\ t = StringOf(x)
    <3>1. PICK x \in Number : Finite(x) /\ t = StringOf(x)
      BY <2>2
    <3>2. t = JsStringOf(x)
      BY <3>1, DisplayAssumption
    <3> QED
      BY <1>1, <3>1, <3>2, StringReadsBack DEF Finite
  <2> QED
    BY <2>1, <2>2 DEF Shown
<1>3. NumberOf(t) = v /\ Zero = JsZero /\ NegZero = JsNegZero /\ v \in Number
  BY <1>1, NumberAssumption, DisplayAssumption
<1>4. WithoutCommas(t) = t
  BY <1>2, NothingToTake
<1>5. parseEntry(t) = IF v = JsNegZero THEN JsZero ELSE v
  <2>1. parseEntry(t) = LET value == JsNumberOf(WithoutCommas(t))
                        IN  IF value = JsNegZero THEN JsZero ELSE value
    BY Zenon DEF parseEntry
  <2>2. JsNumberOf(WithoutCommas(t)) = v
    BY <1>1, <1>4
  <2> QED
    BY <2>1, <2>2
<1>6. ParseEntry(t) = IF v = JsNegZero THEN JsZero ELSE v
  BY <1>3 DEF ParseEntry, Unsigned
<1> QED
  BY <1>2, <1>3, <1>5, <1>6, ZeroFinite DEF Finite

(* A finished value reads as the number rounded to the digits shown.        *)
LEMMA ResultIsRead ==
  ASSUME NEW x \in Number, Finite(x)
  PROVE  parseEntry(formatResult(x)) = JsRoundTo(DEFAULT_MAX_SIGNIFICANT, x)
<1>1. PICK r : r = JsRoundTo(DEFAULT_MAX_SIGNIFICANT, x)
  OBVIOUS
<1>2. /\ DEFAULT_MAX_SIGNIFICANT \in Nat \ {0} /\ x \notin NonFinite /\ NonFinite = JsNonFinite
      /\ JsRoundTo(DEFAULT_MAX_SIGNIFICANT, x) \notin JsNonFinite
  BY DisplayAssumption DEF Finite
<1>3. Finite(r) /\ (x.digits # <<>> => r.digits # <<>>)
  BY <1>1, <1>2, RoundToForm
<1>4. PICK t : t = formatResult(x)
  OBVIOUS
<1>5. t = JsStringOf(r) \/ (t = JsExponential(r) /\ r.digits # <<>>)
  BY <1>1, <1>3, <1>4 DEF formatResult
<1>6. JsNumberOf(t) = r /\ t \in Seq(EntryChar)
  BY <1>3, <1>5, StringReadsBack, ExponentialBack DEF Finite
<1>7. WithoutCommas(t) = t
  BY <1>6, NothingToTake
<1>8. parseEntry(t) = IF r = JsNegZero THEN JsZero ELSE r
  <2>1. parseEntry(t) = LET value == JsNumberOf(WithoutCommas(t))
                        IN  IF value = JsNegZero THEN JsZero ELSE value
    BY Zenon DEF parseEntry
  <2>2. JsNumberOf(WithoutCommas(t)) = r
    BY <1>6, <1>7
  <2> QED
    BY <2>1, <2>2
<1> QED
  BY <1>1, <1>3, <1>4, <1>8 DEF Finite

-----------------------------------------------------------------------------
(* The engine's side of it.                                                 *)
Legible(s) ==
  /\ s.phase \in Entering => PlainEntry(s.display)
  /\ Shown(s.display)
  /\ s.a # Null => Finite(s.a)

(* The state after AC is legible.                                           *)
LEMMA InitialLegible == Legible(initialState)
BY ZeroFinite DEF initialState, Legible, Entering

(* Typing in a state that may be typed in.                                  *)
LEMMA EntryLegible ==
  ASSUME NEW s \in CalcState, Legible(s), NEW t, PlainEntry(t)
  PROVE  /\ Legible([s EXCEPT !.display = t])
         /\ Legible([s EXCEPT !.phase = "enteringB", !.display = t, !.b = Null])
         /\ Legible([initialState EXCEPT !.phase = "enteringA", !.display = t])
BY InitialLegible DEF Legible, Shown, CalcState, initialState

(* Showing a number that is kept.                                           *)
LEMMA OperandLegible ==
  ASSUME NEW x \in Number, Finite(x)
  PROVE  Shown(StringOf(x))
BY DEF Shown

(* A digit leaves a legible state.                                          *)
LEMMA InputDigitLegible ==
  ASSUME NEW s \in CalcState, Legible(s), NEW d \in Digit
  PROVE  Legible(InputDigit(s, d).state)
<1>1. PlainEntry(AppendDigit(<<"0">>, d)) /\ (s.phase \in Entering => PlainEntry(AppendDigit(s.display, d)))
  BY KeyAssumption, ZeroPlain, AppendDigitPlain DEF Legible
<1>2. CASE s.phase \in {"idle", "result", "error"}
  BY <1>1, <1>2, EntryLegible DEF InputDigit, Stay, Entering
<1>3. CASE s.phase \in Entering
  BY <1>1, <1>3, EntryLegible DEF InputDigit, Stay, Entering
<1>4. CASE s.phase = "operatorSelected"
  BY <1>1, <1>4, EntryLegible DEF InputDigit, Stay, Entering
<1> QED
  BY <1>2, <1>3, <1>4 DEF CalcState, Phase, Entering

(* So does the point.                                                       *)
LEMMA InputDecimalLegible ==
  ASSUME NEW s \in CalcState, Legible(s)
  PROVE  Legible(InputDecimal(s).state)
<1>1. PlainEntry(<<"0", ".">>) /\ (s.phase \in Entering => PlainEntry(AppendDecimal(s.display)))
  BY ZeroPlain, AppendDecimalPlain DEF Legible
<1>2. CASE s.phase \in {"idle", "result", "error"}
  BY <1>1, <1>2, EntryLegible DEF InputDecimal, Stay, Entering
<1>3. CASE s.phase \in Entering
  BY <1>1, <1>3, EntryLegible DEF InputDecimal, Stay, Entering
<1>4. CASE s.phase = "operatorSelected"
  BY <1>1, <1>4, EntryLegible DEF InputDecimal, Stay, Entering
<1> QED
  BY <1>2, <1>3, <1>4 DEF CalcState, Phase, Entering

(* So does the sign key, which on a result prints the number it negates.    *)
LEMMA ToggleSignLegible ==
  ASSUME NEW s \in CalcState, Legible(s)
  PROVE  Legible(ToggleSign(s).state)
<1>1. CASE s.phase \in Entering
  <2>1. PlainEntry(ToggleEntrySign(s.display))
    BY <1>1, ToggleEntrySignPlain DEF Legible
  <2> QED
    BY <1>1, <2>1, EntryLegible DEF ToggleSign, Stay, Entering
<1>2. CASE s.phase \in {"operatorSelected", "result"}
  <2>1. PICK x : x = Negate(s.a) /\ x \in Number /\ Finite(x)
    BY NegateFinite DEF CalcState, Legible
  <2>2. ToggleSign(s).state = [s EXCEPT !.a = x, !.display = StringOf(x)]
    BY <1>2, <2>1 DEF ToggleSign, Stay, Entering
  <2> QED
    BY <1>2, <2>1, <2>2, OperandLegible DEF Legible, CalcState, Entering
<1>3. CASE s.phase \in {"idle", "error"}
  BY <1>3, InitialLegible DEF ToggleSign, Stay, Entering
<1> QED
  BY <1>1, <1>2, <1>3 DEF CalcState, Phase, Entering

(* So does backspace.                                                       *)
LEMMA BackspaceLegible ==
  ASSUME NEW s \in CalcState, Legible(s)
  PROVE  Legible(Backspace(s).state)
<1>1. CASE s.phase \in Entering
  <2>1. PlainEntry(DropLastChar(s.display))
    BY <1>1, DropLastCharPlain DEF Legible
  <2> QED
    BY <1>1, <2>1, EntryLegible DEF Backspace, Stay, Entering
<1>2. CASE s.phase \in {"operatorSelected", "result"}
  BY <1>2 DEF Backspace, Stay, Entering
<1>3. CASE s.phase \in {"idle", "error"}
  BY <1>3, InitialLegible DEF Backspace, Stay, Entering
<1> QED
  BY <1>1, <1>2, <1>3 DEF CalcState, Phase, Entering

(* So does CE, which prints the first operand again.                        *)
LEMMA ClearEntryLegible ==
  ASSUME NEW s \in CalcState, Legible(s)
  PROVE  Legible(ClearEntry(s).state)
<1>1. CASE s.phase \in {"idle", "enteringA", "result", "error"}
  BY <1>1, InitialLegible DEF ClearEntry, Stay
<1>2. CASE s.phase = "operatorSelected"
  BY <1>2 DEF ClearEntry, Stay
<1>3. CASE s.phase = "enteringB"
  <2>1. PICK x \in Number : x = OrZero(s.a) /\ Finite(x)
    BY ZeroFinite DEF CalcState, Legible, OrZero
  <2>2. ClearEntry(s).state =
          [s EXCEPT !.phase = "operatorSelected", !.display = StringOf(x), !.b = Null]
    BY <1>3, <2>1 DEF ClearEntry, Stay
  <2> QED
    BY <2>1, <2>2, OperandLegible DEF Legible, CalcState, Entering
<1> QED
  BY <1>1, <1>2, <1>3 DEF CalcState, Phase

(* The number an entry is read as.                                          *)
LEMMA ReadFinite ==
  ASSUME NEW s \in CalcState, Legible(s)
  PROVE  /\ ParseEntry(s.display) \in Number /\ Finite(ParseEntry(s.display))
         /\ Shown(StringOf(ParseEntry(s.display)))
BY ShownIsRead, OperandLegible DEF CalcState, Legible

(* So does an operator, which prints what it reads.                         *)
LEMMA SetOperatorLegible ==
  ASSUME NEW s \in CalcState, Legible(s), NEW op
  PROVE  Legible(SetOperator(s, op).state)
<1>1. CASE s.phase \in {"idle", "error"}
  BY <1>1, ZeroFinite, InitialLegible DEF SetOperator, Stay, Legible, initialState, Entering
<1>2. CASE s.phase = "enteringA"
  <2>1. PICK x : x = ParseEntry(s.display) /\ Finite(x) /\ Shown(StringOf(x))
    BY ReadFinite
  <2>2. SetOperator(s, op).state =
          [s EXCEPT !.phase = "operatorSelected", !.a = x, !.display = StringOf(x), !.operator = op]
    BY <1>2, <2>1 DEF SetOperator, Stay
  <2> QED
    BY <2>1, <2>2 DEF Legible, CalcState, Entering
<1>3. CASE s.phase \in {"operatorSelected", "result"}
  BY <1>3 DEF SetOperator, Stay, Legible, CalcState, Entering
<1>4. CASE s.phase = "enteringB"
  <2>1. SetOperator(s, op).state =
          [s EXCEPT !.phase = "operatorSelected", !.a = Null, !.b = Null, !.operator = op]
    BY <1>4 DEF SetOperator, Emit
  <2> QED
    BY <2>1 DEF Legible, CalcState, Entering
<1> QED
  BY <1>1, <1>2, <1>3, <1>4 DEF CalcState, Phase

(* So does `=`.                                                             *)
LEMMA RequestEvaluateLegible ==
  ASSUME NEW s \in CalcState, Legible(s)
  PROVE  Legible(RequestEvaluate(s).state)
<1>1. CASE s.phase \in {"idle", "error"}
  BY <1>1, InitialLegible DEF RequestEvaluate, Stay
<1>2. CASE s.phase = "enteringA"
  <2>1. PICK x : x = ParseEntry(s.display) /\ Finite(x) /\ Shown(StringOf(x))
    BY ReadFinite
  <2>2. RequestEvaluate(s).state =
          [initialState EXCEPT !.phase = "result", !.a = x, !.display = StringOf(x)]
    BY <1>2, <2>1 DEF RequestEvaluate, Stay
  <2> QED
    BY <2>1, <2>2 DEF Legible, initialState, Entering
<1>3. CASE s.phase \in {"operatorSelected", "enteringB", "result"}
  <2>1. \E b, r : RequestEvaluate(s).state \in
          {s, [s EXCEPT !.phase = "result", !.b = b, !.lastRequest = r], [s EXCEPT !.lastRequest = r]}
    BY <1>3 DEF RequestEvaluate, Stay, Emit
  <2> QED
    BY <2>1 DEF Legible, CalcState, Entering
<1> QED
  BY <1>1, <1>2, <1>3 DEF CalcState, Phase

(* So does a unary key.                                                     *)
LEMMA ApplyUnaryLegible ==
  ASSUME NEW s \in CalcState, Legible(s), NEW op
  PROVE  Legible(ApplyUnary(s, op).state)
<1>1. CASE s.phase \in {"idle", "error"}
  BY <1>1, InitialLegible DEF ApplyUnary, Emit, Legible, initialState, Entering
<1>2. CASE s.phase = "enteringA"
  BY <1>2 DEF ApplyUnary, Emit, Legible, CalcState, Entering
<1>3. CASE s.phase \in {"operatorSelected", "enteringB", "result"}
  BY <1>3 DEF ApplyUnary, Emit
<1> QED
  BY <1>1, <1>2, <1>3 DEF CalcState, Phase

(* An answer shows a result, or an error over what was shown.               *)
LEMMA ApplyResultLegible ==
  ASSUME PlainResponses, NEW s \in CalcState, Legible(s), NEW value \in Response
  PROVE  Legible(ApplyResult(s, value).state)
<1>1. Finite(value) /\ PlainEntry(StringOf(value)) /\ Shown(StringOf(value))
  BY ResponseFinite, ResponsePlain DEF Shown
<1>2. CASE s.phase \in Entering
  BY <1>1, <1>2 DEF ApplyResult, Stay, Legible, CalcState, Entering
<1>3. CASE s.phase \in {"operatorSelected", "result"}
  BY <1>1, <1>3 DEF ApplyResult, Stay, Legible, CalcState, Entering
<1>4. CASE s.phase \in {"idle", "error"}
  BY <1>1, <1>4 DEF ApplyResult, Stay, Legible, initialState, Entering
<1> QED
  BY <1>2, <1>3, <1>4 DEF CalcState, Phase, Entering

(* An error changes nothing of what is shown.                               *)
LEMMA ApplyErrorLegible ==
  ASSUME NEW s \in CalcState, Legible(s), NEW message
  PROVE  Legible(ApplyError(s, message).state)
BY DEF ApplyError, Stay, Legible, CalcState, Entering

(* A key of the store leaves the state the engine gives, or an error.       *)
LEMMA InputLegible ==
  ASSUME NEW t, Legible(t.state), t.state \in CalcState, Input(t)
  PROVE  Legible(calc')
<1>1. calc' = t.state \/ \E message : calc' = ApplyError(t.state, message).state
  BY DEF Input, Apply, Send, ShowError
<1> QED
  BY <1>1, ApplyErrorLegible

(* No step of the store spoils what is shown.                               *)
LEMMA StepLegible ==
  ASSUME PlainResponses, Inv, Legible(calc), [Next]_vars
  PROVE  Legible(calc')
<1>1. calc \in CalcState
  BY DEF Inv, TypeOK
<1>2. CASE Key
  <2>0. ~pending /\ Settled(calc)
    BY <1>2 DEF Key, PressDigit, PressDecimal, PressSign, PressBackspace, PressClearEntry,
                PressOperator, PressEquals, PressUnary, Input, Inv, CalcInv
  <2>1. ASSUME NEW t, Sound(t), Legible(t.state), Input(t) PROVE Legible(calc')
    BY <2>1, InputLegible DEF Sound, Settled, Waiting
  <2>2. CASE PressDigit
    BY <1>1, <2>0, <2>1, <2>2, InputDigitLegible, InputDigitSound DEF PressDigit
  <2>3. CASE PressDecimal
    BY <1>1, <2>0, <2>1, <2>3, InputDecimalLegible, InputDecimalSound DEF PressDecimal
  <2>4. CASE PressSign
    BY <1>1, <2>0, <2>1, <2>4, ToggleSignLegible, ToggleSignSound DEF PressSign
  <2>5. CASE PressBackspace
    BY <1>1, <2>0, <2>1, <2>5, BackspaceLegible, BackspaceSound DEF PressBackspace
  <2>6. CASE PressClearEntry
    BY <1>1, <2>0, <2>1, <2>6, ClearEntryLegible, ClearEntrySound DEF PressClearEntry
  <2>7. CASE PressOperator
    BY <1>1, <2>0, <2>1, <2>7, SetOperatorLegible, SetOperatorSound DEF PressOperator
  <2>8. CASE PressEquals
    BY <1>1, <2>0, <2>1, <2>8, RequestEvaluateLegible, RequestEvaluateSound DEF PressEquals
  <2>9. CASE PressUnary
    BY <1>1, <2>0, <2>1, <2>9, ApplyUnaryLegible, ApplyUnarySound DEF PressUnary
  <2> QED
    BY <1>2, <2>2, <2>3, <2>4, <2>5, <2>6, <2>7, <2>8, <2>9 DEF Key
<1>3. CASE PressClearAll
  BY <1>3, InitialLegible DEF PressClearAll, ClearAll, Stay
<1>4. CASE Retry
  <2>1. calc' = calc \/ \E message : calc' = ApplyError(calc, message).state
    BY <1>4 DEF Retry, Send, ShowError
  <2> QED
    BY <1>1, <2>1, ApplyErrorLegible
<1>5. ASSUME NEW value \in Response, Recall(value) PROVE Legible(calc')
  <2>1. calc' = [initialState EXCEPT !.phase = "enteringA", !.display = StringOf(value)]
    BY <1>5 DEF Recall
  <2>2. PlainEntry(StringOf(value))
    BY ResponsePlain
  <2> QED
    BY <1>1, <2>1, <2>2, EntryLegible
<1>6. ASSUME NEW call \in calls, Settle(call) PROVE Legible(calc')
  <2>1. call.outcome \in Outcome
    BY <1>6 DEF Inv, TypeOK, Call, Settle
  <2>2. CASE UNCHANGED storeState
    BY <2>2 DEF storeState
  <2>3. CASE call.outcome.ok /\ ShowResult(calc, call.outcome.result)
    <3>1. call.outcome.result \in Response
      BY <2>1, <2>3 DEF Outcome
    <3> QED
      BY <1>1, <2>3, <3>1, ApplyResultLegible DEF ShowResult
  <2>4. CASE \E message : calc' = ApplyError(calc, message).state
    BY <1>1, <2>4, ApplyErrorLegible
  <2> QED
    BY <1>6, <2>2, <2>3, <2>4 DEF Settle, ShowError
<1>7. CASE UNCHANGED storeState
  BY <1>7 DEF storeState
<1> QED
  BY <1>2, <1>3, <1>4, <1>5, <1>6, <1>7 DEF Next, SetEvaluator, Answer, vars

(* What is legible tells the number.                                        *)
LEMMA LegibleTells ==
  ASSUME Inv, Legible(calc)
  PROVE  DisplayTellsTheNumber
<1>1. PICK t, x : t = calc.display /\ x = ParseEntry(t)
  OBVIOUS
<1>2. t \in Text /\ Shown(t) /\ (calc.phase \in Entering => PlainEntry(t))
  BY <1>1 DEF Inv, TypeOK, CalcState, Legible
<1>3. parseEntry(t) = x /\ x \in Number /\ Finite(x)
  BY <1>1, <1>2, ShownIsRead
<1>4. CASE calc.phase \in Entering
  <2>1. displayValue = formatEntry(t)
    BY <1>1, <1>4 DEF displayValue, formatMainValue
  <2>2. WithoutCommas(formatEntry(t)) = t /\ WithoutCommas(t) = t
    BY <1>2, <1>4, EntryReadsBack, NothingToTake DEF PlainEntry, NormalEntry
  <2>3. parseEntry(formatEntry(t)) = parseEntry(t)
    BY <2>2, Zenon DEF parseEntry
  <2>4. calc.phase # "operatorSelected"
    BY <1>4 DEF Entering
  <2> QED
    BY <1>1, <1>3, <1>4, <2>1, <2>3, <2>4 DEF DisplayTellsTheNumber
<1>5. CASE calc.phase \notin Entering
  <2>1. displayValue = formatResult(x)
    BY <1>1, <1>3, <1>5 DEF displayValue, formatMainValue
  <2>2. parseEntry(displayValue) = JsRoundTo(DEFAULT_MAX_SIGNIFICANT, x) /\ x \notin JsNonFinite
    BY <1>3, <2>1, ResultIsRead DEF Finite
  <2>3. ASSUME ~pending, calc.phase = "operatorSelected" PROVE displayExpression[1] = displayValue
    <3>1. calc.operator # Null /\ calc.a # Null /\ t = StringOf(calc.a)
      BY <1>1, <2>3 DEF Inv, CalcInv, Settled, Waiting
    <3>2. PICK line : line = <<t, calc.operator>>
      OBVIOUS
    <3>3. expressionOf(calc) = line
      BY <2>3, <3>1, <3>2 DEF expressionOf, OrZero
    <3>4. line # <<>> /\ line[1] = t
      BY <3>2
    <3>5. parseEntry(line[1]) = x /\ x \notin JsNonFinite
      BY <1>3, <2>2, <3>4
    <3>6. displayExpression = <<formatResult(x)>> \o Tail(line)
      BY <3>3, <3>4, <3>5 DEF displayExpression, formatExpression
    <3>7. Tail(line) = <<calc.operator>>
      BY <3>2
    <3> QED
      BY <2>1, <3>6, <3>7
  <2> QED
    BY <1>1, <1>5, <2>2, <2>3 DEF DisplayTellsTheNumber
<1> QED
  BY <1>4, <1>5

(* DisplayTellsTheNumber, the grouping of Display.tsx and format-number.ts  *)
(* against the number the next key uses: for any digits, results, precision *)
(* and entries of any length, as long as no result is printed with an       *)
(* exponent (run exponent_entry shows why that is needed).                  *)
THEOREM DisplayTellsCorrect == PlainResponses => (Spec => []DisplayTellsTheNumber)
<1> SUFFICES ASSUME PlainResponses PROVE Spec => []DisplayTellsTheNumber
  OBVIOUS
<1>1. Init => Legible(calc)
  BY InitialLegible DEF Init
<1>2. Inv /\ Legible(calc) /\ [Next]_vars => Legible(calc)'
  BY StepLegible
<1>3. Inv /\ Legible(calc) => DisplayTellsTheNumber
  BY LegibleTells
<1> QED
  BY <1>1, <1>2, <1>3, Invariance, PTL DEF Spec

-----------------------------------------------------------------------------
(* What is kept or sent beside the first operand: finite where it is there. *)
Given(x) == x # Null => Finite(x)

FiniteRequest(r) == r # Null => Given(r.a) /\ Given(r.b)

FiniteState(s) == Given(s.b) /\ FiniteRequest(s.lastRequest)

FiniteMove(t) == FiniteState(t.state) /\ FiniteRequest(t.effect)

Carried ==
  /\ FiniteState(calc)
  /\ FiniteRequest(lastSentRequest)
  /\ \A call \in calls : FiniteRequest(call.request)

(* One is finite.                                                           *)
LEMMA OneFinite == Finite(One)
<1>1. One = JsOne /\ One \in Number /\ One # JsNegZero
  BY NumberAssumption, DisplayAssumption
<1>2. IsJsNumber(One)
  BY <1>1, DisplayAssumption
<1>3. JsOne \notin JsNonFinite
  BY FiniteFacts DEF JsOne
<1> QED
  BY <1>1, <1>2, <1>3 DEF Finite

(* What stands in for an operand that is not there is finite.               *)
LEMMA OperandFinite ==
  ASSUME NEW x, Given(x)
  PROVE  Given(OrZero(x))
BY ZeroFinite DEF Given, OrZero

(* A transition that sends nothing and leaves or forgets the second operand *)
(* and the request remembered is such a move.                               *)
Quiet(s, t) ==
  t.effect = Null /\ t.state.b \in {s.b, Null} /\ t.state.lastRequest \in {s.lastRequest, Null}

LEMMA QuietFinite ==
  ASSUME NEW s, FiniteState(s), NEW t, Quiet(s, t)
  PROVE  FiniteMove(t)
BY DEF Quiet, FiniteMove, FiniteState, Given, FiniteRequest

(* So are the keys that only edit.                                          *)
LEMMA QuietKeysFinite ==
  ASSUME NEW s \in CalcState, FiniteState(s)
  PROVE  /\ \A d \in Digit : FiniteMove(InputDigit(s, d))
         /\ FiniteMove(InputDecimal(s)) /\ FiniteMove(ToggleSign(s))
         /\ FiniteMove(Backspace(s)) /\ FiniteMove(ClearEntry(s))
<1>2. s.phase \in Phase
  BY DEF CalcState
<1> USE DEF Quiet, CalcState, Phase, Entering, Stay, initialState
<1>3. ASSUME NEW d \in Digit PROVE Quiet(s, InputDigit(s, d))
  BY <1>2 DEF InputDigit
<1>4. Quiet(s, InputDecimal(s))
  BY <1>2 DEF InputDecimal
<1>5. Quiet(s, ToggleSign(s))
  BY <1>2 DEF ToggleSign
<1>6. Quiet(s, Backspace(s))
  BY <1>2 DEF Backspace
<1>7. Quiet(s, ClearEntry(s))
  BY <1>2 DEF ClearEntry
<1> HIDE DEF Quiet, CalcState, Phase, Entering, Stay, initialState
<1> QED
  BY <1>3, <1>4, <1>5, <1>6, <1>7, QuietFinite

(* A calculation of two finite operands is a finite request.                *)
LEMMA BinaryFinite ==
  ASSUME NEW op, NEW a, NEW b, Given(a), Given(b)
  PROVE  FiniteRequest(BinaryRequest(op, a, b))
BY OperandFinite DEF BinaryRequest, FiniteRequest

(* A transition that sends a finite request and keeps finite parts is one.  *)
LEMMA EmitFinite ==
  ASSUME NEW st, FiniteState(st), NEW r, FiniteRequest(r), NEW t, t = Emit(st, r)
  PROVE  FiniteMove(t)
<1>1. t.state = st /\ t.effect = r
  BY DEF Emit
<1> QED
  BY <1>1 DEF FiniteMove

(* An operator sends what was kept and what is read off the entry.          *)
LEMMA SetOperatorFinite ==
  ASSUME NEW s \in CalcState, Legible(s), FiniteState(s), NEW op
  PROVE  FiniteMove(SetOperator(s, op))
<1>1. Given(s.a) /\ Given(ParseEntry(s.display)) /\ s.phase \in Phase
  BY ReadFinite DEF Legible, Given, CalcState
<1>2. CASE s.phase = "enteringB"
  <2>1. PICK st : st = [s EXCEPT !.phase = "operatorSelected", !.a = Null, !.b = Null,
                                 !.operator = op]
    OBVIOUS
  <2>2. PICK r : r = BinaryRequest(s.operator, s.a, ParseEntry(s.display))
    OBVIOUS
  <2>3. PICK t : t = SetOperator(s, op)
    OBVIOUS
  <2>4. st.b = Null /\ st.lastRequest = s.lastRequest
    BY <2>1 DEF CalcState
  <2>5. FiniteState(st)
    BY <2>4 DEF FiniteState, Given
  <2>6. FiniteRequest(r)
    BY <1>1, <2>2, BinaryFinite
  <2>7. t = Emit(st, r)
    BY <1>2, <2>1, <2>2, <2>3 DEF SetOperator
  <2>8. FiniteMove(t)
    BY <2>5, <2>6, <2>7, EmitFinite
  <2> QED
    BY <2>3, <2>8, Zenon
<1>3. CASE s.phase # "enteringB"
  <2>1. Quiet(s, SetOperator(s, op))
    BY <1>1, <1>3 DEF Quiet, SetOperator, Stay, initialState, CalcState, Phase
  <2> QED
    BY <2>1, QuietFinite
<1> QED
  BY <1>2, <1>3

(* `=` does, and remembers it.                                              *)
LEMMA EvaluateFinite ==
  ASSUME NEW op, NEW a, NEW b, Given(a), Given(b),
         NEW r, r = BinaryRequest(op, a, b),
         NEW st, st.b = b, st.lastRequest = r,
         NEW t, t = Emit(st, r)
  PROVE  FiniteMove(t)
<1>1. FiniteRequest(r)
  BY BinaryFinite
<1>2. FiniteState(st)
  BY <1>1 DEF FiniteState
<1> QED
  BY <1>1, <1>2, EmitFinite

LEMMA RequestEvaluateFinite ==
  ASSUME NEW s \in CalcState, Legible(s), FiniteState(s)
  PROVE  FiniteMove(RequestEvaluate(s))
<1>1. Given(s.a) /\ Given(OrZero(s.a)) /\ Given(ParseEntry(s.display)) /\ s.phase \in Phase
  BY ReadFinite, OperandFinite DEF Legible, Given, CalcState
<1>2. PICK t : t = RequestEvaluate(s)
  OBVIOUS
<1>3. CASE s.phase = "operatorSelected"
  <2>1. PICK a, r : a = OrZero(s.a) /\ r = BinaryRequest(s.operator, a, a)
    OBVIOUS
  <2>2. PICK st : st = [s EXCEPT !.phase = "result", !.b = a, !.lastRequest = r]
    OBVIOUS
  <2>3. t = Emit(st, r)
    BY <1>2, <1>3, <2>1, <2>2 DEF RequestEvaluate
  <2>4. Given(a) /\ st.b = a /\ st.lastRequest = r
    BY <1>1, <2>1, <2>2 DEF CalcState
  <2>5. FiniteMove(t)
    BY <2>1, <2>3, <2>4, EvaluateFinite
  <2> QED
    BY <1>2, <2>5, Zenon
<1>4. CASE s.phase = "enteringB"
  <2>1. PICK b, r : b = ParseEntry(s.display) /\ r = BinaryRequest(s.operator, s.a, b)
    OBVIOUS
  <2>2. PICK st : st = [s EXCEPT !.phase = "result", !.b = b, !.lastRequest = r]
    OBVIOUS
  <2>3. t = Emit(st, r)
    BY <1>2, <1>4, <2>1, <2>2 DEF RequestEvaluate
  <2>4. Given(b) /\ st.b = b /\ st.lastRequest = r
    BY <1>1, <2>1, <2>2 DEF CalcState
  <2>5. FiniteMove(t)
    BY <1>1, <2>1, <2>3, <2>4, EvaluateFinite
  <2> QED
    BY <1>2, <2>5, Zenon
<1>5. CASE s.phase = "result" /\ s.lastRequest # Null
  <2>1. PICK r : r = [s.lastRequest EXCEPT !.a = OrZero(s.a)]
    OBVIOUS
  <2>2. PICK st : st = [s EXCEPT !.lastRequest = r]
    OBVIOUS
  <2>3. s.lastRequest \in CalculateRequest
    BY <1>5 DEF CalcState
  <2>4. r.a = OrZero(s.a) /\ r.b = s.lastRequest.b
    BY <2>1, <2>3 DEF CalculateRequest
  <2>5. FiniteRequest(r)
    BY <1>1, <1>5, <2>4 DEF FiniteState, FiniteRequest
  <2>6. st.b = s.b /\ st.lastRequest = r
    BY <2>2 DEF CalcState
  <2>7. FiniteState(st)
    BY <2>5, <2>6 DEF FiniteState
  <2>8. t = Emit(st, r)
    BY <1>2, <1>5, <2>1, <2>2 DEF RequestEvaluate
  <2>9. FiniteMove(t)
    BY <2>5, <2>7, <2>8, EmitFinite
  <2> QED
    BY <1>2, <2>9, Zenon
<1>6. CASE s.phase \in {"idle", "error", "enteringA"} \/ (s.phase = "result" /\ s.lastRequest = Null)
  <2>1. Quiet(s, RequestEvaluate(s))
    BY <1>6 DEF Quiet, RequestEvaluate, Stay, initialState
  <2> QED
    BY <2>1, QuietFinite
<1> QED
  BY <1>1, <1>3, <1>4, <1>5, <1>6 DEF Phase

(* A unary key sends the operand, and one or the left operand with it.      *)
LEMMA ApplyUnaryFinite ==
  ASSUME NEW s \in CalcState, Legible(s), FiniteState(s), NEW op
  PROVE  FiniteMove(ApplyUnary(s, op))
<1>1. Given(OrZero(s.a)) /\ Given(ParseEntry(s.display)) /\ Given(Zero) /\ Given(One) /\ s.phase \in Phase
  BY ReadFinite, ZeroFinite, OneFinite, OperandFinite DEF Legible, Given, CalcState
<1>2. ASSUME NEW a, NEW b, Given(a), Given(b)
      PROVE  FiniteRequest(SqrtRequest(a)) /\ FiniteRequest(PercentRequest(a, b))
  BY <1>2 DEF SqrtRequest, PercentRequest, FiniteRequest, Given
<1>3. FiniteRequest(ApplyUnary(s, op).effect)
  <2>1. PICK r : r = ApplyUnary(s, op).effect
    OBVIOUS
  <2>2. \E a, b : Given(a) /\ Given(b) /\ r \in {SqrtRequest(a), PercentRequest(a, b)}
    <3> USE DEF ApplyUnary, UnaryRequest, Emit
    <3>1. CASE s.phase \in {"idle", "error"}
      BY <1>1, <2>1, <3>1
    <3>2. CASE s.phase = "enteringA"
      BY <1>1, <2>1, <3>2
    <3>3. CASE s.phase \in {"operatorSelected", "result"}
      BY <1>1, <2>1, <3>3
    <3>4. CASE s.phase = "enteringB"
      BY <1>1, <2>1, <3>4
    <3> QED
      BY <1>1, <3>1, <3>2, <3>3, <3>4 DEF Phase
  <2> QED
    BY <1>2, <2>1, <2>2
<1>4. FiniteState(ApplyUnary(s, op).state)
  <2>1. /\ ApplyUnary(s, op).state.b \in {s.b, Null}
        /\ ApplyUnary(s, op).state.lastRequest \in {s.lastRequest, Null}
    BY <1>1 DEF ApplyUnary, Emit, initialState, CalcState, Phase
  <2> QED
    BY <2>1 DEF FiniteState, Given, FiniteRequest
<1> QED
  BY <1>3, <1>4 DEF FiniteMove

(* Sending a finite request leaves finite ones.                             *)
LEMMA SendCarries ==
  ASSUME Carried, NEW s \in CalcState, FiniteState(s), NEW r, FiniteRequest(r), Send(s, r)
  PROVE  Carried'
<1>1. FiniteRequest(lastSentRequest')
  BY DEF Send
<1>2. FiniteState(calc')
  <2>1. calc'.b = s.b /\ calc'.lastRequest = s.lastRequest
    BY DEF Send, ShowError, ApplyError, Stay, CalcState
  <2> QED
    BY <2>1 DEF FiniteState
<1>3. ASSUME NEW call \in calls' PROVE FiniteRequest(call.request)
  <2>1. call \in calls \/ call = [ticket |-> ticket + 1, request |-> r, outcome |-> Null]
    BY <1>3 DEF Send
  <2> QED
    BY <2>1 DEF Carried
<1> QED
  BY <1>1, <1>2, <1>3 DEF Carried

(* So does a key that does nothing worse.                                   *)
LEMMA InputCarries ==
  ASSUME Carried, NEW t, Sound(t), FiniteMove(t), Input(t)
  PROVE  Carried'
<1>1. t.state \in CalcState
  BY DEF Sound, Settled, Waiting
<1>2. CASE t.effect = Null
  BY <1>2 DEF Input, Apply, FiniteMove, Carried
<1>3. CASE t.effect # Null
  BY <1>1, <1>3, SendCarries DEF Input, Apply, FiniteMove
<1> QED
  BY <1>2, <1>3

(* An answer leaves the second operand or forgets it, and so with the       *)
(* request remembered.                                                      *)
LEMMA AnswerCarries ==
  ASSUME NEW s \in CalcState, FiniteState(s), NEW value
  PROVE  FiniteState(ApplyResult(s, value).state) /\ FiniteState(ApplyError(s, value).state)
<1>1. /\ ApplyResult(s, value).state.b \in {s.b, Null}
      /\ ApplyResult(s, value).state.lastRequest \in {s.lastRequest, Null}
  BY DEF ApplyResult, Stay, initialState, CalcState, Phase, Entering
<1>2. /\ ApplyError(s, value).state.b = s.b
      /\ ApplyError(s, value).state.lastRequest = s.lastRequest
  BY DEF ApplyError, Stay, CalcState
<1> QED
  BY <1>1, <1>2 DEF FiniteState, Given, FiniteRequest

(* No step of the store sends or keeps a number JSON cannot carry.          *)
LEMMA StepCarries ==
  ASSUME Inv, Legible(calc), Carried, [Next]_vars
  PROVE  Carried'
<1>1. calc \in CalcState /\ FiniteState(calc)
  BY DEF Inv, TypeOK, Carried
<1>2. CASE Key
  <2>0. Settled(calc)
    BY <1>2 DEF Key, PressDigit, PressDecimal, PressSign, PressBackspace, PressClearEntry,
                PressOperator, PressEquals, PressUnary, Input, Inv, CalcInv
  <2>2. CASE PressDigit
    BY <1>1, <2>0, <2>2, QuietKeysFinite, InputDigitSound, InputCarries DEF PressDigit
  <2>3. CASE PressDecimal
    BY <1>1, <2>0, <2>3, QuietKeysFinite, InputDecimalSound, InputCarries DEF PressDecimal
  <2>4. CASE PressSign
    BY <1>1, <2>0, <2>4, QuietKeysFinite, ToggleSignSound, InputCarries DEF PressSign
  <2>5. CASE PressBackspace
    BY <1>1, <2>0, <2>5, QuietKeysFinite, BackspaceSound, InputCarries DEF PressBackspace
  <2>6. CASE PressClearEntry
    BY <1>1, <2>0, <2>6, QuietKeysFinite, ClearEntrySound, InputCarries DEF PressClearEntry
  <2>7. CASE PressOperator
    BY <1>1, <2>0, <2>7, SetOperatorFinite, SetOperatorSound, InputCarries DEF PressOperator
  <2>8. CASE PressEquals
    BY <1>1, <2>0, <2>8, RequestEvaluateFinite, RequestEvaluateSound, InputCarries DEF PressEquals
  <2>9. CASE PressUnary
    BY <1>1, <2>0, <2>9, ApplyUnaryFinite, ApplyUnarySound, InputCarries DEF PressUnary
  <2> QED
    BY <1>2, <2>2, <2>3, <2>4, <2>5, <2>6, <2>7, <2>8, <2>9 DEF Key
<1>3. CASE PressClearAll
  BY <1>3 DEF PressClearAll, ClearAll, Stay, initialState, Carried, FiniteState, Given, FiniteRequest
<1>4. CASE Retry
  BY <1>1, <1>4, SendCarries DEF Retry, Carried
<1>5. ASSUME NEW value \in Response, Recall(value) PROVE Carried'
  <2>1. calc'.b = Null /\ calc'.lastRequest = Null /\ UNCHANGED <<lastSentRequest, calls>>
    BY <1>5 DEF Recall, initialState
  <2> QED
    BY <2>1 DEF Carried, FiniteState, Given, FiniteRequest
<1>6. ASSUME NEW call \in calls, NEW outcome \in Outcome, Answer(call, outcome) PROVE Carried'
  <2>1. UNCHANGED <<calc, lastSentRequest>>
    BY <1>6 DEF Answer, storeState
  <2>2. PICK new : new = [call EXCEPT !.outcome = outcome]
    OBVIOUS
  <2>3. calls' = (calls \ {call}) \cup {new} /\ new.request = call.request
    BY <1>6, <2>2 DEF Answer, Inv, TypeOK, Call
  <2> QED
    BY <2>1, <2>3 DEF Carried
<1>7. ASSUME NEW call \in calls, Settle(call) PROVE Carried'
  <2>1. calls' \subseteq calls /\ UNCHANGED lastSentRequest
    BY <1>7 DEF Settle
  <2>2. calc' = calc \/ \E value : calc' \in {ApplyResult(calc, value).state, ApplyError(calc, value).state}
    BY <1>7 DEF Settle, ShowResult, ShowError, storeState
  <2>3. FiniteState(calc')
    BY <1>1, <2>2, AnswerCarries
  <2> QED
    BY <2>1, <2>3 DEF Carried
<1>8. CASE (\E next \in BOOLEAN : SetEvaluator(next)) \/ UNCHANGED vars
  BY <1>8 DEF SetEvaluator, vars, storeState, Carried
<1> QED
  BY <1>2, <1>3, <1>4, <1>5, <1>6, <1>7, <1>8 DEF Next

(* RequestsAreServable: no key order, answer or retry sends a request that  *)
(* lacks an operand, has one too many, or carries a negative zero or a      *)
(* number JSON has no text for, as long as no result is printed with an     *)
(* exponent (a point typed behind a recalled 7e-7 is NaN).                  *)
THEOREM ServableCorrect == PlainResponses => (Spec => []RequestsAreServable)
<1> SUFFICES ASSUME PlainResponses PROVE Spec => []RequestsAreServable
  OBVIOUS
<1>1. Init => Legible(calc) /\ Carried
  BY InitialLegible DEF Init, initialState, Carried, FiniteState, Given, FiniteRequest
<1>2. Inv /\ (Legible(calc) /\ Carried) /\ [Next]_vars => (Legible(calc) /\ Carried)'
  BY StepLegible, StepCarries
<1>3. Inv /\ Legible(calc) /\ Carried => OperandsFinite
  <2> SUFFICES ASSUME Inv, Legible(calc), Carried PROVE OperandsFinite
    OBVIOUS
  <2>1. Null \notin NonFinite
    BY StoreAssumption, NumberAssumption
  <2>2. \A x : Given(x) => x \notin NonFinite
    BY <2>1, DisplayAssumption DEF Given, Finite
  <2>3. Given(calc.a) /\ Given(calc.b)
    BY DEF Legible, Carried, FiniteState, Given
  <2>4. ASSUME NEW call \in calls PROVE Given(call.request.a) /\ Given(call.request.b)
    <3>1. call.request # Null
      BY NullAssumption DEF Inv, TypeOK, Call
    <3> QED
      BY <3>1 DEF Carried, FiniteRequest
  <2> QED
    BY <2>2, <2>3, <2>4 DEF OperandsFinite
<1>4. Spec => []OperandsFinite
  BY <1>1, <1>2, <1>3, Invariance, PTL DEF Spec
<1> QED
  BY <1>4, NoNegativeZeroCorrect, ArityCorrect, PTL DEF RequestsAreServable
=============================================================================
