------------------------------ MODULE Arithmetic ------------------------------
(****************************************************************************)
(* internal/calc: the registry of operations and Evaluate, which is the     *)
(* only arithmetic in the program.                                          *)
(****************************************************************************)
EXTENDS Float64

CONSTANT Null    \* an operand that is not given, and Go's nil error

Binary == {"add", "subtract", "multiply", "divide", "power", "percent"}
Registry == Binary \cup {"sqrt"}
Arity(op) == IF op \in Binary THEN 2 ELSE 1

Returns(x) == [value |-> x, error |-> Null]
Fails(error) == [value |-> Zero(1), error |-> error]

isFinite(x) == x # NaN /\ ~IsInf(x)

divide(a, b) == IF IsZero(b) THEN Fails("ErrDivisionByZero") ELSE Returns(Over(a, b))

power(a, b) ==
  IF IsZero(a) /\ IsNegative(b) THEN Fails("ErrDivisionByZero")
  ELSE IF Pow(a, b) = NaN THEN Fails("ErrDomain")
  ELSE Returns(Pow(a, b))

sqrt(a) == IF IsNegative(a) THEN Fails("ErrDomain") ELSE Returns(SquareRoot(a))

(* A mistake: a*b may overflow although a*b/100 would not.                  *)
percentDirectly(a, b) == Returns(Over(Times(a, b), Hundred))

percent(a, b) ==
  LET res == Over(Times(a, b), Hundred)
  IN  Returns(IF IsInf(res) THEN Times(a, Over(b, Hundred)) ELSE res)

fn(op, a, b) ==
  CASE op = "add"      -> Returns(Plus(a, b))
    [] op = "subtract" -> Returns(Minus(a, b))
    [] op = "multiply" -> Returns(Times(a, b))
    [] op = "divide"   -> divide(a, b)
    [] op = "power"    -> power(a, b)
    [] op = "sqrt"     -> sqrt(a)
    [] op = "percent"  -> percent(a, b)

Evaluate(op, a, b) ==
  IF op \notin Registry THEN Fails("ErrUnknownOperation")
  ELSE IF (Arity(op) = 1) # (b = Null) THEN Fails("ErrArity")
  ELSE IF ~isFinite(a) \/ (b # Null /\ ~isFinite(b)) THEN Fails("ErrNotFinite")
  ELSE LET res == fn(op, a, b)
       IN  IF res.error # Null THEN res
           ELSE IF ~isFinite(res.value) THEN Fails("ErrNotFinite")
           ELSE IF IsZero(res.value) THEN Returns(Zero(1))
           ELSE res
=============================================================================
