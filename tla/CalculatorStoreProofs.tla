------------------------- MODULE CalculatorStoreProofs -------------------------
(****************************************************************************)
(* The safety properties of CalculatorStore, and that it implements         *)
(* CancellableCall, for every set of keys, every arithmetic that satisfies  *)
(* NumberAssumption, and any number of requests. The engine's keys are pure *)
(* functions, so each is shown sound by itself; the store's part is about   *)
(* tickets.                                                                 *)
(****************************************************************************)
EXTENDS CalculatorStore, TLAPS

(* A request the server can take: two operands, or one for a square root,   *)
(* and no negative zero among them.                                         *)
GoodRequest(r) ==
  /\ r \in CalculateRequest
  /\ NegZero \notin {r.a, r.b}
  /\ r.b = Null <=> r.operation = "sqrt"

(* What the engine's state keeps also while an answer is awaited: typing a  *)
(* second operand implies that the first one and the operator are there.    *)
Waiting(s) ==
  /\ s \in CalcState
  /\ s.phase \in {"operatorSelected", "enteringB"} => s.operator # Null
  /\ s.phase = "enteringB" => s.a # Null
  /\ s.error # Null <=> s.phase = "error"
  /\ NegZero \notin {s.a, s.b}
  /\ s.lastRequest # Null => GoodRequest(s.lastRequest)

(* What it keeps when no answer is awaited: in addition, outside the        *)
(* entering phases the first operand is there and is the number displayed.  *)
Settled(s) ==
  /\ Waiting(s)
  /\ s.phase \in {"operatorSelected", "result"} => s.a # Null /\ s.display = StringOf(s.a)

(* A transition of the engine that keeps the above: to a settled state, or  *)
(* to a waiting one together with a good request.                           *)
Sound(t) ==
  \/ t.effect = Null /\ Settled(t.state)
  \/ t.effect # Null /\ GoodRequest(t.effect) /\ Waiting(t.state)

(* The state after AC is settled.                                           *)
LEMMA InitialStateSettled == Settled(initialState)
BY TextAssumption, NumberAssumption
   DEF initialState, Settled, Waiting, CalcState, Phase

(* Parsing an entry yields a number and never a negative zero.              *)
LEMMA ParseEntryType ==
  ASSUME NEW t \in Text
  PROVE  ParseEntry(t) \in Number \ {NegZero}
BY NumberAssumption DEF ParseEntry, Unsigned

(* Neither does negating an operand.                                        *)
LEMMA NegateType ==
  ASSUME NEW x \in Number \cup {Null}
  PROVE  Negate(x) \in Number \ {NegZero}
BY NumberAssumption DEF Negate, Unsigned, OrZero

(* A transition without a request is sound when its state is settled.       *)
LEMMA StaySound ==
  ASSUME NEW n, Settled(n)
  PROVE  Sound(Stay(n))
BY DEF Sound, Stay

(* A transition with a good request is sound when its state may wait.       *)
LEMMA EmitSound ==
  ASSUME NEW n, NEW r, Waiting(n), GoodRequest(r)
  PROVE  Sound(Emit(n, r))
BY NullAssumption DEF Sound, Emit, GoodRequest

(* The digit keys are sound.                                                *)
LEMMA InputDigitSound ==
  ASSUME NEW s, Settled(s), NEW d \in Digit
  PROVE  Sound(InputDigit(s, d))
<1>1. AppendDigit(<<"0">>, d) \in Text /\ AppendDigit(s.display, d) \in Text
  BY TextAssumption DEF Settled, Waiting, CalcState
<1>2. CASE s.phase \in {"idle", "result", "error"}
  <2>1. Settled([initialState EXCEPT !.phase = "enteringA", !.display = AppendDigit(<<"0">>, d)])
    BY <1>1, InitialStateSettled DEF Settled, Waiting, CalcState, Phase, initialState
  <2> QED BY <1>2, <2>1, StaySound DEF InputDigit, Entering
<1>3. CASE s.phase \in Entering
  <2>1. Settled([s EXCEPT !.display = AppendDigit(s.display, d)])
    BY <1>1, <1>3 DEF Settled, Waiting, CalcState, Phase, Entering
  <2> QED BY <1>3, <2>1, StaySound DEF InputDigit, Entering
<1>4. CASE s.phase = "operatorSelected"
  <2>1. Settled([s EXCEPT !.phase = "enteringB", !.display = AppendDigit(<<"0">>, d), !.b = Null])
    BY <1>1, <1>4, NumberAssumption DEF Settled, Waiting, CalcState, Phase
  <2> QED BY <1>4, <2>1, StaySound DEF InputDigit, Entering
<1> QED BY <1>2, <1>3, <1>4 DEF Settled, Waiting, CalcState, Phase, Entering

(* The point is sound.                                                      *)
LEMMA InputDecimalSound ==
  ASSUME NEW s, Settled(s)
  PROVE  Sound(InputDecimal(s))
<1>1. <<"0", ".">> \in Text /\ AppendDecimal(s.display) \in Text
  BY TextAssumption DEF Settled, Waiting, CalcState
<1>2. CASE s.phase \in {"idle", "result", "error"}
  <2>1. Settled([initialState EXCEPT !.phase = "enteringA", !.display = <<"0", ".">>])
    BY <1>1, InitialStateSettled DEF Settled, Waiting, CalcState, Phase, initialState
  <2> QED BY <1>2, <2>1, StaySound DEF InputDecimal, Entering
<1>3. CASE s.phase \in Entering
  <2>1. Settled([s EXCEPT !.display = AppendDecimal(s.display)])
    BY <1>1, <1>3 DEF Settled, Waiting, CalcState, Phase, Entering
  <2> QED BY <1>3, <2>1, StaySound DEF InputDecimal, Entering
<1>4. CASE s.phase = "operatorSelected"
  <2>1. Settled([s EXCEPT !.phase = "enteringB", !.display = <<"0", ".">>, !.b = Null])
    BY <1>1, <1>4, NumberAssumption DEF Settled, Waiting, CalcState, Phase
  <2> QED BY <1>4, <2>1, StaySound DEF InputDecimal, Entering
<1> QED BY <1>2, <1>3, <1>4 DEF Settled, Waiting, CalcState, Phase, Entering

(* The sign key is sound: on a result it negates the operand and the        *)
(* display together.                                                        *)
LEMMA ToggleSignSound ==
  ASSUME NEW s, Settled(s)
  PROVE  Sound(ToggleSign(s))
<1>1. CASE s.phase \in {"idle", "error"}
  BY <1>1, InitialStateSettled, StaySound DEF ToggleSign, Entering
<1>2. CASE s.phase \in Entering
  <2>1. ToggleEntrySign(s.display) \in Text
    BY TextAssumption DEF Settled, Waiting, CalcState
  <2>2. Settled([s EXCEPT !.display = ToggleEntrySign(s.display)])
    BY <1>2, <2>1 DEF Settled, Waiting, CalcState, Phase, Entering
  <2> QED BY <1>2, <2>2, StaySound DEF ToggleSign, Entering
<1>3. CASE s.phase \in {"operatorSelected", "result"}
  <2> DEFINE value == Negate(s.a)
  <2>1. value \in Number \ {NegZero}
    BY NegateType DEF Settled, Waiting, CalcState
  <2>2. StringOf(value) \in Text
    BY <2>1, NumberAssumption
  <2> HIDE DEF value
  <2>3. Settled([s EXCEPT !.a = value, !.display = StringOf(value)])
    BY <1>3, <2>1, <2>2, NumberAssumption DEF Settled, Waiting, CalcState, Phase
  <2> QED BY <1>3, <2>3, StaySound DEF ToggleSign, Entering, value
<1> QED BY <1>1, <1>2, <1>3 DEF Settled, Waiting, CalcState, Phase, Entering

(* Backspace is sound.                                                      *)
LEMMA BackspaceSound ==
  ASSUME NEW s, Settled(s)
  PROVE  Sound(Backspace(s))
<1>1. CASE s.phase \in {"idle", "error"}
  BY <1>1, InitialStateSettled, StaySound DEF Backspace, Entering
<1>2. CASE s.phase \in Entering
  <2>1. DropLastChar(s.display) \in Text
    BY TextAssumption DEF Settled, Waiting, CalcState
  <2>2. Settled([s EXCEPT !.display = DropLastChar(s.display)])
    BY <1>2, <2>1 DEF Settled, Waiting, CalcState, Phase, Entering
  <2> QED BY <1>2, <2>2, StaySound DEF Backspace, Entering
<1>3. CASE s.phase \in {"operatorSelected", "result"}
  BY <1>3, StaySound DEF Backspace, Entering
<1> QED BY <1>1, <1>2, <1>3 DEF Settled, Waiting, CalcState, Phase, Entering

(* CE is sound: leaving the second entry, it shows the first operand again. *)
LEMMA ClearEntrySound ==
  ASSUME NEW s, Settled(s)
  PROVE  Sound(ClearEntry(s))
<1>1. CASE s.phase \in {"idle", "enteringA", "result", "error"}
  BY <1>1, InitialStateSettled, StaySound DEF ClearEntry
<1>2. CASE s.phase = "operatorSelected"
  BY <1>2, StaySound DEF ClearEntry
<1>3. CASE s.phase = "enteringB"
  <2>1. s.a \in Number /\ OrZero(s.a) = s.a /\ StringOf(s.a) \in Text
    BY <1>3, NumberAssumption DEF Settled, Waiting, CalcState, OrZero
  <2>2. Settled([s EXCEPT !.phase = "operatorSelected", !.display = StringOf(s.a), !.b = Null])
    BY <1>3, <2>1, NumberAssumption DEF Settled, Waiting, CalcState, Phase
  <2> QED BY <1>3, <2>1, <2>2, StaySound DEF ClearEntry
<1> QED BY <1>1, <1>2, <1>3 DEF Settled, Waiting, CalcState, Phase

(* binaryRequest builds a good request.                                     *)
LEMMA BinaryRequestGood ==
  ASSUME NEW op \in BinaryOperation, NEW a \in Number \ {NegZero},
         NEW b \in Number \ {NegZero}
  PROVE  GoodRequest(BinaryRequest(op, a, b))
<1>1. op # Null /\ op # "sqrt"
  BY NullAssumption DEF BinaryOperation
<1>2. BinaryRequest(op, a, b) = [operation |-> op, a |-> a, b |-> b]
  BY <1>1, NumberAssumption DEF BinaryRequest, OrZero
<1> QED BY <1>1, <1>2, NumberAssumption DEF GoodRequest, CalculateRequest

(* So does unaryRequest, for either unary key.                              *)
LEMMA UnaryRequestGood ==
  ASSUME NEW op \in UnaryKey, NEW x \in Number \ {NegZero}
  PROVE  GoodRequest(UnaryRequest(op, x))
BY NumberAssumption
   DEF UnaryRequest, SqrtRequest, PercentRequest, GoodRequest, CalculateRequest, UnaryKey

(* So does percentRequest.                                                  *)
LEMMA PercentRequestGood ==
  ASSUME NEW a \in Number \ {NegZero}, NEW b \in Number \ {NegZero}
  PROVE  GoodRequest(PercentRequest(a, b))
BY NumberAssumption DEF PercentRequest, GoodRequest, CalculateRequest, UnaryKey

(* So does sqrtRequest.                                                     *)
LEMMA SqrtRequestGood ==
  ASSUME NEW a \in Number \ {NegZero}
  PROVE  GoodRequest(SqrtRequest(a))
BY NumberAssumption DEF SqrtRequest, GoodRequest, CalculateRequest, UnaryKey

(* The operator keys are sound, also when they chain an evaluation.         *)
LEMMA SetOperatorSound ==
  ASSUME NEW s, Settled(s), NEW op \in Operator
  PROVE  Sound(SetOperator(s, op))
<1> USE NumberAssumption
<1>0. op \in BinaryOperation /\ op # Null
  BY KeyAssumption, NullAssumption
<1>1. CASE s.phase \in {"idle", "error"}
  <2>1. Settled([initialState EXCEPT !.phase = "operatorSelected", !.a = Zero, !.operator = op])
    BY <1>0, InitialStateSettled DEF Settled, Waiting, CalcState, Phase, initialState
  <2> QED BY <1>1, <2>1, StaySound DEF SetOperator
<1>2. CASE s.phase = "enteringA"
  <2> DEFINE a == ParseEntry(s.display)
  <2>1. a \in Number \ {NegZero}
    BY ParseEntryType DEF Settled, Waiting, CalcState
  <2> HIDE DEF a
  <2>2. Settled([s EXCEPT !.phase = "operatorSelected", !.a = a, !.display = StringOf(a),
                          !.operator = op])
    BY <1>0, <1>2, <2>1 DEF Settled, Waiting, CalcState, Phase
  <2> QED BY <1>2, <2>2, StaySound DEF SetOperator, a
<1>3. CASE s.phase = "operatorSelected"
  <2>1. Settled([s EXCEPT !.operator = op])
    BY <1>0, <1>3 DEF Settled, Waiting, CalcState, Phase
  <2> QED BY <1>3, <2>1, StaySound DEF SetOperator
<1>4. CASE s.phase = "result"
  <2>1. Settled([s EXCEPT !.phase = "operatorSelected", !.operator = op, !.b = Null])
    BY <1>0, <1>4 DEF Settled, Waiting, CalcState, Phase
  <2> QED BY <1>4, <2>1, StaySound DEF SetOperator
<1>5. CASE s.phase = "enteringB"
  <2>1. Waiting([s EXCEPT !.phase = "operatorSelected", !.a = Null, !.b = Null, !.operator = op])
    BY <1>0, <1>5 DEF Settled, Waiting, CalcState, Phase
  <2>2. /\ s.operator \in BinaryOperation
        /\ s.a \in Number \ {NegZero}
        /\ ParseEntry(s.display) \in Number \ {NegZero}
    BY <1>5, ParseEntryType DEF Settled, Waiting, CalcState
  <2>3. GoodRequest(BinaryRequest(s.operator, s.a, ParseEntry(s.display)))
    BY <2>2, BinaryRequestGood
  <2> QED BY <1>5, <2>1, <2>3, EmitSound DEF SetOperator
<1> QED BY <1>1, <1>2, <1>3, <1>4, <1>5 DEF Settled, Waiting, CalcState, Phase

(* The `=` key is sound, also when it repeats the last request.             *)
LEMMA RequestEvaluateSound ==
  ASSUME NEW s, Settled(s)
  PROVE  Sound(RequestEvaluate(s))
<1> USE NumberAssumption
<1>1. CASE s.phase \in {"idle", "error"}
  BY <1>1, InitialStateSettled, StaySound DEF RequestEvaluate
<1>2. CASE s.phase = "enteringA"
  <2> DEFINE a == ParseEntry(s.display)
  <2>1. a \in Number \ {NegZero}
    BY ParseEntryType DEF Settled, Waiting, CalcState
  <2> HIDE DEF a
  <2>2. Settled([initialState EXCEPT !.phase = "result", !.a = a, !.display = StringOf(a)])
    BY <2>1, InitialStateSettled DEF Settled, Waiting, CalcState, Phase, initialState
  <2> QED BY <1>2, <2>2, StaySound DEF RequestEvaluate, a
<1>3. CASE s.phase = "operatorSelected"
  <2> DEFINE request == BinaryRequest(s.operator, s.a, s.a)
  <2>1. s.operator \in BinaryOperation /\ s.a \in Number \ {NegZero} /\ OrZero(s.a) = s.a
    BY <1>3 DEF Settled, Waiting, CalcState, OrZero
  <2>2. GoodRequest(request)
    BY <2>1, BinaryRequestGood
  <2> HIDE DEF request
  <2>3. request \in CalculateRequest
    BY <2>2 DEF GoodRequest
  <2>4. Waiting([s EXCEPT !.phase = "result", !.b = s.a, !.lastRequest = request])
    BY <1>3, <2>1, <2>2, <2>3 DEF Settled, Waiting, CalcState, Phase
  <2> QED BY <1>3, <2>1, <2>2, <2>4, EmitSound DEF RequestEvaluate, request
<1>4. CASE s.phase = "enteringB"
  <2> DEFINE b == ParseEntry(s.display)
             request == BinaryRequest(s.operator, s.a, b)
  <2>1. s.operator \in BinaryOperation /\ s.a \in Number \ {NegZero} /\ b \in Number \ {NegZero}
    BY <1>4, ParseEntryType DEF Settled, Waiting, CalcState
  <2> HIDE DEF b
  <2>2. GoodRequest(request)
    BY <2>1, BinaryRequestGood
  <2> HIDE DEF request
  <2>3. request \in CalculateRequest
    BY <2>2 DEF GoodRequest
  <2>4. Waiting([s EXCEPT !.phase = "result", !.b = b, !.lastRequest = request])
    BY <1>4, <2>1, <2>2, <2>3 DEF Settled, Waiting, CalcState, Phase
  <2> QED BY <1>4, <2>2, <2>4, EmitSound DEF RequestEvaluate, request, b
<1>5. CASE s.phase = "result" /\ s.lastRequest = Null
  BY <1>5, StaySound DEF RequestEvaluate
<1>6. CASE s.phase = "result" /\ s.lastRequest # Null
  <2> DEFINE request == [s.lastRequest EXCEPT !.a = s.a]
  <2>1. s.a \in Number \ {NegZero} /\ OrZero(s.a) = s.a /\ GoodRequest(s.lastRequest)
    BY <1>6 DEF Settled, Waiting, CalcState, OrZero
  <2>2. GoodRequest(request)
    BY <2>1 DEF GoodRequest, CalculateRequest
  <2> HIDE DEF request
  <2>3. request \in CalculateRequest
    BY <2>2 DEF GoodRequest
  <2>4. Waiting([s EXCEPT !.lastRequest = request])
    BY <1>6, <2>2, <2>3 DEF Settled, Waiting, CalcState, Phase
  <2> QED BY <1>6, <2>1, <2>2, <2>4, EmitSound DEF RequestEvaluate, request
<1> QED BY <1>1, <1>2, <1>3, <1>4, <1>5, <1>6 DEF Settled, Waiting, CalcState, Phase

(* The unary keys are sound in every phase.                                 *)
LEMMA ApplyUnarySound ==
  ASSUME NEW s, Settled(s), NEW op \in UnaryKey
  PROVE  Sound(ApplyUnary(s, op))
<1> USE NumberAssumption
<1>1. CASE s.phase \in {"idle", "error"}
  <2>1. Waiting([initialState EXCEPT !.phase = "result"])
    BY InitialStateSettled DEF Settled, Waiting, CalcState, Phase, initialState
  <2>2. GoodRequest(UnaryRequest(op, Zero))
    BY UnaryRequestGood
  <2> QED BY <1>1, <2>1, <2>2, EmitSound DEF ApplyUnary
<1>2. CASE s.phase = "enteringA"
  <2>1. Waiting([s EXCEPT !.phase = "result"])
    BY <1>2 DEF Settled, Waiting, CalcState, Phase
  <2>2. ParseEntry(s.display) \in Number \ {NegZero}
    BY ParseEntryType DEF Settled, Waiting, CalcState
  <2>3. GoodRequest(UnaryRequest(op, ParseEntry(s.display)))
    BY <2>2, UnaryRequestGood
  <2> QED BY <1>2, <2>1, <2>3, EmitSound DEF ApplyUnary
<1>3. CASE s.phase \in {"operatorSelected", "result"}
  <2>1. s.a \in Number \ {NegZero} /\ OrZero(s.a) = s.a
    BY <1>3 DEF Settled, Waiting, CalcState, OrZero
  <2>2. GoodRequest(UnaryRequest(op, OrZero(s.a)))
    BY <2>1, UnaryRequestGood
  <2>3. Waiting(s)
    BY DEF Settled
  <2> QED BY <1>3, <2>2, <2>3, EmitSound DEF ApplyUnary
<1>4. CASE s.phase = "enteringB"
  <2> DEFINE entry == ParseEntry(s.display)
             request == IF op = "sqrt" THEN SqrtRequest(entry)
                                       ELSE PercentRequest(OrZero(s.a), entry)
  <2>1. /\ s.a \in Number \ {NegZero} /\ OrZero(s.a) = s.a
        /\ entry \in Number \ {NegZero}
    BY <1>4, ParseEntryType DEF Settled, Waiting, CalcState, OrZero
  <2>2. GoodRequest(request)
    BY <2>1, SqrtRequestGood, PercentRequestGood
  <2>3. Waiting(s)
    BY DEF Settled
  <2> QED BY <1>4, <2>2, <2>3, EmitSound DEF ApplyUnary
<1> QED BY <1>1, <1>2, <1>3, <1>4 DEF Settled, Waiting, CalcState, Phase

(* A result settles any waiting state.                                      *)
LEMMA ApplyResultSettled ==
  ASSUME NEW s, Waiting(s), NEW value \in Response
  PROVE  Settled(ApplyResult(s, value).state)
<1> USE NumberAssumption
<1>0. value \in Number \ {NegZero} /\ StringOf(value) \in Text
  BY StoreAssumption
<1>1. CASE s.phase \in Entering
  <2>1. Settled([s EXCEPT !.display = StringOf(value), !.error = Null])
    BY <1>0, <1>1 DEF Settled, Waiting, CalcState, Phase, Entering
  <2> QED BY <1>1, <2>1 DEF ApplyResult, Stay, Entering
<1>2. CASE s.phase \in {"operatorSelected", "result"}
  <2>1. Settled([s EXCEPT !.a = value, !.b = Null, !.display = StringOf(value), !.error = Null])
    BY <1>0, <1>2 DEF Settled, Waiting, CalcState, Phase
  <2> QED BY <1>2, <2>1 DEF ApplyResult, Stay, Entering
<1>3. CASE s.phase \in {"idle", "error"}
  <2>1. Settled([initialState EXCEPT !.phase = "result", !.a = value, !.display = StringOf(value)])
    BY <1>0, InitialStateSettled DEF Settled, Waiting, CalcState, Phase, initialState
  <2> QED BY <1>3, <2>1 DEF ApplyResult, Stay, Entering
<1> QED BY <1>1, <1>2, <1>3 DEF Waiting, CalcState, Phase, Entering

(* So does an error.                                                        *)
LEMMA ApplyErrorSettled ==
  ASSUME NEW s, Waiting(s), NEW message \in Message
  PROVE  Settled(ApplyError(s, message).state)
<1>1. message # Null
  BY NullAssumption
<1>2. Settled([s EXCEPT !.phase = "error", !.error = message])
  BY <1>1 DEF Settled, Waiting, CalcState, Phase
<1> QED BY <1>2 DEF ApplyError, Stay

(* Recalling a number of the history leaves a settled state.                *)
LEMMA RecallSettled ==
  ASSUME NEW value \in Response
  PROVE  Settled([initialState EXCEPT !.phase = "enteringA", !.display = StringOf(value)])
<1>1. StringOf(value) \in Text
  BY NumberAssumption, StoreAssumption
<1> QED BY <1>1, InitialStateSettled DEF Settled, Waiting, CalcState, Phase, initialState

-----------------------------------------------------------------------------
(* The engine's part of the invariant, with the store's busy flag.          *)
CalcInv == Waiting(calc) /\ (~pending => Settled(calc))

(* Everything out on the wire, and what retry() would send, is a good       *)
(* request.                                                                 *)
RequestInv ==
  /\ \A call \in calls : GoodRequest(call.request)
  /\ lastSentRequest # Null => GoodRequest(lastSentRequest)

(* No ticket of a promise is ahead of the store's, and no two promises      *)
(* share one.                                                               *)
TicketInv ==
  /\ \A call \in calls : call.ticket <= ticket
  /\ \A c, d \in calls : c.ticket = d.ticket => c = d

(* The inductive invariant.  The tickets are what it turns on: a new one is *)
(* larger than those of all promises, so no late answer can be taken for    *)
(* the current one.                                                         *)
Inv ==
  /\ TypeOK
  /\ CalcInv
  /\ RequestInv
  /\ TicketInv
  /\ BusyIffCurrentCallOut
  /\ ErrorIdIsCurrent

(* It holds when the page has loaded.                                       *)
LEMMA InitInv == Init => Inv
<1> SUFFICES ASSUME Init PROVE Inv
  OBVIOUS
<1>1. CalcInv
  BY InitialStateSettled DEF Init, CalcInv, Settled
<1>2. TypeOK
  <2>1. calc \in CalcState
    BY <1>1 DEF CalcInv, Waiting
  <2>2. ticket \in 0..MaxTicket
    BY StoreAssumption DEF Init
  <2>3. pending \in BOOLEAN /\ canRetry \in BOOLEAN /\ wired \in BOOLEAN
    BY DEF Init
  <2>4. errorRequestId \in (1..MaxTicket) \cup {Null}
    BY DEF Init
  <2>5. calls \in SUBSET Call
    BY DEF Init
  <2> QED BY <2>1, <2>2, <2>3, <2>4, <2>5, Zenon DEF Init, TypeOK
<1> QED BY <1>1, <1>2 DEF Init, Inv, RequestInv, TicketInv, BusyIffCurrentCallOut, ErrorIdIsCurrent

(* send() keeps it, with an evaluator or without.                           *)
LEMMA SendInv ==
  ASSUME Inv, ~pending, NEW s, Waiting(s), NEW request, GoodRequest(request), Send(s, request)
  PROVE  Inv'
<1>0. request \in CalculateRequest
  BY DEF GoodRequest
<1>1. ticket \in Nat /\ ticket' = ticket + 1 /\ ticket' \in 1..MaxTicket /\ MaxTicket \in Nat
  BY StoreAssumption DEF Inv, TypeOK, Send
<1>2. CASE wired
  <2> DEFINE new == [ticket |-> ticket + 1, request |-> request, outcome |-> Null]
  <2>1. calls' = calls \cup {new} /\ calc' = s /\ pending' = TRUE /\ errorRequestId' = Null
        /\ canRetry' = FALSE /\ lastSentRequest' = request /\ wired' = wired
    BY <1>2 DEF Send
  <2>2. new \in Call /\ new.ticket = ticket' /\ new.request = request
    BY <1>0, <1>1 DEF Call
  <2> HIDE DEF new
  <2>3. TypeOK'
    <3>1. calc' \in CalcState
      BY <2>1 DEF Waiting
    <3>2. pending' \in BOOLEAN /\ canRetry' \in BOOLEAN /\ wired' \in BOOLEAN
      BY <2>1 DEF Inv, TypeOK
    <3>3. calls' \in SUBSET Call /\ ticket' \in 0..MaxTicket
      BY <1>1, <2>1, <2>2 DEF Inv, TypeOK
    <3> QED BY <1>0, <2>1, <3>1, <3>2, <3>3, Zenon DEF TypeOK
  <2>4. CalcInv'
    BY <2>1 DEF CalcInv
  <2>5. RequestInv'
    BY <2>1, <2>2 DEF RequestInv, Inv
  <2>6. \A call \in calls : call.ticket \in Nat /\ call.ticket < ticket'
    BY <1>1 DEF Inv, TypeOK, TicketInv, Call
  <2>7. TicketInv'
    BY <1>1, <2>1, <2>2, <2>6 DEF TicketInv, Inv
  <2>8. BusyIffCurrentCallOut'
    BY <1>1, <2>1, <2>2, <2>6 DEF BusyIffCurrentCallOut
  <2>9. ErrorIdIsCurrent'
    BY <2>1 DEF ErrorIdIsCurrent
  <2> QED BY <2>3, <2>4, <2>5, <2>7, <2>8, <2>9 DEF Inv
<1>3. CASE ~wired
  <2>1. calls' = calls /\ calc' = ApplyError(s, "FALLBACK").state /\ pending' = FALSE
        /\ errorRequestId' = Null /\ canRetry' = FALSE /\ lastSentRequest' = request
        /\ wired' = wired
    BY <1>3 DEF Send, ShowError
  <2>2. Settled(calc')
    BY <2>1, ApplyErrorSettled DEF Message
  <2>3. TypeOK'
    <3>1. calc' \in CalcState
      BY <2>2 DEF Settled, Waiting
    <3>2. pending' \in BOOLEAN /\ canRetry' \in BOOLEAN /\ wired' \in BOOLEAN
      BY <2>1 DEF Inv, TypeOK
    <3>3. calls' \in SUBSET Call /\ ticket' \in 0..MaxTicket
      BY <1>1, <2>1 DEF Inv, TypeOK
    <3> QED BY <1>0, <2>1, <3>1, <3>2, <3>3, Zenon DEF TypeOK
  <2>4. CalcInv'
    BY <2>2 DEF CalcInv, Settled
  <2>5. RequestInv'
    BY <2>1 DEF RequestInv, Inv
  <2>6. \A call \in calls : call.ticket \in Nat /\ call.ticket < ticket'
    BY <1>1 DEF Inv, TypeOK, TicketInv, Call
  <2>7. TicketInv'
    BY <1>1, <2>1, <2>6 DEF TicketInv, Inv
  <2>8. BusyIffCurrentCallOut'
    BY <1>1, <2>1, <2>6 DEF BusyIffCurrentCallOut
  <2>9. ErrorIdIsCurrent'
    BY <2>1 DEF ErrorIdIsCurrent
  <2> QED BY <2>3, <2>4, <2>5, <2>7, <2>8, <2>9 DEF Inv
<1> QED BY <1>2, <1>3

(* So does a key, when its transition is sound.                             *)
LEMMA InputInv ==
  ASSUME Inv, NEW t, Sound(t), Input(t)
  PROVE  Inv'
<1>1. CASE t.effect = Null
  <2>1. Settled(calc') /\ ~pending
        /\ UNCHANGED <<pending, errorRequestId, canRetry, wired, ticket, lastSentRequest, calls>>
    BY <1>1 DEF Input, Apply, Sound
  <2>2. calc' \in CalcState
    BY <2>1 DEF Settled, Waiting
  <2> QED BY <2>1, <2>2 DEF Inv, TypeOK, CalcInv, Settled, RequestInv, TicketInv,
                            BusyIffCurrentCallOut, ErrorIdIsCurrent
<1>2. CASE t.effect # Null
  BY <1>2, SendInv DEF Input, Apply, Sound
<1> QED BY <1>1, <1>2

(* So does AC, which leaves the promise it abandons behind with an old      *)
(* ticket.                                                                  *)
LEMMA ClearAllInv ==
  ASSUME Inv, PressClearAll
  PROVE  Inv'
<1>1. ticket \in Nat /\ ticket' = ticket + 1 /\ ticket' \in 1..MaxTicket /\ MaxTicket \in Nat
  BY StoreAssumption DEF Inv, TypeOK, PressClearAll
<1>2. calc' = initialState /\ pending' = FALSE /\ errorRequestId' = Null /\ canRetry' = FALSE
      /\ UNCHANGED <<wired, lastSentRequest, calls>>
  BY DEF PressClearAll, ClearAll, Stay
<1>3. Settled(calc') /\ calc' \in CalcState
  BY <1>2, InitialStateSettled DEF Settled, Waiting
<1>4. TypeOK'
  <2>1. pending' \in BOOLEAN /\ canRetry' \in BOOLEAN /\ wired' \in BOOLEAN
    BY <1>2 DEF Inv, TypeOK
  <2>2. ticket' \in 0..MaxTicket /\ lastSentRequest' \in CalculateRequest \cup {Null}
        /\ calls' \in SUBSET Call
    BY <1>1, <1>2 DEF Inv, TypeOK
  <2> QED BY <1>2, <1>3, <2>1, <2>2, Zenon DEF TypeOK
<1>5. CalcInv'
  BY <1>3 DEF CalcInv, Settled
<1>6. RequestInv'
  BY <1>2 DEF RequestInv, Inv
<1>7. \A call \in calls : call.ticket \in Nat /\ call.ticket < ticket'
  BY <1>1 DEF Inv, TypeOK, TicketInv, Call
<1>8. TicketInv'
  BY <1>1, <1>2, <1>7 DEF TicketInv, Inv
<1>9. BusyIffCurrentCallOut'
  BY <1>1, <1>2, <1>7 DEF BusyIffCurrentCallOut
<1>10. ErrorIdIsCurrent'
  BY <1>2 DEF ErrorIdIsCurrent
<1> QED BY <1>4, <1>5, <1>6, <1>8, <1>9, <1>10 DEF Inv

(* So does retry().                                                         *)
LEMMA RetryInv ==
  ASSUME Inv, Retry
  PROVE  Inv'
<1>1. Waiting(calc) /\ GoodRequest(lastSentRequest)
  BY DEF Inv, CalcInv, RequestInv, Retry
<1> QED BY <1>1, SendInv DEF Retry

(* So does recall().                                                        *)
LEMMA RecallInv ==
  ASSUME Inv, NEW value \in Response, Recall(value)
  PROVE  Inv'
<1>1. Settled(calc')
  BY RecallSettled DEF Recall
<1>2. ~pending /\ errorRequestId' = Null /\ canRetry' = FALSE
      /\ UNCHANGED <<pending, wired, ticket, lastSentRequest, calls>>
  BY DEF Recall
<1>3. TypeOK'
  <2>1. calc' \in CalcState
    BY <1>1 DEF Settled, Waiting
  <2>2. canRetry' \in BOOLEAN
    BY <1>2
  <2> QED BY <1>2, <2>1, <2>2, Zenon DEF Inv, TypeOK
<1> QED BY <1>1, <1>2, <1>3 DEF Inv, CalcInv, Settled, RequestInv, TicketInv,
                                BusyIffCurrentCallOut, ErrorIdIsCurrent

(* So does mounting or unmounting the calculator.                           *)
LEMMA SetEvaluatorInv ==
  ASSUME Inv, NEW next \in BOOLEAN, SetEvaluator(next)
  PROVE  Inv'
<1>1. wired' \in BOOLEAN /\ UNCHANGED <<storeState, ticket, lastSentRequest, calls>>
  BY DEF SetEvaluator
<1>2. TypeOK'
  BY <1>1, Zenon DEF Inv, TypeOK, storeState
<1> QED BY <1>1, <1>2 DEF Inv, storeState, CalcInv, RequestInv, TicketInv,
                          BusyIffCurrentCallOut, ErrorIdIsCurrent

(* So does an answer on its way.                                            *)
LEMMA AnswerInv ==
  ASSUME Inv, NEW call \in calls, NEW outcome \in Outcome, Answer(call, outcome)
  PROVE  Inv'
<1> DEFINE new == [call EXCEPT !.outcome = outcome]
<1>1. /\ new \in Call
      /\ new.ticket = call.ticket
      /\ new.request = call.request
  BY DEF Inv, TypeOK, Call
<1>2. calls' = (calls \ {call}) \cup {new}
      /\ UNCHANGED <<storeState, wired, ticket, lastSentRequest>>
  BY DEF Answer
<1> HIDE DEF new
<1>3. TypeOK'
  <2>1. calls' \in SUBSET Call
    BY <1>1, <1>2 DEF Inv, TypeOK
  <2> QED BY <1>2, <2>1, Zenon DEF Inv, TypeOK, storeState
<1>4. CalcInv' /\ ErrorIdIsCurrent'
  BY <1>2 DEF Inv, storeState, CalcInv, ErrorIdIsCurrent
<1>5. RequestInv'
  BY <1>1, <1>2 DEF Inv, RequestInv
<1>6. TicketInv'
  BY <1>1, <1>2 DEF Inv, TicketInv
<1>7. BusyIffCurrentCallOut'
  BY <1>1, <1>2 DEF Inv, BusyIffCurrentCallOut, storeState
<1> QED BY <1>3, <1>4, <1>5, <1>6, <1>7 DEF Inv

(* So does an answer that arrives, in time or late.                         *)
LEMMA SettleInv ==
  ASSUME Inv, NEW call \in calls, Settle(call)
  PROVE  Inv'
<1>0. call \in Call /\ call.outcome \in Outcome /\ call.ticket \in 1..MaxTicket
  BY DEF Inv, TypeOK, Call, Settle
<1>1. calls' = calls \ {call} /\ UNCHANGED <<wired, ticket, lastSentRequest>>
  BY DEF Settle
<1>2. RequestInv' /\ TicketInv'
  BY <1>1 DEF Inv, RequestInv, TicketInv
<1>3. calls' \in SUBSET Call
  BY <1>1 DEF Inv, TypeOK
<1>4. CASE call.ticket # ticket
  <2>1. UNCHANGED storeState
    BY <1>4 DEF Settle
  <2>2. TypeOK'
    BY <1>1, <1>3, <2>1, Zenon DEF Inv, TypeOK, storeState
  <2>3. CalcInv' /\ ErrorIdIsCurrent'
    BY <1>1, <2>1 DEF Inv, storeState, CalcInv, ErrorIdIsCurrent
  <2>4. BusyIffCurrentCallOut'
    BY <1>1, <1>4, <2>1 DEF Inv, BusyIffCurrentCallOut, storeState
  <2> QED BY <1>2, <2>2, <2>3, <2>4 DEF Inv
<1>5. CASE call.ticket = ticket
  <2>1. \A other \in calls' : other.ticket # ticket'
    BY <1>1, <1>5 DEF Inv, TicketInv
  <2>2. lastSentRequest # Null
    <3>1. call.request = lastSentRequest /\ call.request \in CalculateRequest
      BY <1>0, <1>5 DEF Inv, BusyIffCurrentCallOut, Call
    <3> QED BY <3>1, NullAssumption
  <2>3. /\ Settled(calc')
        /\ pending' = FALSE
        /\ canRetry' \in BOOLEAN
        /\ errorRequestId' \in {ticket, Null}
    <3>1. CASE call.outcome.ok
      <4>1. call.outcome.result \in Response
        BY <1>0, <3>1 DEF Outcome
      <4>2. /\ calc' = ApplyResult(calc, call.outcome.result).state
            /\ pending' = FALSE /\ errorRequestId' = Null /\ canRetry' = FALSE
        BY <1>5, <3>1 DEF Settle, ShowResult
      <4>3. Settled(calc')
        BY <4>1, <4>2, ApplyResultSettled DEF Inv, CalcInv
      <4> QED BY <4>2, <4>3
    <3>2. CASE ~call.outcome.ok
      <4> DEFINE failure == call.outcome.failure
      <4>1. failure.code \in Message
        <5>1. call.outcome \in [ok : {FALSE}, failure : Failure]
          BY <1>0, <3>2 DEF Outcome
        <5>2. failure \in Failure
          BY <5>1
        <5> QED BY <5>2, StoreAssumption
      <4>2. /\ calc' = ApplyError(calc, failure.code).state
            /\ pending' = FALSE
            /\ errorRequestId' = IF failure.withId THEN call.ticket ELSE Null
            /\ canRetry' = (failure.code \in RETRYABLE_ERROR_CODES)
        BY <1>5, <3>2 DEF Settle, ShowError
      <4>3. Settled(calc')
        BY <4>1, <4>2, ApplyErrorSettled DEF Inv, CalcInv
      <4>4. errorRequestId' \in {ticket, Null}
        BY <1>5, <4>2
      <4>5. canRetry' \in BOOLEAN
        <5>1. (failure.code \in RETRYABLE_ERROR_CODES) \in BOOLEAN
          OBVIOUS
        <5> QED BY <4>2, <5>1
      <4> QED BY <4>2, <4>3, <4>4, <4>5
    <3> QED BY <3>1, <3>2
  <2>4. TypeOK'
    <3>1. calc' \in CalcState
      BY <2>3 DEF Settled, Waiting
    <3>2. pending' \in BOOLEAN
      BY <2>3
    <3>3. errorRequestId' \in (1..MaxTicket) \cup {Null}
      BY <1>0, <1>5, <2>3
    <3> QED BY <1>1, <1>3, <2>3, <3>1, <3>2, <3>3, Zenon DEF Inv, TypeOK
  <2>5. CalcInv'
    BY <2>3 DEF CalcInv, Settled
  <2>6. BusyIffCurrentCallOut'
    BY <2>1, <2>3 DEF BusyIffCurrentCallOut
  <2>7. ErrorIdIsCurrent'
    BY <1>1, <2>2, <2>3 DEF ErrorIdIsCurrent
  <2> QED BY <1>2, <2>4, <2>5, <2>6, <2>7 DEF Inv
<1> QED BY <1>4, <1>5

(* So does every step.                                                      *)
LEMMA NextInv == Inv /\ [Next]_vars => Inv'
<1> SUFFICES ASSUME Inv, [Next]_vars PROVE Inv'
  OBVIOUS
<1>0. ASSUME Key PROVE Inv'
  <2>0. CASE pending
    BY <1>0, <2>0 DEF Key, PressDigit, PressDecimal, PressSign, PressBackspace, PressClearEntry,
                      PressOperator, PressEquals, PressUnary, Input
  <2> SUFFICES ASSUME Settled(calc) PROVE Inv'
    BY <2>0 DEF Inv, CalcInv
  <2>1. CASE PressDigit
    BY <2>1, InputDigitSound, InputInv DEF PressDigit
  <2>2. CASE PressDecimal
    BY <2>2, InputDecimalSound, InputInv DEF PressDecimal
  <2>3. CASE PressSign
    BY <2>3, ToggleSignSound, InputInv DEF PressSign
  <2>4. CASE PressBackspace
    BY <2>4, BackspaceSound, InputInv DEF PressBackspace
  <2>5. CASE PressClearEntry
    BY <2>5, ClearEntrySound, InputInv DEF PressClearEntry
  <2>6. CASE PressOperator
    BY <2>6, SetOperatorSound, InputInv DEF PressOperator
  <2>7. CASE PressEquals
    BY <2>7, RequestEvaluateSound, InputInv DEF PressEquals
  <2>8. CASE PressUnary
    BY <2>8, ApplyUnarySound, InputInv DEF PressUnary
  <2> QED BY <1>0, <2>1, <2>2, <2>3, <2>4, <2>5, <2>6, <2>7, <2>8 DEF Key
<1>1. CASE \E next \in BOOLEAN : SetEvaluator(next)
  BY <1>1, SetEvaluatorInv
<1>2. CASE PressClearAll
  BY <1>2, ClearAllInv
<1>3. CASE Retry
  BY <1>3, RetryInv
<1>4. CASE \E value \in Response : Recall(value)
  BY <1>4, RecallInv
<1>5. CASE \E call \in calls : \E outcome \in Outcome : Answer(call, outcome)
  BY <1>5, AnswerInv
<1>6. CASE \E call \in calls : Settle(call)
  BY <1>6, SettleInv
<1>7. CASE UNCHANGED vars
  BY <1>7, Zenon DEF vars, storeState, Inv, TypeOK, CalcInv, RequestInv, TicketInv,
              BusyIffCurrentCallOut, ErrorIdIsCurrent
<1> QED BY <1>0, <1>1, <1>2, <1>3, <1>4, <1>5, <1>6, <1>7 DEF Next

(* The invariant holds in every reachable state.                            *)
THEOREM Invariance == Spec => []Inv
BY InitInv, NextInv, PTL DEF Spec

(* The store keeps the types it declares.                                   *)
THEOREM TypeCorrect == Spec => []TypeOK
<1>1. Inv => TypeOK
  BY DEF Inv
<1> QED BY <1>1, Invariance, PTL

(* The store is busy exactly while the call with the current ticket is out. *)
THEOREM BusyCorrect == Spec => []BusyIffCurrentCallOut
<1>1. Inv => BusyIffCurrentCallOut
  BY DEF Inv
<1> QED BY <1>1, Invariance, PTL

(* Whenever a key can build a request, its operands are there.              *)
THEOREM OperandsCorrect == Spec => []OperandsPresent
<1>1. Inv => OperandsPresent
  BY DEF Inv, CalcInv, Settled, Waiting, OperandsPresent
<1> QED BY <1>1, Invariance, PTL

(* The number displayed is the operand the next key uses.                   *)
THEOREM DisplayCorrect == Spec => []DisplayIsOperand
<1>1. Inv => DisplayIsOperand
  BY DEF Inv, CalcInv, Settled, DisplayIsOperand
<1> QED BY <1>1, Invariance, PTL

(* No negative zero is kept or sent.                                        *)
THEOREM NoNegativeZeroCorrect == Spec => []NoNegativeZero
<1>1. Inv => NoNegativeZero
  BY DEF Inv, CalcInv, RequestInv, Waiting, GoodRequest, NoNegativeZero
<1> QED BY <1>1, Invariance, PTL

(* Every request on the wire has the operands its operation takes.          *)
THEOREM ArityCorrect == Spec => []RequestArity
<1>1. Inv => RequestArity
  BY DEF Inv, RequestInv, GoodRequest, RequestArity
<1> QED BY <1>1, Invariance, PTL

(* An error sentence is there in the error phase only.                      *)
THEOREM ErrorPhaseCorrect == Spec => []ErrorOnlyInErrorPhase
<1>1. Inv => ErrorOnlyInErrorPhase
  BY DEF Inv, CalcInv, Waiting, ErrorOnlyInErrorPhase
<1> QED BY <1>1, Invariance, PTL

(* The request id shown is that of the request sent last.                   *)
THEOREM ErrorIdCorrect == Spec => []ErrorIdIsCurrent
<1>1. Inv => ErrorIdIsCurrent
  BY DEF Inv
<1> QED BY <1>1, Invariance, PTL

(* A key always finds the operands it needs, as displayed.                  *)
THEOREM ReadyCorrect == Spec => []OperandsAreReady
BY OperandsCorrect, DisplayCorrect, PTL DEF OperandsAreReady

(* What is shown of an error belongs to it.                                 *)
THEOREM ErrorCorrect == Spec => []ErrorIsCurrent
BY ErrorPhaseCorrect, ErrorIdCorrect, PTL DEF ErrorIsCurrent

-----------------------------------------------------------------------------
(* A transition puts its own request in lastRequest, or none, or leaves the *)
(* one that was there.                                                      *)
Remembers(s, t) == t.state.lastRequest \in {s.lastRequest, Null, t.effect}

(* Every key does.                                                          *)
LEMMA KeysRemember ==
  ASSUME NEW s, s \in CalcState
  PROVE  /\ \A d \in Digit : Remembers(s, InputDigit(s, d))
         /\ Remembers(s, InputDecimal(s)) /\ Remembers(s, ToggleSign(s))
         /\ Remembers(s, Backspace(s)) /\ Remembers(s, ClearEntry(s))
         /\ \A op \in Operator : Remembers(s, SetOperator(s, op))
         /\ Remembers(s, RequestEvaluate(s))
         /\ \A op \in UnaryKey : Remembers(s, ApplyUnary(s, op))
<1> USE DEF Remembers, Stay, Emit, initialState, CalcState, Phase, Entering
<1>1. \A d \in Digit : Remembers(s, InputDigit(s, d))
  BY DEF InputDigit
<1>2. Remembers(s, InputDecimal(s)) /\ Remembers(s, ToggleSign(s))
  BY DEF InputDecimal, ToggleSign
<1>3. Remembers(s, Backspace(s)) /\ Remembers(s, ClearEntry(s))
  BY DEF Backspace, ClearEntry
<1>4. \A op \in Operator : Remembers(s, SetOperator(s, op))
  BY DEF SetOperator
<1>5. Remembers(s, RequestEvaluate(s))
  BY DEF RequestEvaluate
<1>6. \A op \in UnaryKey : Remembers(s, ApplyUnary(s, op))
  BY DEF ApplyUnary
<1> QED
  BY <1>1, <1>2, <1>3, <1>4, <1>5, <1>6

(* Repeats: lastRequest changes to Null or to the request just sent.        *)
RepeatStep ==
  calc'.lastRequest # calc.lastRequest =>
    calc'.lastRequest = Null \/ (ticket' # ticket /\ calc'.lastRequest = lastSentRequest')

(* A key that remembers repeats what was sent.                              *)
LEMMA InputRepeats ==
  ASSUME Inv, NEW t, Remembers(calc, t), t.state \in CalcState, Input(t)
  PROVE  RepeatStep
<1>1. CASE t.effect = Null
  BY <1>1 DEF Input, Apply, Remembers, RepeatStep
<1>2. CASE t.effect # Null
  <2>1. ticket' = ticket + 1 /\ lastSentRequest' = t.effect
    BY <1>2 DEF Input, Apply, Send
  <2>3. ticket' # ticket
    BY <2>1, StoreAssumption DEF Inv, TypeOK
  <2>2. calc'.lastRequest = t.state.lastRequest
    BY <1>2 DEF Input, Apply, Send, ShowError, ApplyError, Stay, CalcState
  <2> QED
    BY <2>1, <2>2, <2>3 DEF Remembers, RepeatStep
<1> QED
  BY <1>1, <1>2

(* `=` on a result repeats an evaluation that was sent.                     *)
THEOREM RepeatsCorrect == Spec => RepeatsWhatWasSent
<1>1. Inv /\ [Next]_vars => [RepeatStep]_vars
  <2> SUFFICES ASSUME Inv, Next PROVE RepeatStep
    OBVIOUS
  <2>0. calc \in CalcState
    BY DEF Inv, TypeOK
  <2>1. CASE Key
    <3> SUFFICES ASSUME Settled(calc) PROVE RepeatStep
      BY <2>1 DEF Inv, CalcInv, Key, PressDigit, PressDecimal, PressSign, PressBackspace,
                  PressClearEntry, PressOperator, PressEquals, PressUnary, Input
    <3>0. \A t : Sound(t) => t.state \in CalcState
      BY DEF Sound, Settled, Waiting
    <3>1. CASE PressDigit
      BY <2>0, <3>0, <3>1, InputDigitSound, KeysRemember, InputRepeats DEF PressDigit
    <3>2. CASE PressDecimal
      BY <2>0, <3>0, <3>2, InputDecimalSound, KeysRemember, InputRepeats DEF PressDecimal
    <3>3. CASE PressSign
      BY <2>0, <3>0, <3>3, ToggleSignSound, KeysRemember, InputRepeats DEF PressSign
    <3>4. CASE PressBackspace
      BY <2>0, <3>0, <3>4, BackspaceSound, KeysRemember, InputRepeats DEF PressBackspace
    <3>5. CASE PressClearEntry
      BY <2>0, <3>0, <3>5, ClearEntrySound, KeysRemember, InputRepeats DEF PressClearEntry
    <3>6. CASE PressOperator
      BY <2>0, <3>0, <3>6, SetOperatorSound, KeysRemember, InputRepeats DEF PressOperator
    <3>7. CASE PressEquals
      BY <2>0, <3>0, <3>7, RequestEvaluateSound, KeysRemember, InputRepeats DEF PressEquals
    <3>8. CASE PressUnary
      BY <2>0, <3>0, <3>8, ApplyUnarySound, KeysRemember, InputRepeats DEF PressUnary
    <3> QED
      BY <2>1, <3>1, <3>2, <3>3, <3>4, <3>5, <3>6, <3>7, <3>8 DEF Key
  <2>2. CASE PressClearAll
    BY <2>2 DEF PressClearAll, ClearAll, Stay, initialState, RepeatStep
  <2>3. CASE Retry
    BY <2>0, <2>3 DEF Retry, Send, ShowError, ApplyError, Stay, CalcState, RepeatStep
  <2>4. ASSUME NEW value \in Response, Recall(value) PROVE RepeatStep
    BY <2>4 DEF Recall, initialState, RepeatStep
  <2>5. ASSUME NEW call \in calls, NEW outcome \in Outcome, Answer(call, outcome) PROVE RepeatStep
    BY <2>5 DEF Answer, storeState, RepeatStep
  <2>6. ASSUME NEW call \in calls, Settle(call) PROVE RepeatStep
    <3>1. CASE calc' = calc
      BY <3>1 DEF RepeatStep
    <3>2. ASSUME NEW value, calc' = ApplyResult(calc, value).state PROVE RepeatStep
      BY <2>0, <3>2 DEF ApplyResult, Stay, initialState, CalcState, Phase, Entering, RepeatStep
    <3>3. ASSUME NEW message, calc' = ApplyError(calc, message).state PROVE RepeatStep
      BY <2>0, <3>3 DEF ApplyError, Stay, CalcState, RepeatStep
    <3> QED
      BY <2>6, <3>1, <3>2, <3>3 DEF Settle, storeState, ShowResult, ShowError
  <2>7. CASE \E next \in BOOLEAN : SetEvaluator(next)
    BY <2>7 DEF SetEvaluator, storeState, RepeatStep
  <2> QED
    BY <2>1, <2>2, <2>3, <2>4, <2>5, <2>6, <2>7 DEF Next
<1> QED
  BY <1>1, Invariance, PTL DEF Spec, RepeatsWhatWasSent, RepeatStep

-----------------------------------------------------------------------------
(* What `=` remembers is a calculation with an operator key.                *)
Binary(r) == r # Null => r.operation \in BinaryOperation

(* A key keeps that; a key that shows a result phase and sends such a       *)
(* calculation remembers it, or nothing; and leaving an error without a     *)
(* request forgets.                                                         *)
KeepsLine(s, t) ==
  /\ Binary(t.state.lastRequest)
  /\ t.effect # Null /\ t.state.phase = "result" /\ Binary(t.effect) =>
       t.state.lastRequest \in {Null, t.effect}
  /\ t.effect = Null /\ (s.phase = "error" \/ s.lastRequest = Null) =>
       t.state.lastRequest = Null

(* Every key does.                                                          *)
LEMMA KeysKeepLine ==
  ASSUME NEW s, Settled(s), Binary(s.lastRequest)
  PROVE  /\ \A d \in Digit : KeepsLine(s, InputDigit(s, d))
         /\ KeepsLine(s, InputDecimal(s)) /\ KeepsLine(s, ToggleSign(s))
         /\ KeepsLine(s, Backspace(s)) /\ KeepsLine(s, ClearEntry(s))
         /\ \A op \in Operator : KeepsLine(s, SetOperator(s, op))
         /\ KeepsLine(s, RequestEvaluate(s))
         /\ \A op \in UnaryKey : KeepsLine(s, ApplyUnary(s, op))
<1>0. s \in CalcState
  BY DEF Settled, Waiting
<1> USE <1>0 DEF KeepsLine, Binary, Stay, Emit, initialState, CalcState, Phase, Entering
<1>1. \A d \in Digit : KeepsLine(s, InputDigit(s, d))
  BY DEF InputDigit
<1>2. KeepsLine(s, InputDecimal(s)) /\ KeepsLine(s, ToggleSign(s))
  BY DEF InputDecimal, ToggleSign
<1>3. KeepsLine(s, Backspace(s)) /\ KeepsLine(s, ClearEntry(s))
  BY DEF Backspace, ClearEntry
<1>4. \A op \in Operator : KeepsLine(s, SetOperator(s, op))
  BY DEF SetOperator
<1>5. KeepsLine(s, RequestEvaluate(s))
  BY DEF RequestEvaluate, BinaryRequest, BinaryOperation, CalculateRequest, Settled, Waiting
<1>6. \A op \in UnaryKey : KeepsLine(s, ApplyUnary(s, op))
  BY DEF ApplyUnary, UnaryRequest, SqrtRequest, PercentRequest, UnaryKey, BinaryOperation
<1> QED
  BY <1>1, <1>2, <1>3, <1>4, <1>5, <1>6

(* The line is inductive together with this: what was remembered while an   *)
(* answer to a calculation is awaited is the request sent, if anything, and *)
(* a Retry that is offered outside the error phase finds nothing remembered. *)
LineInv ==
  /\ Binary(calc.lastRequest)
  /\ pending /\ calc.phase = "result" /\ Binary(lastSentRequest) =>
       calc.lastRequest \in {Null, lastSentRequest}
  /\ canRetry => calc.phase = "error" \/ calc.lastRequest = Null

(* A key that keeps the line.                                               *)
LEMMA InputLine ==
  ASSUME Inv, LineInv, NEW t, Sound(t), KeepsLine(calc, t), Input(t)
  PROVE  LineInv'
<1>1. CASE t.effect = Null
  BY <1>1 DEF Input, Apply, KeepsLine, LineInv
<1>2. CASE t.effect # Null
  <2>1. CASE wired
    BY <1>2, <2>1 DEF Input, Apply, Send, KeepsLine, LineInv
  <2>2. CASE ~wired
    BY <1>2, <2>2 DEF Input, Apply, Send, ShowError, ApplyError, Stay, KeepsLine, LineInv,
                      Sound, Waiting, CalcState
  <2> QED
    BY <2>1, <2>2
<1> QED
  BY <1>1, <1>2

(* Every step keeps it.                                                     *)
LEMMA LineStep == Inv /\ LineInv /\ [Next]_vars => LineInv'
<1> SUFFICES ASSUME Inv, LineInv, [Next]_vars PROVE LineInv'
  OBVIOUS
<1>0. calc \in CalcState
  BY DEF Inv, TypeOK
<1>1. CASE Key
  <2>1. Settled(calc) /\ Binary(calc.lastRequest)
    BY <1>1 DEF Inv, CalcInv, LineInv, Key, PressDigit, PressDecimal, PressSign, PressBackspace,
                PressClearEntry, PressOperator, PressEquals, PressUnary, Input
  <2>2. CASE PressDigit
    BY <2>1, <2>2, InputDigitSound, KeysKeepLine, InputLine DEF PressDigit
  <2>3. CASE PressDecimal
    BY <2>1, <2>3, InputDecimalSound, KeysKeepLine, InputLine DEF PressDecimal
  <2>4. CASE PressSign
    BY <2>1, <2>4, ToggleSignSound, KeysKeepLine, InputLine DEF PressSign
  <2>5. CASE PressBackspace
    BY <2>1, <2>5, BackspaceSound, KeysKeepLine, InputLine DEF PressBackspace
  <2>6. CASE PressClearEntry
    BY <2>1, <2>6, ClearEntrySound, KeysKeepLine, InputLine DEF PressClearEntry
  <2>7. CASE PressOperator
    BY <2>1, <2>7, SetOperatorSound, KeysKeepLine, InputLine DEF PressOperator
  <2>8. CASE PressEquals
    BY <2>1, <2>8, RequestEvaluateSound, KeysKeepLine, InputLine DEF PressEquals
  <2>9. CASE PressUnary
    BY <2>1, <2>9, ApplyUnarySound, KeysKeepLine, InputLine DEF PressUnary
  <2> QED
    BY <1>1, <2>2, <2>3, <2>4, <2>5, <2>6, <2>7, <2>8, <2>9 DEF Key
<1>2. CASE PressClearAll
  BY <1>2 DEF PressClearAll, ClearAll, Stay, initialState, LineInv, Binary
<1>3. CASE Retry
  <2>1. CASE wired
    BY <1>3, <2>1 DEF Retry, Send, LineInv
  <2>2. CASE ~wired
    BY <1>0, <1>3, <2>2 DEF Retry, Send, ShowError, ApplyError, Stay, CalcState, LineInv
  <2> QED
    BY <2>1, <2>2
<1>4. ASSUME NEW value \in Response, Recall(value) PROVE LineInv'
  BY <1>4 DEF Recall, initialState, LineInv, Binary
<1>5. ASSUME NEW call \in calls, NEW outcome \in Outcome, Answer(call, outcome) PROVE LineInv'
  BY <1>5 DEF Answer, storeState, LineInv
<1>6. ASSUME NEW call \in calls, Settle(call) PROVE LineInv'
  <2>1. CASE UNCHANGED storeState
    BY <1>6, <2>1 DEF Settle, storeState, LineInv
  <2>2. ASSUME NEW value, ShowResult(calc, value) PROVE LineInv'
    BY <1>0, <2>2 DEF ShowResult, ApplyResult, Stay, initialState, CalcState, Phase, Entering,
                      LineInv, Binary
  <2>3. ASSUME NEW message, NEW id, NEW retryable, ShowError(calc, message, id, retryable)
        PROVE  LineInv'
    BY <1>0, <2>3 DEF ShowError, ApplyError, Stay, CalcState, LineInv
  <2> QED
    BY <1>6, <2>1, <2>2, <2>3 DEF Settle
<1>7. CASE \E next \in BOOLEAN : SetEvaluator(next)
  BY <1>7 DEF SetEvaluator, storeState, LineInv
<1>8. CASE UNCHANGED vars
  BY <1>8 DEF vars, storeState, LineInv
<1> QED
  BY <1>1, <1>2, <1>3, <1>4, <1>5, <1>6, <1>7, <1>8 DEF Next

(* While no answer is awaited, the line names what `=` would send now.      *)
LEMMA LineOfSettled ==
  ASSUME Settled(calc), Binary(calc.lastRequest), ~pending,
         calc.phase \in {"operatorSelected", "enteringB", "result"}
  PROVE  LineTellsEquals
<1> DEFINE next == RequestEvaluate(calc).effect
<1> USE DEF Settled, Waiting, expressionOf, RequestEvaluate, Emit, Stay, BinaryRequest, OrZero
<1>1. CASE calc.phase \in {"operatorSelected", "enteringB"}
  <2>1. calc.a # Null /\ calc.operator # Null
    BY <1>1
  <2>2. next.a = calc.a /\ next.operation = calc.operator
    BY <1>1, <2>1
  <2>3. expressionOf(calc) = <<StringOf(calc.a), calc.operator>>
    BY <1>1, <2>1
  <2> QED
    BY <1>1, <2>2, <2>3 DEF LineTellsEquals
<1>2. CASE calc.phase = "result"
  <2>1. CASE calc.lastRequest = Null
    BY <1>2, <2>1 DEF LineTellsEquals
  <2>2. CASE calc.lastRequest # Null
    <3> DEFINE last == calc.lastRequest
    <3>1. last \in CalculateRequest /\ last.b # Null
      BY <2>2 DEF GoodRequest, Binary, BinaryOperation
    <3>2. next = [last EXCEPT !.a = calc.a] /\ next # Null
      BY <1>2, <2>2, <3>1, NullAssumption DEF CalculateRequest, CalcState
    <3>3. next.operation = last.operation /\ next.b = last.b
      BY <3>1, <3>2 DEF CalculateRequest
    <3>4. expressionOf(calc) = <<StringOf(last.a), last.operation, StringOf(last.b), "=">>
      BY <1>2, <2>2, <3>1
    <3> QED
      BY <1>2, <3>2, <3>3, <3>4 DEF LineTellsEquals
  <2> QED
    BY <2>1, <2>2
<1> QED
  BY <1>1, <1>2

(* While the answer to a calculation is awaited, it names the request sent. *)
LEMMA LineOfWaiting ==
  ASSUME Inv, LineInv, pending, calc.phase = "result",
         lastSentRequest.operation \in BinaryOperation
  PROVE  LineTellsEquals
<1>1. CASE calc.lastRequest = Null
  BY <1>1 DEF LineTellsEquals, expressionOf
<1>2. CASE calc.lastRequest # Null
  <2>1. calc.lastRequest = lastSentRequest
    BY <1>2 DEF LineInv, Binary
  <2>2. lastSentRequest.b # Null
    BY <1>2, <2>1 DEF Inv, RequestInv, GoodRequest, BinaryOperation
  <2>3. expressionOf(calc) = <<StringOf(lastSentRequest.a), lastSentRequest.operation,
                              StringOf(lastSentRequest.b), "=">>
    BY <1>2, <2>1, <2>2 DEF expressionOf
  <2> QED
    BY <2>3 DEF LineTellsEquals
<1> QED
  BY <1>1, <1>2

(* The line above the number tells the truth about `=`.                     *)
THEOREM LineCorrect == Spec => []LineTellsEquals
<1>1. Init => LineInv
  BY DEF Init, initialState, LineInv, Binary
<1>2. Inv /\ LineInv => LineTellsEquals
  <2> SUFFICES ASSUME Inv, LineInv PROVE LineTellsEquals
    OBVIOUS
  <2>1. CASE ~pending /\ calc.phase \in {"operatorSelected", "enteringB", "result"}
    BY <2>1, LineOfSettled DEF Inv, CalcInv, LineInv
  <2>2. CASE pending /\ calc.phase = "result" /\ lastSentRequest.operation \in BinaryOperation
    BY <2>2, LineOfWaiting
  <2> QED
    BY <2>1, <2>2 DEF LineTellsEquals
<1> QED
  BY <1>1, <1>2, LineStep, Invariance, PTL DEF Spec

-----------------------------------------------------------------------------
(* What CancellableCall sees of a promise.                                  *)
View(call) == [request |-> call.request, outcome |-> call.outcome]

(* CHOOSE picks the one element there is.                                   *)
LEMMA ChosenCall ==
  ASSUME NEW S, NEW t, NEW c \in S, c.ticket = t,
         \A x, y \in S : x.ticket = y.ticket => x = y
  PROVE  (CHOOSE call \in S : call.ticket = t) = c
OBVIOUS

(* The call CancellableCall sees is the promise with the current ticket.    *)
LEMMA CurrentCallView ==
  ASSUME Inv, NEW c \in calls, c.ticket = ticket
  PROVE  CurrentCall = View(c) /\ CurrentCall # Null
<1>1. pending
  BY DEF Inv, BusyIffCurrentCallOut
<1>2. (CHOOSE call \in calls : call.ticket = ticket) = c
  BY ChosenCall DEF Inv, TicketInv
<1>3. CurrentCall = View(c)
  BY <1>1, <1>2 DEF CurrentCall, View
<1>4. View(c) \in [request : CalculateRequest, outcome : Outcome \cup {Null}]
  BY DEF Inv, TypeOK, Call, View
<1> QED BY <1>3, <1>4, NullAssumption

(* The same after a step.                                                   *)
LEMMA CurrentCallViewNext ==
  ASSUME Inv', NEW c \in calls', c.ticket = ticket'
  PROVE  CurrentCall' = View(c)
<1>1. pending'
  BY DEF Inv, BusyIffCurrentCallOut
<1>2. (CHOOSE call \in calls' : call.ticket = ticket') = c
  BY ChosenCall DEF Inv, TicketInv
<1> QED BY <1>1, <1>2 DEF CurrentCall, View

(* A step that neither starts nor ends a call is a key press.               *)
LEMMA PressStep ==
  ASSUME Inv', ~pending, ~pending'
  PROVE  Cancellable!Press
BY DEF Cancellable!Press, CurrentCall, Inv, TypeOK

(* send() asks, or fails on the spot, which is a key press too.             *)
LEMMA SendStep ==
  ASSUME Inv', ~pending, NEW s, NEW request, GoodRequest(request), Send(s, request)
  PROVE  Cancellable!Next
<1>1. CASE wired
  <2> DEFINE new == [ticket |-> ticket + 1, request |-> request, outcome |-> Null]
  <2>1. new \in calls' /\ new.ticket = ticket'
    BY <1>1 DEF Send
  <2>2. CurrentCall' = View(new)
    BY <2>1, CurrentCallViewNext
  <2>3. View(new) \in [request : CalculateRequest, outcome : {Null}]
    BY DEF View, GoodRequest
  <2>4. calc' \in CalcState
    BY DEF Inv, TypeOK
  <2>5. CurrentCall = Null
    BY DEF CurrentCall
  <2> QED BY <2>2, <2>3, <2>4, <2>5 DEF Cancellable!Next, Cancellable!Ask
<1>2. CASE ~wired
  <2>1. ~pending'
    BY <1>2 DEF Send, ShowError
  <2> QED BY <2>1, PressStep DEF Cancellable!Next
<1> QED BY <1>1, <1>2

(* A key presses or asks.                                                   *)
LEMMA InputStep ==
  ASSUME Inv', NEW t, Sound(t), Input(t)
  PROVE  Cancellable!Next
<1>1. CASE t.effect = Null
  <2>1. ~pending /\ ~pending'
    BY <1>1 DEF Input, Apply
  <2> QED BY <2>1, PressStep DEF Cancellable!Next
<1>2. CASE t.effect # Null
  BY <1>2, SendStep DEF Input, Apply, Sound
<1> QED BY <1>1, <1>2

(* An answer to the current call is its answer; to any other, a stutter.    *)
LEMMA AnswerStep ==
  ASSUME Inv, Inv', NEW call \in calls, NEW outcome \in Outcome, Answer(call, outcome)
  PROVE  Cancellable!Next \/ UNCHANGED Cancellable!absVars
<1> DEFINE new == [call EXCEPT !.outcome = outcome]
<1>1. call \in Call /\ new \in calls' /\ new.ticket = call.ticket
      /\ new.request = call.request /\ new.outcome = outcome
  BY DEF Inv, TypeOK, Call, Answer
<1>2. UNCHANGED <<calc, pending, ticket>>
  BY DEF Answer, storeState
<1>3. CASE call.ticket = ticket
  <2>1. CurrentCall = View(call) /\ CurrentCall # Null
    BY <1>3, CurrentCallView
  <2>2. CurrentCall' = View(new)
    BY <1>1, <1>2, <1>3, CurrentCallViewNext
  <2>3. View(new) \in [request : {View(call).request}, outcome : Outcome]
    BY <1>1 DEF View
  <2>4. View(call).outcome = Null
    BY DEF View, Answer
  <2> QED BY <1>2, <2>1, <2>2, <2>3, <2>4 DEF Cancellable!Next, Cancellable!Answer
<1>4. CASE call.ticket # ticket
  <2>1. CurrentCall' = CurrentCall
    <3>1. CASE pending
      <4>1. PICK c \in calls : c.ticket = ticket
        BY <3>1 DEF Inv, BusyIffCurrentCallOut
      <4>2. c \in calls'
        BY <1>4, <4>1 DEF Answer
      <4> QED BY <1>2, <4>1, <4>2, CurrentCallView, CurrentCallViewNext
    <3>2. CASE ~pending
      BY <1>2, <3>2 DEF CurrentCall
    <3> QED BY <3>1, <3>2
  <2> QED BY <1>2, <2>1 DEF Cancellable!absVars
<1> QED BY <1>3, <1>4

(* A promise that settles returns the current call, or is a stutter.        *)
LEMMA SettleStep ==
  ASSUME Inv, Inv', NEW call \in calls, Settle(call)
  PROVE  Cancellable!Next \/ UNCHANGED Cancellable!absVars
<1>1. UNCHANGED ticket
  BY DEF Settle
<1>2. CASE call.ticket = ticket
  <2>1. CurrentCall = View(call) /\ CurrentCall # Null
    BY <1>2, CurrentCallView
  <2>2. View(call).outcome = call.outcome /\ call.outcome # Null
    BY DEF View, Settle
  <2>3. ~pending'
    BY <1>2 DEF Settle, ShowResult, ShowError
  <2>4. CurrentCall' = Null
    BY <2>3 DEF CurrentCall
  <2>5. calc' = Showing(calc, call.outcome)
    BY <1>2 DEF Settle, ShowResult, ShowError, Showing
  <2> QED BY <2>1, <2>2, <2>4, <2>5 DEF Cancellable!Next, Cancellable!Return
<1>3. CASE call.ticket # ticket
  <2>1. UNCHANGED <<calc, pending>>
    BY <1>3 DEF Settle, storeState
  <2>2. CurrentCall' = CurrentCall
    <3>1. CASE pending
      <4>1. PICK c \in calls : c.ticket = ticket
        BY <3>1 DEF Inv, BusyIffCurrentCallOut
      <4>2. c \in calls'
        BY <1>3, <4>1 DEF Settle
      <4> QED BY <1>1, <4>1, <4>2, CurrentCallView, CurrentCallViewNext
    <3>2. CASE ~pending
      BY <2>1, <3>2 DEF CurrentCall
    <3> QED BY <3>1, <3>2
  <2> QED BY <2>1, <2>2 DEF Cancellable!absVars
<1> QED BY <1>2, <1>3

(* The store implements CancellableCall: with tickets and late answers in   *)
(* any order, the user sees one call at a time, and none that was           *)
(* cancelled.                                                               *)
THEOREM Refinement == Spec => ImplementsCancellableCall
<1>1. Init => Cancellable!Init
  BY DEF Init, Cancellable!Init, CurrentCall
<1>2. Inv /\ Inv' /\ [Next]_vars => [Cancellable!Next]_Cancellable!absVars
  <2> SUFFICES ASSUME Inv, Inv', [Next]_vars
               PROVE  Cancellable!Next \/ UNCHANGED Cancellable!absVars
    BY Zenon
  <2>0. ASSUME Key PROVE Cancellable!Next
    <3>0. ~pending
      BY <2>0 DEF Key, PressDigit, PressDecimal, PressSign, PressBackspace, PressClearEntry,
                  PressOperator, PressEquals, PressUnary, Input
    <3> SUFFICES ASSUME Settled(calc) PROVE Cancellable!Next
      BY <3>0 DEF Inv, CalcInv
    <3>1. CASE PressDigit
      BY <3>1, InputDigitSound, InputStep DEF PressDigit
    <3>2. CASE PressDecimal
      BY <3>2, InputDecimalSound, InputStep DEF PressDecimal
    <3>3. CASE PressSign
      BY <3>3, ToggleSignSound, InputStep DEF PressSign
    <3>4. CASE PressBackspace
      BY <3>4, BackspaceSound, InputStep DEF PressBackspace
    <3>5. CASE PressClearEntry
      BY <3>5, ClearEntrySound, InputStep DEF PressClearEntry
    <3>6. CASE PressOperator
      BY <3>6, SetOperatorSound, InputStep DEF PressOperator
    <3>7. CASE PressEquals
      BY <3>7, RequestEvaluateSound, InputStep DEF PressEquals
    <3>8. CASE PressUnary
      BY <3>8, ApplyUnarySound, InputStep DEF PressUnary
    <3> QED BY <2>0, <3>1, <3>2, <3>3, <3>4, <3>5, <3>6, <3>7, <3>8 DEF Key
  <2>1. CASE \E next \in BOOLEAN : SetEvaluator(next)
    BY <2>1 DEF SetEvaluator, storeState, Cancellable!absVars, CurrentCall
  <2>2. CASE PressClearAll
    BY <2>2 DEF PressClearAll, ClearAll, Stay, CurrentCall, Cancellable!Next, Cancellable!Cancel
  <2>3. CASE Retry
    BY <2>3, SendStep DEF Retry, Inv, RequestInv
  <2>4. CASE \E value \in Response : Recall(value)
    BY <2>4, PressStep DEF Recall, Cancellable!Next
  <2>5. CASE \E call \in calls : \E outcome \in Outcome : Answer(call, outcome)
    BY <2>5, AnswerStep
  <2>6. CASE \E call \in calls : Settle(call)
    BY <2>6, SettleStep
  <2>7. CASE UNCHANGED vars
    BY <2>7 DEF vars, storeState, Cancellable!absVars, CurrentCall
  <2> QED BY <2>0, <2>1, <2>2, <2>3, <2>4, <2>5, <2>6, <2>7 DEF Next
<1> QED BY <1>1, <1>2, Invariance, PTL DEF Spec, ImplementsCancellableCall, Cancellable!Spec
=============================================================================
