------------------------------- MODULE PageProofs ------------------------------
(****************************************************************************)
(* The page drives the store through the store's own operations only, at    *)
(* whatever age of the `busy` it goes by: what CalculatorStoreProofs shows  *)
(* of the store holds of the page.  The entry stays the text of one number, *)
(* and the display shakes exactly when the press is refused.                *)
(****************************************************************************)
EXTENDS Page, CalculatorStoreProofs

(* A press is a step of the store, or ignored.                              *)
LEMMA PressIsStoreStep ==
  ASSUME NEW button, Press(button)
  PROVE  [Next]_vars
<1> USE DEF OrIgnored, Next, Key
<1>1. CASE button \in Digit /\ guardedInputDigit(button)
  BY <1>1 DEF guardedInputDigit, PressDigit
<1>2. CASE guardedInputDecimal
  BY <1>2 DEF guardedInputDecimal, PressDecimal
<1>3. CASE OrIgnored(Input(ToggleSign(calc)))
  BY <1>3 DEF PressSign
<1>4. CASE OrIgnored(Input(Backspace(calc)))
  BY <1>4 DEF PressBackspace
<1>5. CASE OrIgnored(Input(ClearEntry(calc)))
  BY <1>5 DEF PressClearEntry
<1>6. CASE OrIgnored(Input(RequestEvaluate(calc)))
  BY <1>6 DEF PressEquals
<1>7. CASE button \in Operator /\ OrIgnored(Input(SetOperator(calc, button)))
  BY <1>7 DEF PressOperator
<1>8. CASE button \in UnaryKey /\ OrIgnored(Input(ApplyUnary(calc, button)))
  BY <1>8 DEF PressUnary
<1>9. CASE PressClearAll
  BY <1>9
<1> QED
  BY <1>1, <1>2, <1>3, <1>4, <1>5, <1>6, <1>7, <1>8, <1>9 DEF Press

(* So is every step of the page.                                            *)
LEMMA PageStepIsStoreStep == [PageNext]_pageVars => [Next]_vars
<1> SUFFICES ASSUME [PageNext]_pageVars PROVE [Next]_vars
  OBVIOUS
<1>1. ASSUME NEW button \in Button, Click(button) PROVE [Next]_vars
  BY <1>1, PressIsStoreStep DEF Click
<1>2. ASSUME NEW shortcut \in KEY_MAP, KeyDown(shortcut) PROVE [Next]_vars
  BY <1>2, PressIsStoreStep DEF KeyDown
<1>3. CASE ClickRetry
  BY <1>3 DEF ClickRetry, Next
<1>4. ASSUME NEW value \in Response, ClickEntry(value) PROVE [Next]_vars
  BY <1>4 DEF ClickEntry, OrIgnored, Next
<1>5. CASE Mount
  BY <1>5 DEF Mount, Next
<1>6. CASE Render \/ ShakeEnds \/ UNCHANGED pageVars
  BY <1>6 DEF Render, ShakeEnds, pageVars
<1>7. ASSUME NEW call \in calls, (\E outcome \in Outcome : Answer(call, outcome)) \/ Settle(call)
      PROVE  [Next]_vars
  BY <1>7 DEF Next
<1> QED
  BY <1>1, <1>2, <1>3, <1>4, <1>5, <1>6, <1>7 DEF PageNext

(* The page implements the store.                                           *)
THEOREM PageImplementsStore == PageSpec => Spec
BY PageStepIsStoreStep, PTL DEF PageSpec, PageInit, Spec

(* What a step of the store may not touch while it waits and goes on        *)
(* waiting.                                                                 *)
Standing == <<storeState, ticket, lastSentRequest>>

(* No step of the store does, whichever key or late answer it is.           *)
LEMMA WaitingStoreStands ==
  ASSUME Next, pending, pending'
  PROVE  UNCHANGED Standing
<1>1. CASE Key
  BY <1>1 DEF Key, PressDigit, PressDecimal, PressSign, PressBackspace, PressClearEntry,
              PressOperator, PressEquals, PressUnary, Input
<1>2. CASE PressClearAll
  BY <1>2 DEF PressClearAll
<1>3. CASE Retry \/ \E value \in Response : Recall(value)
  BY <1>3 DEF Retry, Recall
<1>4. CASE \E next \in BOOLEAN : SetEvaluator(next)
  BY <1>4 DEF SetEvaluator, Standing
<1>5. ASSUME NEW call \in calls, NEW outcome \in Outcome, Answer(call, outcome)
      PROVE  UNCHANGED Standing
  BY <1>5 DEF Answer, Standing
<1>6. ASSUME NEW call \in calls, Settle(call) PROVE UNCHANGED Standing
  BY <1>6 DEF Settle, ShowResult, ShowError, Standing
<1> QED
  BY <1>1, <1>2, <1>3, <1>4, <1>5, <1>6 DEF Next

(* Keys pressed on an out-of-date page touch neither a screen that waits    *)
(* nor the call it waits for, nor do they send another.                     *)
THEOREM StaleKeysCorrect == PageSpec => StaleKeysAreHarmless
<1>1. [PageNext]_pageVars =>
        [pending /\ pending' => UNCHANGED <<storeState, ticket, lastSentRequest>>]_pageVars
  <2> SUFFICES ASSUME PageNext, pending, pending' PROVE UNCHANGED Standing
    BY DEF Standing
  <2>1. Next \/ UNCHANGED vars
    BY PageStepIsStoreStep
  <2> QED
    BY <2>1, WaitingStoreStands DEF vars, Standing
<1> QED
  BY <1>1, PTL DEF PageSpec, StaleKeysAreHarmless

-----------------------------------------------------------------------------
(* The entry text: where its number begins, and what the edits keep.        *)
First(t) == IF t # <<>> /\ t[1] = "-" THEN 2 ELSE 1

LEMMA NormalFacts ==
  ASSUME NEW t
  PROVE  NormalEntry(t) <=>
           /\ t \in Seq(EntryChar)
           /\ Len(t) >= First(t) /\ t[First(t)] \in DigitChar
           /\ Len(t) > First(t) /\ t[First(t)] = "0" => t[First(t) + 1] = "."
           /\ \A i, j \in DOMAIN t : t[i] = "." /\ t[j] = "." => i = j
           /\ t # <<"-", "0">>
BY DEF NormalEntry, First, EntryChar

LEMMA FirstFacts ==
  ASSUME NEW t \in Seq(EntryChar)
  PROVE  /\ First(t) \in {1, 2} /\ Len(t) \in Nat /\ DOMAIN t = 1..Len(t)
         /\ t # <<>> <=> Len(t) > 0
BY DEF First

(* A text stays normal when a digit or a first point is put behind it, but  *)
(* for a digit behind a lone zero.                                          *)
LEMMA AppendNormal ==
  ASSUME NEW t, NormalEntry(t), NEW c \in DigitChar \cup {"."},
         c = "." => ~HasChar(t, "."),
         c # "." => t # <<"0">>
  PROVE  NormalEntry(Append(t, c))
<1> DEFINE u == Append(t, c)
           n == Len(t)
<1>1. t \in Seq(EntryChar) /\ n \in Nat /\ DOMAIN t = 1..n /\ n >= First(t) /\ First(t) \in {1, 2}
  BY NormalFacts, FirstFacts
<1>2. /\ u \in Seq(EntryChar) /\ Len(u) = n + 1 /\ DOMAIN u = 1..(n + 1) /\ u[n + 1] = c
      /\ \A i \in 1..n : u[i] = t[i]
  BY <1>1 DEF EntryChar
<1> HIDE DEF u
<1>3. First(u) = First(t)
  <2>1. t # <<>> /\ u # <<>> /\ u[1] = t[1]
    BY <1>1, <1>2
  <2> QED
    BY <2>1 DEF First
<1>4. Len(u) >= First(u) /\ u[First(u)] \in DigitChar
  BY <1>1, <1>2, <1>3, NormalFacts
<1>5. ASSUME u[First(u)] = "0" PROVE u[First(u) + 1] = "."
  <2>1. t[First(t)] = "0"
    BY <1>1, <1>2, <1>3, <1>5
  <2>2. CASE n > First(t)
    BY <1>1, <1>2, <1>3, <2>1, <2>2, NormalFacts
  <2>3. CASE n = First(t)
    <3>1. First(t) = 1 => t = <<"0">>
      BY <1>1, <2>1, <2>3
    <3>2. First(t) = 2 => t = <<"-", "0">>
      BY <1>1, <2>1, <2>3 DEF First
    <3>3. c = "."
      BY <1>1, <3>1, <3>2, NormalFacts
    <3> QED
      BY <1>2, <1>3, <2>3, <3>3
  <2> QED
    BY <1>1, <2>2, <2>3
<1>6. \A i, j \in DOMAIN u : u[i] = "." /\ u[j] = "." => i = j
  <2> SUFFICES ASSUME NEW i \in 1..(n + 1), NEW j \in 1..(n + 1), u[i] = ".", u[j] = "." PROVE i = j
    BY <1>2
  <2>1. CASE c = "."
    <3>1. \A k \in 1..n : u[k] # "."
      BY <1>1, <1>2, <2>1 DEF HasChar
    <3> QED
      BY <1>1, <3>1
  <2>2. CASE c # "."
    <3>1. i \in 1..n /\ j \in 1..n
      BY <1>1, <1>2, <2>2
    <3> QED
      BY <1>1, <1>2, <3>1, NormalFacts
  <2> QED
    BY <2>1, <2>2
<1>7. u # <<"-", "0">>
  <2> SUFFICES ASSUME u = <<"-", "0">> PROVE FALSE
    OBVIOUS
  <2>1. n = 1 /\ t[1] = "-"
    BY <1>1, <1>2
  <2> QED
    BY <1>1, <2>1 DEF First
<1> QED
  BY <1>2, <1>4, <1>5, <1>6, <1>7, NormalFacts DEF u

(* The edits keep a text normal.                                            *)
LEMMA AppendDigitNormal ==
  ASSUME NEW t, NormalEntry(t), NEW d \in DigitChar
  PROVE  NormalEntry(AppendDigit(t, d))
<1>1. CASE CountDigits(t) >= MAX_ENTRY_DIGITS
  BY <1>1 DEF AppendDigit
<1>2. CASE ~(CountDigits(t) >= MAX_ENTRY_DIGITS) /\ t = <<"0">>
  <2>1. AppendDigit(t, d) = <<d>>
    BY <1>2 DEF AppendDigit
  <2>2. <<d>> \in Seq(EntryChar) /\ Len(<<d>>) = 1 /\ <<d>>[1] = d /\ <<d>> # <<>> /\ d # "-" /\ <<d>> # <<"-", "0">>
    BY DEF DigitChar, EntryChar
  <2> QED
    BY <2>1, <2>2 DEF NormalEntry, EntryChar
<1>3. CASE ~(CountDigits(t) >= MAX_ENTRY_DIGITS) /\ t # <<"0">>
  <2>1. AppendDigit(t, d) = Append(t, d) /\ d # "."
    BY <1>3 DEF AppendDigit, DigitChar
  <2> QED
    BY <1>3, <2>1, AppendNormal
<1> QED
  BY <1>1, <1>2, <1>3

LEMMA AppendDecimalNormal ==
  ASSUME NEW t, NormalEntry(t)
  PROVE  NormalEntry(AppendDecimal(t))
BY AppendNormal DEF AppendDecimal

LEMMA ZeroNormal == NormalEntry(<<"0">>) /\ NormalEntry(<<"0", ".">>)
<1>1. ASSUME NEW t, t = <<"0">> PROVE NormalEntry(t)
  <2>1. /\ t \in Seq(EntryChar) /\ Len(t) = 1 /\ t[1] = "0" /\ t # <<>> /\ DOMAIN t = 1..1
        /\ t # <<"-", "0">>
    BY <1>1 DEF EntryChar, DigitChar
  <2>2. First(t) = 1
    BY <2>1 DEF First
  <2> QED
    BY <2>1, <2>2, NormalFacts DEF DigitChar
<1>2. ASSUME NEW t, t = <<"0", ".">> PROVE NormalEntry(t)
  <2>1. /\ t \in Seq(EntryChar) /\ Len(t) = 2 /\ t[1] = "0" /\ t[2] = "." /\ t # <<>>
        /\ DOMAIN t = 1..2 /\ t # <<"-", "0">>
    BY <1>2 DEF EntryChar, DigitChar
  <2>2. First(t) = 1
    BY <2>1 DEF First
  <2>3. \A k, l \in DOMAIN t : t[k] = "." /\ t[l] = "." => k = l
    BY <2>1
  <2> QED
    BY <2>1, <2>2, <2>3, NormalFacts DEF DigitChar
<1> QED
  BY <1>1, <1>2

LEMMA DropLastCharNormal ==
  ASSUME NEW t, NormalEntry(t)
  PROVE  NormalEntry(DropLastChar(t))
<1> DEFINE n == Len(t)
           u == SubSeq(t, 1, n - 1)
<1>1. t \in Seq(EntryChar) /\ n \in Nat /\ DOMAIN t = 1..n /\ n >= First(t) /\ First(t) \in {1, 2}
  BY NormalFacts, FirstFacts
<1>2. /\ u \in Seq(EntryChar) /\ Len(u) = n - 1 /\ DOMAIN u = 1..(n - 1)
      /\ \A i \in 1..(n - 1) : u[i] = t[i]
  BY <1>1
<1> HIDE DEF u
<1>3. CASE u \in {<<>>, <<"-">>, <<"-", "0">>}
  BY <1>3, ZeroNormal DEF DropLastChar, NormaliseEntry, u
<1>4. CASE u \notin {<<>>, <<"-">>, <<"-", "0">>}
  <2>1. DropLastChar(t) = u
    BY <1>4 DEF DropLastChar, NormaliseEntry, u
  <2>2. n > 1 /\ First(u) = First(t)
    <3>1. u # <<>> /\ n > 1
      BY <1>1, <1>2, <1>4
    <3> QED
      BY <1>1, <1>2, <3>1 DEF First
  <2>3. n - 1 >= First(u)
    <3> SUFFICES ASSUME First(t) = 2, n = 2 PROVE FALSE
      BY <1>1, <2>2
    <3>1. u = <<"-">>
      BY <1>1, <1>2 DEF First
    <3> QED
      BY <1>4, <3>1
  <2>4. u[First(u)] \in DigitChar /\ (Len(u) > First(u) /\ u[First(u)] = "0" => u[First(u) + 1] = ".")
    BY <1>1, <1>2, <2>2, <2>3, NormalFacts
  <2>5. \A i, j \in DOMAIN u : u[i] = "." /\ u[j] = "." => i = j
    BY <1>1, <1>2, NormalFacts
  <2> QED
    BY <1>1, <1>2, <1>4, <2>1, <2>3, <2>4, <2>5, NormalFacts
<1> QED
  BY <1>3, <1>4

LEMMA ToggleEntrySignNormal ==
  ASSUME NEW t, NormalEntry(t)
  PROVE  NormalEntry(ToggleEntrySign(t))
<1> DEFINE n == Len(t)
<1>1. t \in Seq(EntryChar) /\ n \in Nat /\ DOMAIN t = 1..n /\ n >= First(t) /\ First(t) \in {1, 2}
  BY NormalFacts, FirstFacts
<1>2. CASE t[1] = "-"
  <2> DEFINE u == Tail(t)
  <2>1. t # <<>> /\ First(t) = 2
    BY <1>1, <1>2 DEF First
  <2>2. /\ u \in Seq(EntryChar) /\ Len(u) = n - 1 /\ DOMAIN u = 1..(n - 1)
        /\ \A i \in 1..(n - 1) : u[i] = t[i + 1]
    BY <1>1, <2>1
  <2>3. ToggleEntrySign(t) = NormaliseEntry(u)
    BY <1>2, <2>1 DEF ToggleEntrySign
  <2> HIDE DEF u
  <2>4. u[1] \in DigitChar /\ u # <<>>
    BY <1>1, <2>1, <2>2, NormalFacts
  <2>5. u[1] # "-" /\ First(u) = 1
    BY <2>4 DEF DigitChar, First
  <2>6. Len(u) > 1 /\ u[1] = "0" => u[2] = "."
    BY <1>1, <2>1, <2>2, NormalFacts
  <2>7. \A i, j \in DOMAIN u : u[i] = "." /\ u[j] = "." => i = j
    <3> SUFFICES ASSUME NEW i \in 1..(n - 1), NEW j \in 1..(n - 1), u[i] = ".", u[j] = "." PROVE i = j
      BY <2>2
    <3>1. i + 1 \in DOMAIN t /\ j + 1 \in DOMAIN t /\ t[i + 1] = "." /\ t[j + 1] = "."
      BY <1>1, <2>2
    <3>2. i + 1 = j + 1
      BY <3>1, NormalFacts
    <3> QED
      BY <1>1, <3>2
  <2>8. NormalEntry(u)
    <3>1. u # <<"-", "0">> /\ Len(u) >= 1
      BY <1>1, <2>1, <2>2, <2>5
    <3> QED
      BY <2>2, <2>4, <2>5, <2>6, <2>7, <3>1, NormalFacts
  <2>9. NormaliseEntry(u) = u \/ NormaliseEntry(u) = <<"0">>
    BY DEF NormaliseEntry
  <2> QED
    BY <2>3, <2>8, <2>9, ZeroNormal
<1>3. CASE t[1] # "-"
  <2> DEFINE u == <<"-">> \o t
  <2>1. /\ u \in Seq(EntryChar) /\ Len(u) = n + 1 /\ DOMAIN u = 1..(n + 1) /\ u[1] = "-"
        /\ \A i \in 1..n : u[i + 1] = t[i]
    BY <1>1 DEF EntryChar
  <2>2. ToggleEntrySign(t) = NormaliseEntry(u)
    BY <1>3 DEF ToggleEntrySign
  <2> HIDE DEF u
  <2>3. u # <<>> /\ First(u) = 2 /\ First(t) = 1
    BY <1>1, <1>3, <2>1 DEF First
  <2>4. CASE u = <<"-", "0">>
    BY <2>2, <2>4, ZeroNormal DEF NormaliseEntry
  <2>5. CASE u # <<"-", "0">>
    <3>1. u # <<"-">>
      BY <1>1, <2>1, <2>3
    <3>2. NormaliseEntry(u) = u
      BY <2>3, <2>5, <3>1 DEF NormaliseEntry
    <3>3. u[2] = t[1] /\ (n > 1 => u[3] = t[2])
      <4>1. u[1 + 1] = t[1] /\ (n > 1 => u[2 + 1] = t[2])
        BY <1>1, <2>1, <2>3
      <4> QED
        BY <4>1
    <3>4. u[2] \in DigitChar /\ (n > 1 /\ u[2] = "0" => u[3] = ".")
      BY <1>1, <2>3, <3>3, NormalFacts
    <3>5. \A i, j \in DOMAIN u : u[i] = "." /\ u[j] = "." => i = j
      <4> SUFFICES ASSUME NEW i \in 1..(n + 1), NEW j \in 1..(n + 1), u[i] = ".", u[j] = "." PROVE i = j
        BY <2>1
      <4>1. i # 1 /\ j # 1
        BY <2>1
      <4>2. /\ i - 1 \in 1..n /\ j - 1 \in 1..n
            /\ u[(i - 1) + 1] = t[i - 1] /\ u[(j - 1) + 1] = t[j - 1]
            /\ (i - 1) + 1 = i /\ (j - 1) + 1 = j
        BY <1>1, <2>1, <4>1
      <4>3. i - 1 = j - 1
        BY <1>1, <4>2, NormalFacts
      <4> QED
        BY <1>1, <4>3
    <3>6. Len(u) >= First(u) /\ (Len(u) > First(u) => n > 1) /\ First(u) + 1 = 3
      BY <1>1, <2>1, <2>3
    <3>7. NormalEntry(u)
      BY <2>1, <2>3, <2>5, <3>4, <3>5, <3>6, NormalFacts
    <3> QED
      BY <2>2, <3>2, <3>7
  <2> QED
    BY <2>4, <2>5
<1> QED
  BY <1>2, <1>3

-----------------------------------------------------------------------------
(* The engine's side of it: what a key or an answer leaves as an entry.     *)
Normal(s) == s.phase \in Entering => NormalEntry(s.display)

(* The keys that edit it.                                                   *)
LEMMA InputDigitNormal ==
  ASSUME NEW s \in CalcState, Normal(s), NEW d \in Digit
  PROVE  Normal(InputDigit(s, d).state)
<1>1. NormalEntry(AppendDigit(<<"0">>, d)) /\ (s.phase \in Entering => NormalEntry(AppendDigit(s.display, d)))
  BY KeyAssumption, ZeroNormal, AppendDigitNormal DEF Normal
<1>2. CASE s.phase \in {"idle", "result", "error"}
  <2>1. InputDigit(s, d).state.display = AppendDigit(<<"0">>, d)
    BY <1>2 DEF InputDigit, Stay, initialState, Entering
  <2> QED
    BY <1>1, <2>1 DEF Normal
<1>3. CASE s.phase \in Entering
  <2>1. InputDigit(s, d).state.display = AppendDigit(s.display, d)
    BY <1>3 DEF InputDigit, Stay, Entering, CalcState
  <2> QED
    BY <1>1, <1>3, <2>1 DEF Normal
<1>4. CASE s.phase = "operatorSelected"
  <2>1. InputDigit(s, d).state.display = AppendDigit(<<"0">>, d)
    BY <1>4 DEF InputDigit, Stay, Entering, CalcState
  <2> QED
    BY <1>1, <2>1 DEF Normal
<1> QED
  BY <1>2, <1>3, <1>4 DEF CalcState, Phase, Entering

LEMMA InputDecimalNormal ==
  ASSUME NEW s \in CalcState, Normal(s)
  PROVE  Normal(InputDecimal(s).state)
<1>1. NormalEntry(<<"0", ".">>) /\ (s.phase \in Entering => NormalEntry(AppendDecimal(s.display)))
  BY ZeroNormal, AppendDecimalNormal DEF Normal
<1>2. CASE s.phase \in {"idle", "result", "error"}
  <2>1. InputDecimal(s).state.display = <<"0", ".">>
    BY <1>2 DEF InputDecimal, Stay, initialState, Entering
  <2> QED
    BY <1>1, <2>1 DEF Normal
<1>3. CASE s.phase \in Entering
  <2>1. InputDecimal(s).state.display = AppendDecimal(s.display)
    BY <1>3 DEF InputDecimal, Stay, Entering, CalcState
  <2> QED
    BY <1>1, <1>3, <2>1 DEF Normal
<1>4. CASE s.phase = "operatorSelected"
  <2>1. InputDecimal(s).state.display = <<"0", ".">>
    BY <1>4 DEF InputDecimal, Stay, Entering, CalcState
  <2> QED
    BY <1>1, <2>1 DEF Normal
<1> QED
  BY <1>2, <1>3, <1>4 DEF CalcState, Phase, Entering

LEMMA ToggleSignNormal ==
  ASSUME NEW s \in CalcState, Normal(s)
  PROVE  Normal(ToggleSign(s).state)
<1>1. CASE s.phase \in Entering
  <2>1. ToggleSign(s).state.display = ToggleEntrySign(s.display)
    BY <1>1 DEF ToggleSign, Stay, Entering, CalcState
  <2> QED
    BY <1>1, <2>1, ToggleEntrySignNormal DEF Normal
<1>2. CASE s.phase \notin Entering
  BY <1>2 DEF ToggleSign, Stay, initialState, Normal, Entering, CalcState, Phase
<1> QED
  BY <1>1, <1>2

LEMMA BackspaceNormal ==
  ASSUME NEW s \in CalcState, Normal(s)
  PROVE  Normal(Backspace(s).state)
<1>1. CASE s.phase \in Entering
  <2>1. Backspace(s).state.display = DropLastChar(s.display)
    BY <1>1 DEF Backspace, Stay, Entering, CalcState
  <2> QED
    BY <1>1, <2>1, DropLastCharNormal DEF Normal
<1>2. CASE s.phase \notin Entering
  BY <1>2 DEF Backspace, Stay, initialState, Normal, Entering, CalcState, Phase
<1> QED
  BY <1>1, <1>2

(* The other keys leave the entry alone or end it.                          *)
LEMMA OtherKeysNormal ==
  ASSUME NEW s \in CalcState, Normal(s), NEW op
  PROVE  /\ Normal(ClearEntry(s).state)
         /\ Normal(SetOperator(s, op).state)
         /\ Normal(RequestEvaluate(s).state)
         /\ Normal(ApplyUnary(s, op).state)
<1>1. s.phase \in Phase
  BY DEF CalcState
<1>2. Normal(ClearEntry(s).state)
  BY <1>1 DEF ClearEntry, Stay, initialState, Normal, Entering, CalcState, Phase
<1>3. Normal(SetOperator(s, op).state)
  BY <1>1 DEF SetOperator, Stay, Emit, initialState, Normal, Entering, CalcState, Phase
<1>4. Normal(RequestEvaluate(s).state)
  BY <1>1 DEF RequestEvaluate, Stay, Emit, initialState, Normal, Entering, CalcState, Phase
<1>5. Normal(ApplyUnary(s, op).state)
  BY <1>1 DEF ApplyUnary, Emit, initialState, Normal, Entering, CalcState, Phase
<1> QED
  BY <1>2, <1>3, <1>4, <1>5

(* An answer writes a result of the server, as String() does.               *)
LEMMA AnswersNormal ==
  ASSUME NEW s \in CalcState, Normal(s), NEW value \in Response, NEW message
  PROVE  /\ Normal(ApplyResult(s, value).state)
         /\ Normal(ApplyError(s, message).state)
<1>1. NormalEntry(StringOf(value))
  BY StoreAssumption
<1>2. ApplyResult(s, value).state.display = StringOf(value)
  BY DEF ApplyResult, Stay, initialState, Entering, CalcState, Phase
<1>3. ApplyError(s, message).state.phase = "error"
  BY DEF ApplyError, Stay, CalcState
<1> QED
  BY <1>1, <1>2, <1>3 DEF Normal, Entering

(* A key of the store leaves the state the engine gives, or an error.       *)
LEMMA InputNormal ==
  ASSUME NEW t, Normal(t.state), t.state \in CalcState, Input(t)
  PROVE  Normal(calc')
<1>1. \A message : ApplyError(t.state, message).state.phase = "error"
  BY DEF ApplyError, Stay, CalcState
<1>2. calc' = t.state \/ \E message : calc' = ApplyError(t.state, message).state
  BY DEF Input, Apply, Send, ShowError
<1> QED
  BY <1>1, <1>2 DEF Normal, Entering

(* No step of the store spoils the entry.                                   *)
LEMMA StepNormal ==
  ASSUME Inv, EntryIsNormal, [Next]_vars
  PROVE  EntryIsNormal'
<1>1. calc \in CalcState /\ Normal(calc)
  BY DEF Inv, TypeOK, EntryIsNormal, Normal
<1> SUFFICES Normal(calc')
  BY DEF EntryIsNormal, Normal
<1>2. CASE Key
  <2>0. ~pending /\ Settled(calc)
    BY <1>2 DEF Key, PressDigit, PressDecimal, PressSign, PressBackspace, PressClearEntry,
                PressOperator, PressEquals, PressUnary, Input, Inv, CalcInv
  <2>1. ASSUME NEW t, Sound(t), Normal(t.state), Input(t) PROVE Normal(calc')
    BY <2>1, InputNormal DEF Sound, Settled, Waiting
  <2>2. CASE PressDigit
    BY <1>1, <2>0, <2>1, <2>2, InputDigitNormal, InputDigitSound DEF PressDigit
  <2>3. CASE PressDecimal
    BY <1>1, <2>0, <2>1, <2>3, InputDecimalNormal, InputDecimalSound DEF PressDecimal
  <2>4. CASE PressSign
    BY <1>1, <2>0, <2>1, <2>4, ToggleSignNormal, ToggleSignSound DEF PressSign
  <2>5. CASE PressBackspace
    BY <1>1, <2>0, <2>1, <2>5, BackspaceNormal, BackspaceSound DEF PressBackspace
  <2>6. CASE PressClearEntry
    BY <1>1, <2>0, <2>1, <2>6, OtherKeysNormal, ClearEntrySound DEF PressClearEntry
  <2>7. CASE PressOperator
    BY <1>1, <2>0, <2>1, <2>7, OtherKeysNormal, SetOperatorSound DEF PressOperator
  <2>8. CASE PressEquals
    BY <1>1, <2>0, <2>1, <2>8, OtherKeysNormal, RequestEvaluateSound DEF PressEquals
  <2>9. CASE PressUnary
    BY <1>1, <2>0, <2>1, <2>9, OtherKeysNormal, ApplyUnarySound DEF PressUnary
  <2> QED
    BY <1>2, <2>2, <2>3, <2>4, <2>5, <2>6, <2>7, <2>8, <2>9 DEF Key
<1>3. CASE PressClearAll
  BY <1>3 DEF PressClearAll, ClearAll, Stay, initialState, Normal, Entering
<1>4. CASE Retry
  <2>1. calc' = calc \/ \E message : calc' = ApplyError(calc, message).state
    BY <1>4 DEF Retry, Send, ShowError
  <2>2. \A message : ApplyError(calc, message).state.phase = "error"
    BY <1>1 DEF ApplyError, Stay, CalcState
  <2> QED
    BY <1>1, <2>1, <2>2 DEF Normal, Entering
<1>5. ASSUME NEW value \in Response, Recall(value) PROVE Normal(calc')
  <2>1. calc'.display = StringOf(value)
    BY <1>5 DEF Recall, initialState
  <2> QED
    BY <2>1, StoreAssumption DEF Normal
<1>6. ASSUME NEW call \in calls, Settle(call) PROVE Normal(calc')
  <2>1. call.outcome \in Outcome
    BY <1>6 DEF Inv, TypeOK, Call, Settle
  <2>2. CASE UNCHANGED storeState
    BY <1>1, <2>2 DEF storeState
  <2>3. CASE call.outcome.ok /\ ShowResult(calc, call.outcome.result)
    <3>1. call.outcome.result \in Response
      BY <2>1, <2>3 DEF Outcome
    <3> QED
      BY <1>1, <2>3, <3>1, AnswersNormal DEF ShowResult
  <2>4. CASE \E message : calc' = ApplyError(calc, message).state
    <3>1. \A message : ApplyError(calc, message).state.phase = "error"
      BY <1>1 DEF ApplyError, Stay, CalcState
    <3> QED
      BY <2>4, <3>1 DEF Normal, Entering
  <2> QED
    BY <1>6, <2>2, <2>3, <2>4 DEF Settle, ShowError
<1>7. CASE UNCHANGED storeState
  BY <1>1, <1>7 DEF storeState
<1> QED
  BY <1>2, <1>3, <1>4, <1>5, <1>6, <1>7 DEF Next, SetEvaluator, Answer, vars

(* Whatever is pressed, recalled or answered, the entry is one number.      *)
THEOREM EntryCorrect == PageSpec => []EntryIsNormal
<1>1. Init => EntryIsNormal
  BY DEF Init, initialState, EntryIsNormal, Entering
<1>2. Spec => []EntryIsNormal
  BY <1>1, StepNormal, Invariance, PTL DEF Spec
<1> QED
  BY <1>2, PageImplementsStore, PTL

-----------------------------------------------------------------------------
(* What a digit or a point does in an entry, when it is not refused.        *)
LEMMA AppendChanges ==
  ASSUME NEW t, NormalEntry(t), NEW c \in DigitChar \cup {"."}
  PROVE  Append(t, c) # t
<1>1. t \in Seq(EntryChar) /\ Len(t) \in Nat
  BY NormalFacts, FirstFacts
<1>2. Len(Append(t, c)) = Len(t) + 1
  BY <1>1
<1> QED
  BY <1>1, <1>2

(* A digit that neither shakes nor changes anything is a second zero.       *)
LEMMA DigitIsTyped ==
  ASSUME Inv, EntryIsNormal, NEW d \in Digit, ~shake', calc' = calc, guardedInputDigit(d)
  PROVE  d = "0" /\ calc.display = <<"0">>
<1>1. calc \in CalcState /\ d \in DigitChar
  BY KeyAssumption DEF Inv, TypeOK
<1>2. ~pending /\ ~(calc.phase \in Entering /\ CountDigits(calc.display) >= MAX_ENTRY_DIGITS)
  BY DEF guardedInputDigit, ShakeWhen
<1>3. calc' = InputDigit(calc, d).state
  <2>1. InputDigit(calc, d).effect = Null
    BY <1>1 DEF InputDigit, Stay, CalcState, Phase, Entering
  <2> QED
    BY <1>2, <2>1 DEF guardedInputDigit, OrIgnored, Input, Apply
<1>4. calc.phase \in Entering
  <2>1. calc.phase \in {"idle", "result", "error"} => calc'.phase = "enteringA"
    BY <1>3 DEF InputDigit, Stay, initialState, Entering
  <2>2. calc.phase = "operatorSelected" => calc'.phase = "enteringB"
    BY <1>1, <1>3 DEF InputDigit, Stay, CalcState, Entering
  <2> QED
    BY <1>1, <2>1, <2>2 DEF CalcState, Phase, Entering
<1>5. calc.display = AppendDigit(calc.display, d)
  BY <1>1, <1>3, <1>4 DEF InputDigit, Stay, CalcState, Entering
<1>6. NormalEntry(calc.display)
  BY <1>4 DEF EntryIsNormal
<1>7. calc.display = <<"0">>
  BY <1>1, <1>2, <1>4, <1>5, <1>6, AppendChanges DEF AppendDigit
<1> QED
  BY <1>2, <1>4, <1>5, <1>7 DEF AppendDigit

(* A point that does not shake changes the entry.                           *)
LEMMA PointIsTyped ==
  ASSUME Inv, EntryIsNormal, ~shake', calc' = calc
  PROVE  ~guardedInputDecimal
<1> SUFFICES ASSUME guardedInputDecimal PROVE FALSE
  OBVIOUS
<1>1. calc \in CalcState
  BY DEF Inv, TypeOK
<1>2. ~pending /\ ~(calc.phase \in Entering /\ HasChar(calc.display, "."))
  BY DEF guardedInputDecimal, ShakeWhen
<1>3. calc' = InputDecimal(calc).state
  <2>1. InputDecimal(calc).effect = Null
    BY <1>1 DEF InputDecimal, Stay, CalcState, Phase, Entering
  <2> QED
    BY <1>2, <2>1 DEF guardedInputDecimal, OrIgnored, Input, Apply
<1>4. calc.phase \in Entering
  <2>1. calc.phase \in {"idle", "result", "error"} => calc'.phase = "enteringA"
    BY <1>3 DEF InputDecimal, Stay, initialState, Entering
  <2>2. calc.phase = "operatorSelected" => calc'.phase = "enteringB"
    BY <1>1, <1>3 DEF InputDecimal, Stay, CalcState, Entering
  <2> QED
    BY <1>1, <2>1, <2>2 DEF CalcState, Phase, Entering
<1>5. calc.display = AppendDecimal(calc.display)
  BY <1>1, <1>3, <1>4 DEF InputDecimal, Stay, CalcState, Entering
<1>6. calc.display = Append(calc.display, ".") /\ NormalEntry(calc.display)
  BY <1>2, <1>4, <1>5 DEF AppendDecimal, EntryIsNormal
<1> QED
  BY <1>6, AppendChanges

(* A key the display shakes for changes nothing.                            *)
LEMMA ShakenKeyIsRefused ==
  ASSUME Inv, ~shake, shake',
         (\E d \in Digit : guardedInputDigit(d)) \/ guardedInputDecimal
  PROVE  UNCHANGED vars
<1>1. calc \in CalcState
  BY DEF Inv, TypeOK
<1>2. [calc EXCEPT !.display = calc.display] = calc
  BY <1>1 DEF CalcState
<1>3. ASSUME NEW t, t = Stay(calc), Input(t) PROVE UNCHANGED vars
  BY <1>3 DEF Stay, Input, Apply, vars, storeState
<1>4. ASSUME NEW d \in Digit, guardedInputDigit(d), ~pending PROVE UNCHANGED vars
  <2>1. calc.phase \in Entering /\ CountDigits(calc.display) >= MAX_ENTRY_DIGITS
    BY <1>4 DEF guardedInputDigit, ShakeWhen
  <2>2. InputDigit(calc, d) = Stay(calc)
    BY <1>2, <2>1 DEF InputDigit, AppendDigit, Entering
  <2> QED
    BY <1>3, <1>4, <2>2 DEF guardedInputDigit, OrIgnored
<1>5. ASSUME guardedInputDecimal, ~pending PROVE UNCHANGED vars
  <2>1. calc.phase \in Entering /\ HasChar(calc.display, ".")
    BY <1>5 DEF guardedInputDecimal, ShakeWhen
  <2>2. InputDecimal(calc) = Stay(calc)
    BY <1>2, <2>1 DEF InputDecimal, AppendDecimal, Entering
  <2> QED
    BY <1>3, <1>5, <2>2 DEF guardedInputDecimal, OrIgnored
<1>6. CASE pending
  BY <1>6 DEF guardedInputDigit, guardedInputDecimal, OrIgnored, Input
<1> QED
  BY <1>4, <1>5, <1>6

(* Only these two keys make the display shake.                              *)
LEMMA OnlyGuardsShake ==
  ASSUME PageNext, ~shake, shake'
  PROVE  (\E d \in Digit : guardedInputDigit(d)) \/ guardedInputDecimal
<1>1. ASSUME NEW button, Press(button)
      PROVE  (\E d \in Digit : guardedInputDigit(d)) \/ guardedInputDecimal
  BY <1>1 DEF Press
<1> QED
  BY <1>1 DEF PageNext, Mount, Click, KeyDown, ClickRetry, ClickEntry, Render, ShakeEnds

(* The guards that Calculator.tsx writes a second time agree with the       *)
(* engine's: a shake says that nothing happened, and nothing else is        *)
(* refused in silence.                                                      *)
THEOREM ShakeCorrect == PageSpec => ShakeIsHonest
<1>1. Inv /\ EntryIsNormal /\ [PageNext]_pageVars =>
        [/\ ~shake /\ shake' => UNCHANGED vars
         /\ ~shake' /\ calc' = calc =>
              /\ \A d \in Digit : guardedInputDigit(d) => d = "0" /\ calc.display = <<"0">>
              /\ ~guardedInputDecimal]_pageVars
  BY DigitIsTyped, PointIsTyped, ShakenKeyIsRefused, OnlyGuardsShake
<1>2. PageSpec => []Inv
  BY PageImplementsStore, Invariance, PTL
<1> QED
  BY <1>1, <1>2, EntryCorrect, PTL DEF PageSpec, ShakeIsHonest
=============================================================================
