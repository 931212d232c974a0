---------------------------------- MODULE Page ---------------------------------
(****************************************************************************)
(* What the user touches: the keypad and the operations bar                 *)
(* (components/calculator/Keypad.tsx, OperationsBar.tsx), the keyboard      *)
(* (hooks/use-keyboard.ts), the Retry button of the alert and the rows of   *)
(* the history, as Calculator.tsx wires them to the store.                  *)
(*                                                                          *)
(* The keys are disabled, and the keyboard listener told to be still, by    *)
(* the `busy` of the last render.  React renders after the store changed,   *)
(* at a time of its own, and a key may come first.                          *)
(****************************************************************************)
EXTENDS CalculatorStore

VARIABLES
  busy,    \* `busy` as last rendered: disabled keys, handlersRef.current.busy
  shake    \* the display is shaking

pageVars == <<vars, busy, shake>>

PageInit == Init /\ busy = FALSE /\ shake = FALSE

(* The keys of the pad, by their ids, and of the bar.                       *)
Button ==
  Digit \cup Operator \cup UnaryKey
  \cup {"clear-all", "clear-entry", "backspace", "toggle-sign", "decimal", "equals"}

(* event.key, and the button that does the same.                            *)
KEY_MAP ==
  {<<d, d>> : d \in Digit}
  \cup {<<".", "decimal">>, <<"+", "add">>, <<"-", "subtract">>, <<"*", "multiply">>,
        <<"/", "divide">>, <<"^", "power">>, <<"%", "percent">>, <<"r", "sqrt">>,
        <<"Enter", "equals">>, <<"=", "equals">>, <<"Escape", "clear-all">>,
        <<"Backspace", "backspace">>, <<"Delete", "clear-entry">>}

-----------------------------------------------------------------------------
(* The store's operations ignore a key while an answer is awaited.          *)
OrIgnored(operation) == operation \/ (pending /\ UNCHANGED vars)

(* triggerShake() is called when the key is going to do nothing.            *)
ShakeWhen(rejected) == shake' = (shake \/ rejected)

guardedInputDigit(d) ==
  /\ ShakeWhen(\/ pending
               \/ calc.phase \in Entering /\ CountDigits(calc.display) >= MAX_ENTRY_DIGITS)
  /\ OrIgnored(Input(InputDigit(calc, d)))

(* A mistake: a point on the display is taken for one in the entry.         *)
DecimalByDisplay ==
  /\ ShakeWhen(pending \/ HasChar(calc.display, "."))
  /\ OrIgnored(Input(InputDecimal(calc)))

guardedInputDecimal ==
  /\ ShakeWhen(pending \/ (calc.phase \in Entering /\ HasChar(calc.display, ".")))
  /\ OrIgnored(Input(InputDecimal(calc)))

(* What a button of the pad or the bar, or its shortcut, is wired to.       *)
Press(button) ==
  \/ button \in Digit /\ guardedInputDigit(button)
  \/ button = "decimal" /\ guardedInputDecimal
  \/ /\ \/ button = "toggle-sign" /\ OrIgnored(Input(ToggleSign(calc)))
        \/ button = "backspace" /\ OrIgnored(Input(Backspace(calc)))
        \/ button = "clear-entry" /\ OrIgnored(Input(ClearEntry(calc)))
        \/ button = "equals" /\ OrIgnored(Input(RequestEvaluate(calc)))
        \/ button \in Operator /\ OrIgnored(Input(SetOperator(calc, button)))
        \/ button \in UnaryKey /\ OrIgnored(Input(ApplyUnary(calc, button)))
        \/ button = "clear-all" /\ PressClearAll
     /\ UNCHANGED shake

(* AC stays live: it is the way out of a slow request.                      *)
Disabled(button) == busy /\ button # "clear-all"

(* The effect of mounting; React runs it before it handles any event.       *)
Mount == ~wired /\ SetEvaluator(TRUE) /\ UNCHANGED <<busy, shake>>

(* A click, or Enter on a focused button when the listener lets it pass.    *)
Click(button) == wired /\ ~Disabled(button) /\ Press(button) /\ UNCHANGED busy

(* onKeyDown(): other keys, those with a modifier and those typed into a    *)
(* field do nothing.  preventDefault() keeps the focused button still.      *)
KeyDown(shortcut) ==
  /\ wired
  /\ ~Disabled(shortcut[2])
  /\ Press(shortcut[2])
  /\ UNCHANGED busy

ClickRetry == Retry /\ UNCHANGED <<busy, shake>>

ClickEntry(value) == wired /\ OrIgnored(Recall(value)) /\ UNCHANGED <<busy, shake>>

(* A render, and the effect behind it that hands `busy` to the listener.    *)
Render ==
  /\ busy # pending
  /\ busy' = pending
  /\ UNCHANGED <<vars, shake>>

(* SHAKE_MS after the last triggerShake().                                  *)
ShakeEnds ==
  /\ shake
  /\ shake' = FALSE
  /\ UNCHANGED <<vars, busy>>

PageNext ==
  \/ Mount
  \/ \E button \in Button : Click(button)
  \/ \E shortcut \in KEY_MAP : KeyDown(shortcut)
  \/ ClickRetry
  \/ \E value \in Response : ClickEntry(value)
  \/ Render
  \/ ShakeEnds
  \/ /\ \E call \in calls : \/ \E outcome \in Outcome : Answer(call, outcome)
                            \/ Settle(call)
     /\ UNCHANGED <<busy, shake>>

PageSpec == PageInit /\ [][PageNext]_pageVars

-----------------------------------------------------------------------------
(* The guards of Calculator.tsx, which look at the store before the press,  *)
(* and the engine, which decides, agree: the display shakes for a press     *)
(* that changes nothing, and a digit or a point that does not shake is      *)
(* typed, but for a zero behind a lone zero.                                *)
ShakeIsHonest ==
  [][/\ ~shake /\ shake' => UNCHANGED vars
     /\ ~shake' /\ calc' = calc =>
          /\ \A d \in Digit : guardedInputDigit(d) => d = "0" /\ calc.display = <<"0">>
          /\ ~guardedInputDecimal]_pageVars

(* While an answer is awaited no key, shortcut or history row changes the   *)
(* screen, sends another request or touches the one retry() would send,     *)
(* however old the `busy` is that the page goes by.                         *)
StaleKeysAreHarmless ==
  [][pending /\ pending' => UNCHANGED <<storeState, ticket, lastSentRequest>>]_pageVars
=============================================================================
