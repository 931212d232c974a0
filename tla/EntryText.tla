------------------------------ MODULE EntryText ------------------------------
(****************************************************************************)
(* The entry text of the calculator: the string the user is typing, and the *)
(* edits lib/calculator-engine.ts makes to it.  A text is a sequence of     *)
(* characters; the edits look only at digits, the sign and the point.       *)
(****************************************************************************)
EXTENDS Naturals, Sequences, FiniteSets

CONSTANT MAX_ENTRY_DIGITS   \* longest entry the user can type, in digits

ASSUME MaxEntryDigitsAssumption == MAX_ENTRY_DIGITS \in Nat \ {0}

DigitChar == {"0", "1", "2", "3", "4", "5", "6", "7", "8", "9"}

(* `replace(/[^0-9]/g, "").length`: the sign, the point and the "e" of an   *)
(* exponent do not count, the digits of an exponent do.                     *)
CountDigits(entry) == Cardinality({i \in DOMAIN entry : entry[i] \in DigitChar})

HasChar(entry, c) == \E i \in DOMAIN entry : entry[i] = c

(* A mistake: only the empty entry is caught.                              *)
NormaliseEmptyOnly(entry) == IF entry = <<>> THEN <<"0">> ELSE entry

(* An entry is never empty, never a lone sign and never a negative zero.    *)
NormaliseEntry(entry) ==
  IF entry \in {<<>>, <<"-">>, <<"-", "0">>} THEN <<"0">> ELSE entry

(* A mistake: the first digit does not replace the zero.                    *)
AppendBehindZero(entry, digit) ==
  IF CountDigits(entry) >= MAX_ENTRY_DIGITS THEN entry ELSE Append(entry, digit)

AppendDigit(entry, digit) ==
  IF CountDigits(entry) >= MAX_ENTRY_DIGITS THEN entry
  ELSE IF entry = <<"0">> THEN <<digit>> ELSE Append(entry, digit)

AppendDecimal(entry) ==
  IF HasChar(entry, ".") THEN entry ELSE Append(entry, ".")

DropLastChar(entry) == NormaliseEntry(SubSeq(entry, 1, Len(entry) - 1))

ToggleEntrySign(entry) ==
  NormaliseEntry(IF entry # <<>> /\ entry[1] = "-" THEN Tail(entry)
                                                   ELSE <<"-">> \o entry)

(* The characters of a number, in JavaScript.                               *)
EntryChar == DigitChar \cup {"-", "+", ".", "e"}

(* A text of one number, as String() writes a finite one and as the keys    *)
(* type it: the number begins with a digit, with no zero in front of        *)
(* another, has one point at most, and is no negative zero.                 *)
NormalEntry(entry) ==
  LET first == IF entry # <<>> /\ entry[1] = "-" THEN 2 ELSE 1
  IN  /\ entry \in Seq(EntryChar)
      /\ Len(entry) >= first /\ entry[first] \in DigitChar
      /\ Len(entry) > first /\ entry[first] = "0" => entry[first + 1] = "."
      /\ \A i, j \in DOMAIN entry : entry[i] = "." /\ entry[j] = "." => i = j
      /\ entry # <<"-", "0">>
=============================================================================
