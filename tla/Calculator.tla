------------------------------ MODULE Calculator ------------------------------
(****************************************************************************)
(* components/calculator/Calculator.tsx: the calculator store wired to the  *)
(* history store (stores/useHistoryStore.ts), which is persisted through    *)
(* lib/storage.ts, and the page reload that starts both again.              *)
(*                                                                          *)
(* The evaluator Calculator hands to the store records every successful     *)
(* response before the store's own callback sees it.  Both run in the same  *)
(* chain of microtasks, with no key press in between: one action.           *)
(****************************************************************************)
EXTENDS CalculatorStore

CONSTANTS
  MAX_HISTORY_ENTRIES,   \* the oldest entries are dropped beyond this many
  Stored,                \* what earlier visits left in localStorage
  Unreadable,            \* text that is not JSON, or JSON that fails the schema
  MaxAnswers             \* bound on the answers of a run

HistoryEntry == [id : Nat, request : CalculateRequest, result : Response]

(* Entries are numbered from the oldest.                                    *)
ASSUME HistoryAssumption ==
  /\ MAX_HISTORY_ENTRIES \in Nat \ {0}
  /\ MaxAnswers \in Nat
  /\ {Null, Unreadable} \cap Seq(HistoryEntry) = {}
  /\ \A list \in Stored \ {Null, Unreadable} :
       /\ list \in Seq(HistoryEntry)
       /\ Len(list) <= MAX_HISTORY_ENTRIES
       /\ \A i \in DOMAIN list : list[i].id = Len(list) + 1 - i

(* This page, and the same page in another tab of the browser, of which     *)
(* only the history store is followed.                                      *)
Tab == {"this", "other"}

VARIABLES
  entries,      \* by tab: the history panel, newest first
  disk,         \* the text under calc.history.v1 in localStorage, Null when there is none
  confirming,   \* the clear button of this tab reads "Confirm clear"
  owner,        \* history variable: the tab whose panel the disk holds, or "neither"
  answers       \* history variable: every answer of either tab since the disk was empty

historyVars == <<entries, disk, confirming, owner, answers>>
allVars == <<vars, historyVars>>

-----------------------------------------------------------------------------
(* lib/storage.ts.  Without a window, or when localStorage throws, a read   *)
(* finds nothing and a write is dropped: a browser that blocks it is one    *)
(* with an empty disk that refuses every write.                             *)
readJSON == IF disk = Unreadable THEN Null ELSE disk

(* Quota and private mode: a write may be refused, and nobody hears of it.  *)
writeJSON(tab, list) ==
  \/ disk' = list /\ owner' = tab
  \/ disk' = disk /\ owner' = IF owner = tab THEN "neither" ELSE owner

LoadInitialEntries == IF readJSON = Null THEN <<>> ELSE readJSON

AppInit ==
  /\ Init
  /\ disk \in Stored
  /\ entries = [tab \in Tab |-> LoadInitialEntries]
  /\ confirming = FALSE
  /\ owner = "this"
  /\ answers = [i \in DOMAIN LoadInitialEntries |->
                  LoadInitialEntries[Len(LoadInitialEntries) + 1 - i]]

-----------------------------------------------------------------------------
(* stores/useHistoryStore.ts: every set() is followed by the subscriber     *)
(* that writes the whole list back.  The clear button is drawn, and keeps   *)
(* its state, while there are entries.                                      *)
SetEntries(tab, list) ==
  /\ entries' = [entries EXCEPT ![tab] = list]
  /\ writeJSON(tab, list)

ButtonStays == confirming' = (confirming /\ entries'["this"] # <<>>)

NewEntry(request, result) == [id |-> Len(answers) + 1, request |-> request, result |-> result]

(* A mistake: nothing is ever dropped.                                      *)
AddUncapped(tab, request, result) ==
  /\ answers' = Append(answers, NewEntry(request, result))
  /\ SetEntries(tab, <<NewEntry(request, result)>> \o entries[tab])

(* add(): the id is fresh; the index in `answers` stands for it.            *)
Add(tab, request, result) ==
  LET longer == <<NewEntry(request, result)>> \o entries[tab]
  IN  /\ answers' = Append(answers, NewEntry(request, result))
      /\ SetEntries(tab, SubSeq(longer, 1, IF Len(longer) > MAX_HISTORY_ENTRIES
                                           THEN MAX_HISTORY_ENTRIES ELSE Len(longer)))

(* filter(): the entries whose index is kept, in the order they had.        *)
NthOf(indices, n) == CHOOSE i \in indices : Cardinality({j \in indices : j <= i}) = n

Without(list, id) ==
  LET kept == {i \in DOMAIN list : list[i].id # id}
  IN  [n \in 1..Cardinality(kept) |-> list[NthOf(kept, n)]]

Remove(tab, id) ==
  /\ SetEntries(tab, Without(entries[tab], id))
  /\ UNCHANGED answers

(* A mistake: the empty list is not written back.                           *)
ClearUnsaved(tab) ==
  /\ entries' = [entries EXCEPT ![tab] = <<>>]
  /\ UNCHANGED <<disk, owner, answers>>

Clear(tab) ==
  /\ SetEntries(tab, <<>>)
  /\ UNCHANGED answers

(* A reload of a page reads what is on the disk.                            *)
Load(tab) ==
  /\ entries' = [entries EXCEPT ![tab] = LoadInitialEntries]
  /\ owner' = IF tab = "this" THEN "this" ELSE owner
  /\ UNCHANGED <<disk, answers>>

-----------------------------------------------------------------------------
(* A mistake: an answer that comes too late is not recorded.                *)
SettleUnrecorded(call) ==
  /\ Settle(call)
  /\ \/ call.outcome.ok /\ call.ticket = ticket /\ Len(answers) < MaxAnswers
        /\ Add("this", call.request, call.outcome.result) /\ ButtonStays
     \/ ~(call.outcome.ok /\ call.ticket = ticket) /\ UNCHANGED historyVars

(* The evaluator of Calculator.tsx, then the store's callback.              *)
SettleRecorded(call) ==
  /\ Settle(call)
  /\ \/ /\ call.outcome.ok
        /\ Len(answers) < MaxAnswers
        /\ Add("this", call.request, call.outcome.result)
        /\ ButtonStays
     \/ ~call.outcome.ok /\ UNCHANGED historyVars

(* components/calculator/HistoryPanel.tsx.                                  *)
RecallEntry(entry) == Recall(entry.result) /\ UNCHANGED historyVars

RemoveEntry(entry) == Remove("this", entry.id) /\ ButtonStays /\ UNCHANGED vars

(* The first click turns the button into "Confirm clear".                   *)
ClickClear ==
  /\ entries["this"] # <<>>
  /\ \/ ~confirming /\ confirming' = TRUE /\ UNCHANGED <<entries, disk, owner, answers>>
     \/ confirming /\ confirming' = FALSE /\ Clear("this")
  /\ UNCHANGED vars

(* The button loses the focus, where a click gives it one; or Escape, which *)
(* the listener on the window takes for AC as well.                         *)
CancelClear ==
  /\ confirming
  /\ confirming' = FALSE
  /\ UNCHANGED <<entries, disk, owner, answers>>
  /\ UNCHANGED vars \/ PressClearAll

(* A reload: the promises of the old page are gone with it.                 *)
Reload ==
  /\ calc' = initialState
  /\ pending' = FALSE
  /\ errorRequestId' = Null
  /\ canRetry' = FALSE
  /\ wired' = FALSE
  /\ UNCHANGED ticket        \* a new page counts from 0; kept, for the bound
  /\ lastSentRequest' = Null
  /\ calls' = {}
  /\ Load("this")
  /\ confirming' = FALSE

OtherTab ==
  /\ \/ /\ Len(answers) < MaxAnswers
        /\ \E result \in Response : Add("other", SqrtRequest(One), result)
     \/ \E i \in DOMAIN entries["other"] : Remove("other", entries["other"][i].id)
     \/ entries["other"] # <<>> /\ Clear("other")
     \/ Load("other")
  /\ UNCHANGED <<vars, confirming>>

(* The effect of mounting; React runs it before it handles any event.       *)
Mount == ~wired /\ SetEvaluator(TRUE) /\ UNCHANGED historyVars

AppNext ==
  \/ Mount
  \/ /\ \/ wired /\ (Key \/ PressClearAll \/ Retry)
        \/ \E call \in calls : \E outcome \in Outcome : Answer(call, outcome)
     /\ UNCHANGED historyVars
  \/ \E call \in calls : SettleRecorded(call)
  \/ \E i \in DOMAIN entries["this"] :
       wired /\ (RecallEntry(entries["this"][i]) \/ RemoveEntry(entries["this"][i]))
  \/ wired /\ (ClickClear \/ CancelClear)
  \/ Reload
  \/ OtherTab

AppSpec == AppInit /\ [][AppNext]_allVars

-----------------------------------------------------------------------------
(* Either panel lists answers the server really gave, each at most once,    *)
(* newest first and never more than the cap: after any mix of late answers, *)
(* removals, refused writes, reloads and writes of the other tab, and       *)
(* whatever the first visit found on the disk.                              *)
HistoryIsFaithful ==
  \A tab \in Tab :
    LET panel == entries[tab]
    IN  /\ panel \in Seq(HistoryEntry)
        /\ Len(panel) <= MAX_HISTORY_ENTRIES
        /\ \A i \in DOMAIN panel : panel[i] = answers[panel[i].id]
        /\ \A i, j \in DOMAIN panel : i < j => panel[i].id > panel[j].id

(* Unless the last write of this tab was refused or the other tab has       *)
(* written since, a reload brings back exactly the panel the user saw:      *)
(* nothing removed returns, nothing shown is lost.                          *)
ReloadKeepsHistory == owner = "this" => LoadInitialEntries = entries["this"]

(* Every successful response becomes the newest entry of the panel, also    *)
(* when AC made it too late for the display; when it is in time, the newest *)
(* entry and the display show the same number.                              *)
AnswersAreRecorded ==
  [][\A call \in calls :
       Settle(call) /\ call.outcome.ok =>
         /\ entries'["this"] # <<>>
         /\ entries'["this"][1].request = call.request
         /\ entries'["this"][1].result = call.outcome.result
         /\ call.ticket = ticket => calc'.display = StringOf(entries'["this"][1].result)]_allVars
=============================================================================
