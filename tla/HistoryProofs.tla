----------------------------- MODULE HistoryProofs -----------------------------
(****************************************************************************)
(* The history of Calculator, for every cap, whatever the first visit finds *)
(* on the disk, any number of answers and reloads, and a second tab: each   *)
(* panel lists real answers in order, a reload keeps what was shown, and no *)
(* answer goes unrecorded.  The store keeps its own invariant under the     *)
(* page's steps, a reload being the only one that is not its own.           *)
(****************************************************************************)
EXTENDS Calculator, CalculatorStoreProofs, FiniteSetTheorems, WellFoundedInduction

-----------------------------------------------------------------------------
(* What Array.filter returns.                                               *)

Below == {p \in Nat \X Nat : p[1] < p[2]}

(* A set of natural numbers has a least element.                            *)
LEMMA LeastNatural ==
  ASSUME NEW S \in SUBSET Nat, S # {}
  PROVE  \E m \in S : \A n \in S : m <= n
<1>1. IsWellFoundedOn(Below, Nat)
  BY NatLessThanWellFounded DEF OpToRel, Below
<1>2. PICK m \in S : \A n \in S : <<n, m>> \notin Below
  BY <1>1, WFMin
<1>3. ASSUME NEW n \in S PROVE m <= n
  <2>1. m \in Nat /\ n \in Nat
    OBVIOUS
  <2>2. ~ (n < m)
    BY <1>2, <2>1 DEF Below
  <2> QED BY <2>1, <2>2
<1> QED BY <1>3

UpTo(S, i) == {j \in S : j <= i}

LEMMA FinitePlaces ==
  ASSUME NEW top \in Nat, NEW S \in SUBSET (1..top)
  PROVE  IsFiniteSet(S) /\ Cardinality(S) \in Nat /\ Cardinality(S) <= top
<1>1. IsFiniteSet(1..top) /\ Cardinality(1..top) = top
  <2>1. 1 \in Int /\ top \in Int
    OBVIOUS
  <2>2. IsFiniteSet(1..top) /\ Cardinality(1..top) = IF 1 > top THEN 0 ELSE top - 1 + 1
    BY <2>1, FS_Interval
  <2> QED BY <2>2
<1>2. IsFiniteSet(S) /\ Cardinality(S) <= Cardinality(1..top)
  BY <1>1, FS_Subset
<1> QED BY <1>1, <1>2, FS_CardinalityType

(* The members of a set up to one of them are counted by its place.         *)
LEMMA NthExists ==
  ASSUME NEW top \in Nat, NEW S \in SUBSET (1..top), NEW n \in 1..Cardinality(S)
  PROVE  NthOf(S, n) \in S /\ Cardinality(UpTo(S, NthOf(S, n))) = n
<1>1. IsFiniteSet(S) /\ Cardinality(S) \in Nat /\ n \in Nat /\ n >= 1
  BY FinitePlaces
<1>0. \A j \in S : j \in Nat /\ j <= top /\ ~ (j <= 0)
  OBVIOUS
<1>2. \A i : IsFiniteSet(UpTo(S, i)) /\ Cardinality(UpTo(S, i)) \in Nat
  <2>1. \A i : UpTo(S, i) \in SUBSET S
    BY DEF UpTo
  <2> QED BY <1>1, <2>1, FS_Subset, FS_CardinalityType
<1> DEFINE T == {i \in 0..top : Cardinality(UpTo(S, i)) >= n}
<1>3. UpTo(S, top) = S /\ UpTo(S, 0) = {}
  <2> HIDE DEF T
  <2>1. UpTo(S, top) \subseteq S /\ S \subseteq UpTo(S, top)
    BY <1>0 DEF UpTo
  <2>2. \A j \in UpTo(S, 0) : FALSE
    BY <1>0 DEF UpTo
  <2> QED BY <2>1, <2>2
<1>4. top \in T
  BY <1>1, <1>3
<1>5. PICK m \in T : \A k \in T : m <= k
  <2>1. T \in SUBSET Nat /\ T # {}
    BY <1>4
  <2> HIDE DEF T
  <2> QED BY <2>1, LeastNatural
<1>6. m \in 0..top /\ Cardinality(UpTo(S, m)) >= n
  OBVIOUS
<1>7. m # 0
  BY <1>1, <1>3, <1>6, FS_EmptySet
<1>8. Cardinality(UpTo(S, m - 1)) < n
  <2>1. m - 1 \in 0..top /\ ~ (m <= m - 1)
    BY <1>6, <1>7
  <2>2. m - 1 \notin T
    BY <1>5, <2>1
  <2>3. Cardinality(UpTo(S, m - 1)) \in Nat
    BY <1>2
  <2> QED BY <1>1, <2>1, <2>2, <2>3
<1>9. m \in S
  <2> SUFFICES ASSUME m \notin S PROVE FALSE
    OBVIOUS
  <2>1. \A j \in S : j <= m <=> j <= m - 1
    BY <1>0, <1>6
  <2>2. UpTo(S, m) = UpTo(S, m - 1)
    BY <2>1 DEF UpTo
  <2>3. Cardinality(UpTo(S, m - 1)) \in Nat
    BY <1>2
  <2> QED BY <1>1, <1>6, <1>8, <2>2, <2>3
<1>10. Cardinality(UpTo(S, m)) <= Cardinality(UpTo(S, m - 1)) + 1
  <2>1. UpTo(S, m) = UpTo(S, m - 1) \cup {m}
    <3>1. \A j \in S : j \in Nat
      OBVIOUS
    <3>2. \A j \in S : j <= m <=> (j <= m - 1 \/ j = m)
      BY <1>6, <3>1
    <3> QED BY <1>6, <1>9, <3>2 DEF UpTo
  <2>2. IsFiniteSet(UpTo(S, m - 1)) /\ Cardinality(UpTo(S, m - 1)) \in Nat
    BY <1>2
  <2> QED BY <2>1, <2>2, FS_AddElement
<1>11. Cardinality(UpTo(S, m)) = n
  <2>1. Cardinality(UpTo(S, m - 1)) \in Nat /\ Cardinality(UpTo(S, m)) \in Nat
    BY <1>2
  <2> HIDE DEF T
  <2> QED BY <1>1, <1>6, <1>8, <1>10, <2>1
<1> QED BY <1>9, <1>11 DEF NthOf, UpTo

(* The kept places are taken in order.                                      *)
LEMMA NthIncreases ==
  ASSUME NEW top \in Nat, NEW S \in SUBSET (1..top),
         NEW k \in 1..Cardinality(S), NEW n \in 1..Cardinality(S), k < n
  PROVE  NthOf(S, k) < NthOf(S, n)
<1> DEFINE i == NthOf(S, k)
           j == NthOf(S, n)
<1>1. i \in S /\ j \in S /\ Cardinality(UpTo(S, i)) = k /\ Cardinality(UpTo(S, j)) = n
  BY NthExists
<1>2. IsFiniteSet(S)
  BY FinitePlaces
<1>8. \A l \in S : l \in Nat
  OBVIOUS
<1> HIDE DEF i, j
<1> SUFFICES ASSUME ~ (i < j) PROVE FALSE
  BY DEF i, j
<1>3. i \in Nat /\ j \in Nat /\ j <= i
  BY <1>1
<1>4. UpTo(S, j) \in SUBSET UpTo(S, i)
  <2>1. \A l \in S : l <= j => l <= i
    BY <1>3, <1>8
  <2> QED BY <2>1 DEF UpTo
<1>5. IsFiniteSet(UpTo(S, i))
  <2>1. UpTo(S, i) \in SUBSET S
    BY DEF UpTo
  <2> QED BY <1>2, <2>1, FS_Subset
<1>6. n <= k
  BY <1>1, <1>4, <1>5, FS_Subset
<1>7. Cardinality(S) \in Nat
  BY <1>2, FS_CardinalityType
<1> QED BY <1>6, <1>7

(* A list of members of the old one, in the old order and no longer.        *)
ThinnedOut(list, new, E) ==
  /\ new \in Seq(E)
  /\ Len(new) <= Len(list)
  /\ \A n \in 1..Len(new) : \E i \in 1..Len(list) : new[n] = list[i]
  /\ \A k, n \in 1..Len(new) : k < n =>
       \E i, j \in 1..Len(list) : i < j /\ new[k] = list[i] /\ new[n] = list[j]

(* That is what a filtered list is.                                         *)
LEMMA FilterProperties ==
  ASSUME NEW E, NEW list \in Seq(E), NEW id
  PROVE  ThinnedOut(list, Without(list, id), E)
<1> DEFINE kept == {i \in DOMAIN list : list[i].id # id}
           new == Without(list, id)
           c == Cardinality(kept)
<1>1. DOMAIN list = 1..Len(list) /\ Len(list) \in Nat
  OBVIOUS
<1>2. kept \in SUBSET (1..Len(list))
  BY <1>1
<1>3. c \in Nat /\ c <= Len(list)
  <2> HIDE DEF kept
  <2> QED BY <1>1, <1>2, FinitePlaces DEF c
<1>4. new = [n \in 1..c |-> list[NthOf(kept, n)]]
  BY DEF Without
<1> HIDE DEF kept, new, c
<1>5. \A n \in 1..c : NthOf(kept, n) \in 1..Len(list) /\ new[n] = list[NthOf(kept, n)]
  BY <1>1, <1>2, <1>4, NthExists DEF c
<1>6. new \in Seq(E) /\ Len(new) = c
  <2>1. \A n \in 1..c : list[NthOf(kept, n)] \in E
    BY <1>5
  <2> QED BY <1>3, <1>4, <2>1
<1>7. \A k, n \in 1..c : k < n => NthOf(kept, k) < NthOf(kept, n)
  BY <1>1, <1>2, NthIncreases DEF c
<1>8. \A k, n \in 1..c : k < n =>
        \E i, j \in 1..Len(list) : i < j /\ new[k] = list[i] /\ new[n] = list[j]
  BY <1>5, <1>7
<1> QED BY <1>3, <1>5, <1>6, <1>8 DEF new, ThinnedOut

-----------------------------------------------------------------------------
(* Lists of entries.                                                        *)

(* Every answer has its number.                                             *)
Numbered(all) ==
  /\ all \in Seq(HistoryEntry)
  /\ \A i \in 1..Len(all) : all[i].id = i

(* The list names answers of `all`, newest first, within the cap.           *)
FaithfulTo(list, all) ==
  /\ list \in Seq(HistoryEntry)
  /\ Len(list) <= MAX_HISTORY_ENTRIES
  /\ \A i \in 1..Len(list) : list[i].id \in 1..Len(all) /\ list[i] = all[list[i].id]
  /\ \A i, j \in 1..Len(list) : i < j => list[i].id > list[j].id

(* The empty list is faithful to anything.                                  *)
LEMMA EmptyFaithful ==
  ASSUME NEW all
  PROVE  FaithfulTo(<<>>, all)
BY HistoryAssumption DEF FaithfulTo

(* One more answer leaves the lists faithful.                               *)
LEMMA GrowFaithful ==
  ASSUME NEW all, Numbered(all), NEW e \in HistoryEntry, e.id = Len(all) + 1
  PROVE  /\ Numbered(Append(all, e))
         /\ Len(Append(all, e)) = Len(all) + 1 /\ Append(all, e)[Len(all) + 1] = e
         /\ \A list : FaithfulTo(list, all) => FaithfulTo(list, Append(all, e))
<1> DEFINE more == Append(all, e)
<1>1. /\ more \in Seq(HistoryEntry) /\ Len(more) = Len(all) + 1 /\ Len(all) \in Nat
      /\ more[Len(all) + 1] = e
      /\ \A i \in 1..Len(all) : more[i] = all[i]
  BY DEF Numbered
<1> HIDE DEF more
<1>2. \A i \in 1..Len(more) : i \in 1..Len(all) \/ i = Len(all) + 1
  BY <1>1
<1>3. Numbered(more)
  BY <1>1, <1>2 DEF Numbered
<1>4. ASSUME NEW list, FaithfulTo(list, all) PROVE FaithfulTo(list, more)
  <2>1. \A i \in 1..Len(list) : list[i].id \in 1..Len(more) /\ list[i] = more[list[i].id]
    BY <1>1, <1>4 DEF FaithfulTo
  <2> QED BY <1>4, <2>1 DEF FaithfulTo
<1> QED BY <1>1, <1>3, <1>4 DEF more

(* The newest answer in front of a list, cut to the cap.                    *)
Pushed(e, list) ==
  SubSeq(<<e>> \o list, 1, IF Len(<<e>> \o list) > MAX_HISTORY_ENTRIES
                           THEN MAX_HISTORY_ENTRIES ELSE Len(<<e>> \o list))

LEMMA AddFaithful ==
  ASSUME NEW list, NEW all, Numbered(all), FaithfulTo(list, all),
         NEW e \in HistoryEntry, e.id = Len(all) + 1,
         NEW new, new = Pushed(e, list)
  PROVE  FaithfulTo(new, Append(all, e)) /\ new # <<>> /\ new[1] = e
<1> DEFINE longer == <<e>> \o list
           more == Append(all, e)
           top == IF Len(longer) > MAX_HISTORY_ENTRIES THEN MAX_HISTORY_ENTRIES ELSE Len(longer)
<1>1. /\ longer \in Seq(HistoryEntry) /\ Len(longer) = Len(list) + 1 /\ longer[1] = e
      /\ \A i \in 1..Len(list) : longer[i + 1] = list[i]
      /\ Len(list) \in Nat /\ Len(all) \in Nat
  BY DEF FaithfulTo, Numbered
<1>2. /\ Len(more) = Len(all) + 1 /\ more[Len(all) + 1] = e
      /\ FaithfulTo(list, more)
  BY GrowFaithful
<1> HIDE DEF longer, more
<1>3. top \in 1..MAX_HISTORY_ENTRIES /\ top \in 1..Len(longer) /\ top \in Nat
      /\ MAX_HISTORY_ENTRIES \in Nat
  BY <1>1, HistoryAssumption
<1>4. new = SubSeq(longer, 1, top)
  BY DEF longer, Pushed
<1> HIDE DEF top
<1>5. /\ new \in Seq(HistoryEntry) /\ Len(new) = top
      /\ \A i \in 1..top : new[i] = longer[i]
  <2>1. \A i \in 1..top : longer[i] \in HistoryEntry
    BY <1>1, <1>3
  <2> QED BY <1>3, <1>4, <2>1
<1>6. \A i \in 1..top : i = 1 \/ (i - 1 \in 1..Len(list) /\ new[i] = list[i - 1])
  <2> SUFFICES ASSUME NEW i \in 1..top, i # 1
               PROVE  i - 1 \in 1..Len(list) /\ new[i] = list[i - 1]
    OBVIOUS
  <2>1. i - 1 \in 1..Len(list) /\ (i - 1) + 1 = i
    BY <1>1, <1>3
  <2> QED BY <1>1, <1>5, <2>1
<1>7. new[1] = e
  BY <1>1, <1>3, <1>5
<1>8. \A i \in 1..top : new[i].id \in 1..Len(more) /\ new[i] = more[new[i].id]
  <2> SUFFICES ASSUME NEW i \in 1..top
               PROVE  new[i].id \in 1..Len(more) /\ new[i] = more[new[i].id]
    OBVIOUS
  <2>1. CASE i = 1
    <3>1. new[i] = e
      BY <1>7, <2>1
    <3>2. e.id \in 1..Len(more) /\ e = more[e.id]
      BY <1>1, <1>2
    <3> QED BY <3>1, <3>2
  <2>2. CASE i # 1
    <3>1. i - 1 \in 1..Len(list) /\ new[i] = list[i - 1]
      BY <1>6, <2>2
    <3> QED BY <1>2, <3>1 DEF FaithfulTo
  <2> QED BY <2>1, <2>2
<1>9. \A i \in 1..Len(list) : list[i].id \in Nat /\ list[i].id < e.id
  BY <1>1 DEF FaithfulTo
<1>10. \A i, j \in 1..top : i < j => new[i].id > new[j].id
  <2> SUFFICES ASSUME NEW i \in 1..top, NEW j \in 1..top, i < j
               PROVE  new[i].id > new[j].id
    OBVIOUS
  <2>1. j # 1 /\ i \in Nat /\ j \in Nat
    BY <1>3
  <2>2. j - 1 \in 1..Len(list) /\ new[j] = list[j - 1]
    BY <1>6, <2>1
  <2>3. CASE i = 1
    BY <1>1, <1>7, <1>9, <2>2, <2>3
  <2>4. CASE i # 1
    <3>1. i - 1 \in 1..Len(list) /\ new[i] = list[i - 1]
      BY <1>6, <2>4
    <3>2. i - 1 < j - 1
      BY <2>1
    <3> HIDE DEF longer
    <3> QED BY <2>2, <3>1, <3>2 DEF FaithfulTo
  <2> QED BY <2>3, <2>4
<1>11. FaithfulTo(new, more)
  BY <1>3, <1>5, <1>8, <1>10, HistoryAssumption DEF FaithfulTo
<1>12. new # <<>>
  <2>1. Len(new) # 0
    BY <1>3, <1>5
  <2> QED BY <2>1
<1> QED BY <1>7, <1>11, <1>12 DEF more

(* A filtered list.                                                         *)
LEMMA WithoutFaithful ==
  ASSUME NEW list, NEW all, FaithfulTo(list, all), NEW id
  PROVE  FaithfulTo(Without(list, id), all)
<1> DEFINE new == Without(list, id)
<1>1. list \in Seq(HistoryEntry) /\ Len(list) <= MAX_HISTORY_ENTRIES /\ Len(list) \in Nat
  BY DEF FaithfulTo
<1>2. ThinnedOut(list, new, HistoryEntry)
  BY <1>1, FilterProperties
<1> HIDE DEF new
<1>3. Len(new) <= MAX_HISTORY_ENTRIES
  BY <1>1, <1>2, HistoryAssumption DEF ThinnedOut
<1>4. \A i \in 1..Len(new) : new[i].id \in 1..Len(all) /\ new[i] = all[new[i].id]
  BY <1>2 DEF FaithfulTo, ThinnedOut
<1>5. \A i, j \in 1..Len(new) : i < j => new[i].id > new[j].id
  BY <1>2 DEF FaithfulTo, ThinnedOut
<1> QED BY <1>2, <1>3, <1>4, <1>5 DEF FaithfulTo, ThinnedOut, new

-----------------------------------------------------------------------------
(* The invariant of the history.  The panels and a readable disk list real  *)
(* answers; without the disk's part a reload could bring up anything.  A    *)
(* page without an evaluator has no call out, which tells a reload from an  *)
(* answer that settles.                                                     *)
PanelInv ==
  /\ Numbered(answers)
  /\ entries \in [Tab -> Seq(HistoryEntry)]
  /\ \A tab \in Tab : FaithfulTo(entries[tab], answers)
  /\ disk \notin {Null, Unreadable} => FaithfulTo(disk, answers)
  /\ ReloadKeepsHistory

WiredInv == ~wired => calls = {}

(* What a reload would show is faithful.                                    *)
LEMMA LoadFaithful ==
  ASSUME PanelInv
  PROVE  FaithfulTo(LoadInitialEntries, answers)
BY EmptyFaithful DEF PanelInv, LoadInitialEntries, readJSON

(* It holds when the page has loaded for the first time.                    *)
LEMMA InitPanel == AppInit => PanelInv
<1> SUFFICES ASSUME AppInit PROVE PanelInv
  OBVIOUS
<1> DEFINE list == LoadInitialEntries
<1>1. /\ list \in Seq(HistoryEntry)
      /\ Len(list) <= MAX_HISTORY_ENTRIES
      /\ \A i \in 1..Len(list) : list[i].id = Len(list) + 1 - i
      /\ disk \notin {Null, Unreadable} => list = disk
  <2>1. CASE disk \in {Null, Unreadable}
    <3>1. list = <<>>
      BY <2>1 DEF LoadInitialEntries, readJSON
    <3> QED BY <2>1, <3>1, HistoryAssumption
  <2>2. CASE disk \notin {Null, Unreadable}
    <3>1. list = disk /\ disk \in Stored \ {Null, Unreadable}
      BY <2>2 DEF LoadInitialEntries, readJSON, AppInit
    <3>2. /\ disk \in Seq(HistoryEntry)
          /\ Len(disk) <= MAX_HISTORY_ENTRIES
          /\ \A i \in DOMAIN disk : disk[i].id = Len(disk) + 1 - i
      BY <3>1, HistoryAssumption
    <3> QED BY <3>1, <3>2
  <2> QED BY <2>1, <2>2
<1>2. answers = [i \in 1..Len(list) |-> list[Len(list) + 1 - i]]
      /\ entries = [tab \in Tab |-> list]
  BY <1>1 DEF AppInit
<1>3. ReloadKeepsHistory
  BY <1>2 DEF ReloadKeepsHistory, Tab
<1> HIDE DEF list
<1>4. Len(list) \in Nat
  BY <1>1
<1>5. \A i \in 1..Len(list) : Len(list) + 1 - i \in 1..Len(list)
                               /\ Len(list) + 1 - (Len(list) + 1 - i) = i
  BY <1>4
<1>6. answers \in Seq(HistoryEntry) /\ Len(answers) = Len(list)
      /\ \A i \in 1..Len(list) : answers[i] = list[Len(list) + 1 - i]
  BY <1>1, <1>2, <1>4, <1>5
<1>7. Numbered(answers)
  BY <1>1, <1>5, <1>6 DEF Numbered
<1>8. FaithfulTo(list, answers)
  <2>1. \A i \in 1..Len(list) : list[i].id \in 1..Len(answers) /\ list[i] = answers[list[i].id]
    BY <1>1, <1>5, <1>6
  <2>2. \A i, j \in 1..Len(list) : i < j => list[i].id > list[j].id
    BY <1>1, <1>4
  <2> QED BY <1>1, <2>1, <2>2 DEF FaithfulTo
<1>9. entries \in [Tab -> Seq(HistoryEntry)] /\ \A tab \in Tab : FaithfulTo(entries[tab], answers)
  BY <1>1, <1>2, <1>8
<1> QED BY <1>1, <1>3, <1>7, <1>8, <1>9 DEF PanelInv

(* A change of one panel, with its write to the disk.                       *)
LEMMA SetEntriesPanel ==
  ASSUME PanelInv, NEW tab \in Tab, NEW list, SetEntries(tab, list),
         Numbered(answers'), FaithfulTo(list, answers'),
         \A l : FaithfulTo(l, answers) => FaithfulTo(l, answers')
  PROVE  PanelInv' /\ entries'[tab] = list
<1>1. list \in Seq(HistoryEntry)
  BY DEF FaithfulTo
<1>2. /\ entries' \in [Tab -> Seq(HistoryEntry)] /\ entries'[tab] = list
      /\ \A other \in Tab \ {tab} : entries'[other] = entries[other]
  BY <1>1 DEF PanelInv, SetEntries
<1>3. \A t \in Tab : FaithfulTo(entries'[t], answers')
  BY <1>2 DEF PanelInv
<1>4. CASE disk' = list /\ owner' = tab
  <2>1. disk' \notin {Null, Unreadable}
    BY <1>1, <1>4, HistoryAssumption
  <2>2. ReloadKeepsHistory'
    BY <1>2, <1>4, <2>1 DEF ReloadKeepsHistory, LoadInitialEntries, readJSON
  <2> QED BY <1>2, <1>3, <1>4, <2>2 DEF PanelInv
<1>5. CASE disk' = disk /\ owner' = IF owner = tab THEN "neither" ELSE owner
  <2>1. ASSUME owner' = "this" PROVE LoadInitialEntries' = entries'["this"]
    <3>1. owner = "this" /\ tab # "this"
      BY <1>5, <2>1
    <3>2. LoadInitialEntries' = LoadInitialEntries
      BY <1>5 DEF LoadInitialEntries, readJSON
    <3>3. entries'["this"] = entries["this"]
      BY <1>2, <3>1 DEF Tab
    <3> QED BY <3>1, <3>2, <3>3 DEF PanelInv, ReloadKeepsHistory
  <2>2. disk' \notin {Null, Unreadable} => FaithfulTo(disk', answers')
    BY <1>5 DEF PanelInv
  <2> QED BY <1>2, <1>3, <2>1, <2>2 DEF PanelInv, ReloadKeepsHistory
<1> QED BY <1>2, <1>4, <1>5 DEF SetEntries, writeJSON

(* add() keeps it, and the newest entry of the panel is the new one.        *)
LEMMA AddPanel ==
  ASSUME PanelInv, NEW tab \in Tab, NEW request \in CalculateRequest, NEW result \in Response,
         Add(tab, request, result)
  PROVE  /\ PanelInv'
         /\ entries'[tab] # <<>>
         /\ entries'[tab][1].request = request /\ entries'[tab][1].result = result
<1>e. PICK e : e = NewEntry(request, result)
  OBVIOUS
<1>l. PICK list : list = entries[tab]
  OBVIOUS
<1>1. e \in HistoryEntry /\ e.id = Len(answers) + 1 /\ e.request = request /\ e.result = result
  <2>1. Len(answers) + 1 \in Nat
    BY DEF PanelInv, Numbered
  <2> QED BY <1>e, <2>1 DEF NewEntry, HistoryEntry
<1>2. Numbered(answers) /\ FaithfulTo(list, answers)
  BY <1>l DEF PanelInv
<1>3. PICK new : new = Pushed(e, list)
  OBVIOUS
<1>4. answers' = Append(answers, e) /\ SetEntries(tab, new)
  BY <1>e, <1>l, <1>3 DEF Add, Pushed
<1>5. FaithfulTo(new, Append(answers, e)) /\ new # <<>> /\ new[1] = e
  BY <1>1, <1>2, <1>3, AddFaithful
<1>6. Numbered(answers') /\ \A l : FaithfulTo(l, answers) => FaithfulTo(l, answers')
  BY <1>1, <1>2, <1>4, GrowFaithful
<1>7. PanelInv' /\ entries'[tab] = new
  BY <1>4, <1>5, <1>6, SetEntriesPanel
<1> QED BY <1>1, <1>5, <1>7

(* remove() and clear() keep it.                                            *)
LEMMA RemovePanel ==
  ASSUME PanelInv, NEW tab \in Tab, NEW id, Remove(tab, id)
  PROVE  PanelInv'
<1>1. PICK list : list = Without(entries[tab], id)
  OBVIOUS
<1>2. FaithfulTo(list, answers)
  BY <1>1, WithoutFaithful DEF PanelInv
<1>3. SetEntries(tab, list) /\ answers' = answers
  BY <1>1 DEF Remove
<1> QED BY <1>2, <1>3, SetEntriesPanel DEF PanelInv

LEMMA ClearPanel ==
  ASSUME PanelInv, NEW tab \in Tab, Clear(tab)
  PROVE  PanelInv'
<1>1. SetEntries(tab, <<>>) /\ answers' = answers /\ FaithfulTo(<<>>, answers)
  BY EmptyFaithful DEF Clear
<1> QED BY <1>1, SetEntriesPanel DEF PanelInv

(* So does a reload of either tab.                                          *)
LEMMA LoadPanel ==
  ASSUME PanelInv, NEW tab \in Tab, Load(tab)
  PROVE  PanelInv'
<1>1. PICK list : list = LoadInitialEntries
  OBVIOUS
<1>2. FaithfulTo(list, answers)
  BY <1>1, LoadFaithful
<1>3. /\ entries' = [entries EXCEPT ![tab] = list]
      /\ owner' = IF tab = "this" THEN "this" ELSE owner
      /\ disk' = disk /\ answers' = answers
      /\ LoadInitialEntries' = list
  BY <1>1 DEF Load, LoadInitialEntries, readJSON
<1>4. /\ entries' \in [Tab -> Seq(HistoryEntry)] /\ entries'[tab] = list
      /\ \A other \in Tab \ {tab} : entries'[other] = entries[other]
  BY <1>2, <1>3 DEF PanelInv, FaithfulTo
<1>5. \A t \in Tab : FaithfulTo(entries'[t], answers')
  BY <1>2, <1>3, <1>4 DEF PanelInv
<1>6. owner' = "this" => list = entries'["this"]
  <2>1. CASE tab = "this"
    BY <1>4, <2>1
  <2>2. CASE tab # "this"
    BY <1>1, <1>3, <1>4, <2>2 DEF PanelInv, ReloadKeepsHistory, Tab
  <2> QED BY <2>1, <2>2
<1>7. ReloadKeepsHistory'
  BY <1>3, <1>6 DEF ReloadKeepsHistory
<1> QED BY <1>3, <1>4, <1>5, <1>7 DEF PanelInv

(* Steps that leave the history alone keep it.                              *)
LEMMA SamePanel ==
  ASSUME PanelInv, UNCHANGED <<entries, disk, owner, answers>>
  PROVE  PanelInv'
BY DEF PanelInv, ReloadKeepsHistory, LoadInitialEntries, readJSON

-----------------------------------------------------------------------------
(* The store under the page's steps.                                        *)

HistoryInv == Inv /\ PanelInv /\ WiredInv

(* A reload starts the store again, with the tickets of the old page spent. *)
LEMMA ReloadInv ==
  ASSUME Inv, Reload
  PROVE  Inv'
<1>1. /\ calc' = initialState /\ pending' = FALSE /\ errorRequestId' = Null /\ canRetry' = FALSE
      /\ wired' = FALSE /\ ticket' = ticket /\ lastSentRequest' = Null /\ calls' = {}
  BY DEF Reload
<1>2. Settled(calc') /\ calc' \in CalcState
  BY <1>1, InitialStateSettled DEF Settled, Waiting
<1>3. TypeOK'
  <2>1. pending' \in BOOLEAN /\ canRetry' \in BOOLEAN /\ wired' \in BOOLEAN
    BY <1>1
  <2>2. ticket' \in 0..MaxTicket /\ calls' \in SUBSET Call
    BY <1>1 DEF Inv, TypeOK
  <2> QED BY <1>1, <1>2, <2>1, <2>2, Zenon DEF TypeOK
<1>4. CalcInv'
  BY <1>2 DEF CalcInv, Settled
<1> QED BY <1>1, <1>3, <1>4 DEF Inv, RequestInv, TicketInv, BusyIffCurrentCallOut, ErrorIdIsCurrent

(* Every other step of the page is a step of the store, or none.            *)
LEMMA AppStep ==
  ASSUME PanelInv, AppNext
  PROVE  [Next]_vars \/ Reload
<1>1. CASE Mount
  BY <1>1 DEF Mount, Next
<1>2. CASE /\ \/ wired /\ (Key \/ PressClearAll \/ Retry)
              \/ \E call \in calls : \E outcome \in Outcome : Answer(call, outcome)
           /\ UNCHANGED historyVars
  BY <1>2 DEF Next
<1>3. CASE \E call \in calls : SettleRecorded(call)
  BY <1>3 DEF SettleRecorded, Next
<1>4. CASE \E i \in DOMAIN entries["this"] :
             wired /\ (RecallEntry(entries["this"][i]) \/ RemoveEntry(entries["this"][i]))
  <2>1. PICK i \in DOMAIN entries["this"] :
          RecallEntry(entries["this"][i]) \/ RemoveEntry(entries["this"][i])
    BY <1>4
  <2>2. entries["this"] \in Seq(HistoryEntry)
    BY DEF PanelInv, Tab
  <2>3. entries["this"][i] \in HistoryEntry
    BY <2>2
  <2>4. entries["this"][i].result \in Response
    BY <2>3 DEF HistoryEntry
  <2>5. CASE RecallEntry(entries["this"][i])
    BY <2>4, <2>5 DEF RecallEntry, Next
  <2>6. CASE RemoveEntry(entries["this"][i])
    BY <2>6 DEF RemoveEntry
  <2> QED BY <2>1, <2>5, <2>6
<1>5. CASE wired /\ (ClickClear \/ CancelClear)
  BY <1>5 DEF ClickClear, CancelClear, Next
<1>6. CASE OtherTab
  BY <1>6 DEF OtherTab
<1> QED BY <1>1, <1>2, <1>3, <1>4, <1>5, <1>6 DEF AppNext

(* The store's invariant, and that a page without an evaluator waits for    *)
(* nothing.                                                                 *)
LEMMA StoreStep ==
  ASSUME HistoryInv, AppNext
  PROVE  Inv'
BY AppStep, NextInv, ReloadInv DEF HistoryInv

(* A key sends only with an evaluator.                                      *)
LEMMA InputWired ==
  ASSUME WiredInv, Key \/ Retry, wired
  PROVE  wired'
BY DEF Key, PressDigit, PressDecimal, PressSign, PressBackspace, PressClearEntry,
       PressOperator, PressEquals, PressUnary, Retry, Input, Apply, Send

LEMMA WiredStep ==
  ASSUME WiredInv, AppNext
  PROVE  WiredInv'
<1>1. CASE Mount
  BY <1>1 DEF Mount, SetEvaluator, WiredInv
<1>2. CASE wired /\ (Key \/ Retry)
  BY <1>2, InputWired DEF WiredInv
<1>3. CASE PressClearAll
  BY <1>3 DEF PressClearAll, WiredInv
<1>4. CASE \E call \in calls : \E outcome \in Outcome : Answer(call, outcome)
  BY <1>4 DEF Answer, WiredInv
<1>5. CASE \E call \in calls : SettleRecorded(call)
  BY <1>5 DEF SettleRecorded, Settle, WiredInv
<1>6. CASE \E i \in DOMAIN entries["this"] :
             wired /\ (RecallEntry(entries["this"][i]) \/ RemoveEntry(entries["this"][i]))
  BY <1>6 DEF RecallEntry, RemoveEntry, Recall, vars, WiredInv
<1>7. CASE wired /\ (ClickClear \/ CancelClear)
  BY <1>3, <1>7 DEF ClickClear, CancelClear, vars, WiredInv
<1>8. CASE Reload
  BY <1>8 DEF Reload, WiredInv
<1>9. CASE OtherTab
  BY <1>9 DEF OtherTab, vars, WiredInv
<1> QED BY <1>1, <1>2, <1>3, <1>4, <1>5, <1>6, <1>7, <1>8, <1>9 DEF AppNext

(* An answer that settles is recorded, with the request it answers.         *)
LEMMA SettleRecords ==
  ASSUME HistoryInv, NEW call \in calls, SettleRecorded(call)
  PROVE  /\ PanelInv'
         /\ call.outcome.ok => /\ entries'["this"] # <<>>
                               /\ entries'["this"][1].request = call.request
                               /\ entries'["this"][1].result = call.outcome.result
<1>1. CASE call.outcome.ok
  <2>1. call \in Call /\ call.outcome \in Outcome
    BY DEF HistoryInv, Inv, TypeOK, SettleRecorded, Settle, Call
  <2>2. call.request \in CalculateRequest
    BY <2>1 DEF Call
  <2>3. call.outcome.result \in Response
    BY <1>1, <2>1 DEF Outcome
  <2>4. Add("this", call.request, call.outcome.result)
    BY <1>1 DEF SettleRecorded
  <2> QED BY <2>2, <2>3, <2>4, AddPanel DEF HistoryInv, Tab
<1>2. CASE ~call.outcome.ok
  BY <1>2, SamePanel DEF SettleRecorded, historyVars, HistoryInv
<1> QED BY <1>1, <1>2

(* What the other tab sends is a request.                                   *)
LEMMA SqrtOfOne == SqrtRequest(One) \in CalculateRequest
BY NumberAssumption DEF SqrtRequest, CalculateRequest, UnaryKey

LEMMA PanelStep ==
  ASSUME HistoryInv, AppNext
  PROVE  PanelInv'
<1>0. PanelInv
  BY DEF HistoryInv
<1>1. CASE UNCHANGED historyVars
  BY <1>0, <1>1, SamePanel DEF historyVars
<1>2. CASE \E call \in calls : SettleRecorded(call)
  BY <1>2, SettleRecords
<1>3. CASE \E i \in DOMAIN entries["this"] : RemoveEntry(entries["this"][i])
  BY <1>0, <1>3, RemovePanel DEF RemoveEntry, Tab
<1>4. CASE ClickClear
  <2>1. CASE UNCHANGED <<entries, disk, owner, answers>>
    BY <1>0, <2>1, SamePanel
  <2>2. CASE Clear("this")
    BY <1>0, <2>2, ClearPanel DEF Tab
  <2> QED BY <1>4, <2>1, <2>2 DEF ClickClear
<1>5. CASE CancelClear
  BY <1>0, <1>5, SamePanel DEF CancelClear
<1>6. CASE Reload
  BY <1>0, <1>6, LoadPanel DEF Reload, Tab
<1>7. CASE OtherTab
  <2>1. CASE \E result \in Response : Add("other", SqrtRequest(One), result)
    BY <1>0, <2>1, AddPanel, SqrtOfOne DEF Tab
  <2>2. CASE \E i \in DOMAIN entries["other"] : Remove("other", entries["other"][i].id)
    BY <1>0, <2>2, RemovePanel DEF Tab
  <2>3. CASE Clear("other")
    BY <1>0, <2>3, ClearPanel DEF Tab
  <2>4. CASE Load("other")
    BY <1>0, <2>4, LoadPanel DEF Tab
  <2> QED BY <1>7, <2>1, <2>2, <2>3, <2>4 DEF OtherTab
<1> QED BY <1>1, <1>2, <1>3, <1>4, <1>5, <1>6, <1>7 DEF AppNext, Mount, RecallEntry

(* The whole invariant, and that every step keeps it.                       *)
LEMMA HistoryInitInv == AppInit => HistoryInv
BY InitInv, InitPanel DEF AppInit, Init, HistoryInv, WiredInv

LEMMA HistoryNextInv == HistoryInv /\ [AppNext]_allVars => HistoryInv'
<1> SUFFICES ASSUME HistoryInv, [AppNext]_allVars PROVE HistoryInv'
  OBVIOUS
<1>1. CASE AppNext
  BY <1>1, StoreStep, PanelStep, WiredStep DEF HistoryInv
<1>2. CASE UNCHANGED allVars
  <2>1. UNCHANGED vars /\ UNCHANGED historyVars
    BY <1>2 DEF allVars
  <2>2. Inv'
    BY <2>1, NextInv DEF HistoryInv
  <2>3. PanelInv'
    BY <2>1, SamePanel DEF HistoryInv, historyVars
  <2>4. WiredInv'
    BY <2>1 DEF HistoryInv, WiredInv, vars
  <2> QED BY <2>2, <2>3, <2>4 DEF HistoryInv
<1> QED BY <1>1, <1>2

THEOREM HistoryInvariance == AppSpec => []HistoryInv
BY HistoryInitInv, HistoryNextInv, PTL DEF AppSpec

(* The store keeps its invariant, and so its types and its busy flag, when  *)
(* it is wired to the history and its page reloads.                         *)
THEOREM WiredStoreCorrect == AppSpec => [](TypeOK /\ BusyIffCurrentCallOut /\ OperandsPresent)
<1>1. HistoryInv => TypeOK /\ BusyIffCurrentCallOut /\ OperandsPresent
  BY DEF HistoryInv, Inv, CalcInv, Settled, Waiting, OperandsPresent
<1> QED BY <1>1, HistoryInvariance, PTL

(* Either panel lists answers the server really gave, each at most once,    *)
(* newest first and never more than the cap.                                *)
THEOREM HistoryCorrect == AppSpec => []HistoryIsFaithful
<1>1. HistoryInv => HistoryIsFaithful
  <2> SUFFICES ASSUME PanelInv, NEW tab \in Tab
               PROVE  LET panel == entries[tab]
                      IN  /\ panel \in Seq(HistoryEntry)
                          /\ Len(panel) <= MAX_HISTORY_ENTRIES
                          /\ \A i \in DOMAIN panel : panel[i] = answers[panel[i].id]
                          /\ \A i, j \in DOMAIN panel : i < j => panel[i].id > panel[j].id
    BY DEF HistoryInv, HistoryIsFaithful
  <2>1. FaithfulTo(entries[tab], answers)
    BY DEF PanelInv
  <2>2. DOMAIN entries[tab] = 1..Len(entries[tab])
    BY <2>1 DEF FaithfulTo
  <2> QED BY <2>1, <2>2 DEF FaithfulTo
<1> QED BY <1>1, HistoryInvariance, PTL

(* Unless the last write was refused or the other tab has written since, a  *)
(* reload brings back exactly the panel the user saw.                       *)
THEOREM ReloadCorrect == AppSpec => []ReloadKeepsHistory
<1>1. HistoryInv => ReloadKeepsHistory
  BY DEF HistoryInv, PanelInv
<1> QED BY <1>1, HistoryInvariance, PTL

(* A result the machine takes is what it displays.                          *)
LEMMA ResultIsShown ==
  ASSUME NEW s \in CalcState, NEW value
  PROVE  ApplyResult(s, value).state.display = StringOf(value)
<1>1. CASE s.phase \in Entering
  BY <1>1 DEF ApplyResult, Stay, CalcState, Entering
<1>2. CASE s.phase \in {"operatorSelected", "result"}
  BY <1>2 DEF ApplyResult, Stay, CalcState, Entering
<1>3. CASE s.phase \in {"idle", "error"}
  BY <1>3 DEF ApplyResult, Stay, CalcState, Entering, initialState
<1> QED BY <1>1, <1>2, <1>3 DEF CalcState, Phase, Entering

(* Only an answer that settles takes its call away and leaves the others.   *)
LEMMA OnlySettling ==
  ASSUME HistoryInv, AppNext, NEW call \in calls, Settle(call)
  PROVE  SettleRecorded(call)
<1>0. calls' = calls \ {call} /\ wired' = wired /\ wired /\ call.outcome # Null /\ calls' # calls
  BY DEF Settle, HistoryInv, WiredInv
<1>1. ~Mount
  BY <1>0 DEF Mount
<1>2. ~(Key \/ PressClearAll \/ Retry)
  <2>1. call \notin calls'
    BY <1>0
  <2>2. ASSUME NEW state, NEW request, Send(state, request) PROVE FALSE
    BY <2>1, <2>2 DEF Send
  <2>3. ASSUME NEW t, Input(t) PROVE FALSE
    BY <1>0, <2>2, <2>3 DEF Input, Apply
  <2>4. ~Key
    BY <2>3 DEF Key, PressDigit, PressDecimal, PressSign, PressBackspace, PressClearEntry,
                PressOperator, PressEquals, PressUnary
  <2>5. ~PressClearAll /\ ~Retry
    BY <1>0, <2>2 DEF PressClearAll, Retry
  <2> QED BY <2>4, <2>5
<1>3. ASSUME NEW other \in calls, NEW outcome \in Outcome, Answer(other, outcome) PROVE FALSE
  <2>1. calls' = (calls \ {other}) \cup {[other EXCEPT !.outcome = outcome]}
        /\ other.outcome = Null
    BY <1>3 DEF Answer
  <2>2. call # other
    BY <1>0, <2>1
  <2> QED BY <1>0, <2>1, <2>2
<1>4. ASSUME NEW other \in calls, SettleRecorded(other) PROVE other = call
  BY <1>0, <1>4 DEF SettleRecorded, Settle
<1>5. ASSUME NEW entry, RecallEntry(entry) \/ RemoveEntry(entry) PROVE FALSE
  BY <1>0, <1>5 DEF RecallEntry, Recall, RemoveEntry, vars
<1>6. ~ClickClear /\ ~CancelClear
  BY <1>0, <1>2 DEF ClickClear, CancelClear, vars
<1>7. ~Reload
  BY <1>0 DEF Reload
<1>8. ~OtherTab
  BY <1>0 DEF OtherTab, vars
<1> QED BY <1>1, <1>2, <1>3, <1>4, <1>5, <1>6, <1>7, <1>8 DEF AppNext

(* Every successful response becomes the newest entry of the panel, also    *)
(* when AC made it too late for the display; in time, both show the same.   *)
THEOREM RecordedCorrect == AppSpec => AnswersAreRecorded
<1> DEFINE Recorded(call) ==
             /\ entries'["this"] # <<>>
             /\ entries'["this"][1].request = call.request
             /\ entries'["this"][1].result = call.outcome.result
             /\ call.ticket = ticket => calc'.display = StringOf(entries'["this"][1].result)
<1>1. ASSUME HistoryInv, [AppNext]_allVars, NEW call \in calls, Settle(call), call.outcome.ok
      PROVE  Recorded(call)
  <2>1. AppNext
    BY <1>1 DEF allVars, vars, Settle
  <2>2. SettleRecorded(call)
    BY <1>1, <2>1, OnlySettling
  <2>3. /\ entries'["this"] # <<>>
        /\ entries'["this"][1].request = call.request
        /\ entries'["this"][1].result = call.outcome.result
    BY <1>1, <2>2, SettleRecords
  <2>4. ASSUME call.ticket = ticket PROVE calc'.display = StringOf(call.outcome.result)
    <3>1. calc' = ApplyResult(calc, call.outcome.result).state
      BY <1>1, <2>4 DEF Settle, ShowResult
    <3>2. calc \in CalcState
      BY <1>1 DEF HistoryInv, Inv, TypeOK
    <3> QED BY <3>1, <3>2, ResultIsShown
  <2> QED BY <2>3, <2>4
<1>2. HistoryInv /\ [AppNext]_allVars =>
        [\A call \in calls : Settle(call) /\ call.outcome.ok => Recorded(call)]_allVars
  BY <1>1
<1> QED BY <1>2, HistoryInvariance, PTL DEF AppSpec, AnswersAreRecorded

=============================================================================
