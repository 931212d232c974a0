--------------------------- MODULE RateLimiterProofs ---------------------------
(****************************************************************************)
(* The types of RateLimiter and, as long as a request is served within the  *)
(* tick it read the clock, one bucket per client, the budget of every       *)
(* client in every window of time and the fairness of the sweep, for any    *)
(* clients, goroutines and settings.                                        *)
(****************************************************************************)
EXTENDS RateLimiter, TLAPS

LimiterType == [tokens : Int, last : Int, lastEvent : Int]

ServingType ==
  [at : {"idle", "lookup", "reserve", "cancel"}, client : Client \cup {None}, now : 0..MaxTime,
   bucket : Bucket \cup {None}, timeToAct : Int]

TypesInv ==
  /\ clock \in 0..MaxTime
  /\ buckets \in [Client -> Bucket \cup {None}]
  /\ inserts \in 0..MaxInserts
  /\ lastSeen \in [Bucket -> 0..MaxTime]
  /\ limiter \in [Bucket -> LimiterType]
  /\ \A b \in Bucket : limiter[b].tokens <= Full
  /\ serving \in [Proc -> ServingType]

(* What a goroutine holds, from step to step of allow().                    *)
ServingInv ==
  \A p \in Proc :
    /\ serving[p].at # "idle" => serving[p].client \in Client
    /\ serving[p].at \in {"idle", "lookup"} => serving[p].bucket = None
    /\ serving[p].at \in {"reserve", "cancel"} => serving[p].bucket \in 1..inserts

(* The buckets in the map are among those made.                             *)
MapInv == \A c \in Client : buckets[c] # None => buckets[c] \in 1..inserts

(* A request judged by the current clock has its bucket in the map, and the *)
(* bucket was seen just now, so that no sweep of the same tick takes it.    *)
SeenInv ==
  Prompt =>
    /\ OneBucketPerClient
    /\ \A p \in Proc :
         /\ serving[p].at # "idle" => serving[p].now = clock
         /\ serving[p].bucket # None => lastSeen[serving[p].bucket] = clock

Inv == TypesInv /\ ServingInv /\ MapInv /\ SeenInv

-----------------------------------------------------------------------------
(* What the assumption says.                                                *)
LEMMA Constants ==
  /\ Burst \in Nat /\ Cost \in Nat /\ TTL \in Nat /\ SweepEvery \in Nat
  /\ MaxTime \in Nat /\ MaxInserts \in Nat
  /\ Full \in Nat /\ Prompt \in BOOLEAN
  /\ None \notin Nat /\ None \notin Client
<1>1. {Burst, Cost, TTL, SweepEvery} \subseteq Nat \ {0}
  BY RateAssumption
<1>2. Burst \in Nat /\ Cost \in Nat /\ TTL \in Nat /\ SweepEvery \in Nat
  BY <1>1
<1>3. {MaxTime, MaxInserts, MaxDebt} \subseteq Nat
  BY RateAssumption
<1>4. \A m, n \in Nat : m * n \in Nat
  OBVIOUS
<1>5. Full \in Nat
  BY <1>2, <1>4 DEF Full
<1>6. QED
  BY <1>2, <1>3, <1>5, RateAssumption

(* Capped() never returns more than a full bucket.                          *)
LEMMA CappedBound ==
  ASSUME NEW credit \in Int
  PROVE  Capped(credit) \in Int /\ Capped(credit) <= Full
  BY Constants DEF Capped

(* The credit of a limiter at a time.                                       *)
LEMMA AdvanceBound ==
  ASSUME NEW lim \in LimiterType, NEW t \in Int
  PROVE  Advance(lim, t) \in Int /\ Advance(lim, t) <= Full
<1> DEFINE credit == lim.tokens + IF t < lim.last THEN 0 ELSE t - lim.last
<1>1. credit \in Int
  BY DEF LimiterType
<1>2. QED
  BY <1>1, CappedBound DEF Advance

(* A reservation never raises the credit above a full bucket.               *)
LEMMA ReserveNBound ==
  ASSUME NEW lim \in LimiterType, NEW t \in Int
  PROVE  ReserveN(lim, t) \in LimiterType /\ ReserveN(lim, t).tokens <= Full
<1>1. Advance(lim, t) \in Int /\ Advance(lim, t) <= Full
  BY AdvanceBound
<1>2. Wait(lim, t) \in Int
  BY <1>1, Constants DEF Wait
<1>3. QED
  BY <1>1, <1>2, Constants DEF ReserveN, LimiterType

(* Nor does giving a reservation back.                                      *)
LEMMA CancelAtBound ==
  ASSUME NEW lim \in LimiterType, lim.tokens <= Full, NEW timeToAct \in Int, NEW t \in Int
  PROVE  CancelAt(lim, timeToAct, t) \in LimiterType
         /\ CancelAt(lim, timeToAct, t).tokens <= Full
<1> DEFINE restore == Cost - (lim.lastEvent - timeToAct)
<1>1. lim.lastEvent \in Int /\ restore \in Int /\ timeToAct - Cost \in Int
  BY Constants DEF LimiterType
<1>2. Advance(lim, t) + restore \in Int
  BY <1>1, AdvanceBound
<1>3. /\ Capped(Advance(lim, t) + restore) \in Int
      /\ Capped(Advance(lim, t) + restore) <= Full
  BY <1>2, CappedBound
<1> HIDE DEF restore
<1>4. CASE timeToAct < t \/ restore <= 0
  BY <1>4 DEF CancelAt, restore
<1>5. CASE ~(timeToAct < t \/ restore <= 0)
  BY <1>1, <1>3, <1>5 DEF CancelAt, restore, LimiterType
<1>6. QED
  BY <1>4, <1>5

-----------------------------------------------------------------------------
(* The initial states satisfy the invariant.                                *)
LEMMA InitInv == Init => Inv
<1> SUFFICES ASSUME Init PROVE Inv
  OBVIOUS
<1> USE Constants
<1>1. Idle \in ServingType
  BY DEF Idle, ServingType
<1>2. TypesInv
  <2>1. clock \in 0..MaxTime /\ inserts \in 0..MaxInserts
    BY DEF Init
  <2>2. buckets \in [Client -> Bucket \cup {None}] /\ lastSeen \in [Bucket -> 0..MaxTime]
    BY DEF Init
  <2>3. limiter \in [Bucket -> LimiterType] /\ \A b \in Bucket : limiter[b].tokens <= Full
    BY DEF Init, LimiterType
  <2>4. serving \in [Proc -> ServingType]
    BY <1>1 DEF Init
  <2>5. QED
    BY <2>1, <2>2, <2>3, <2>4 DEF TypesInv
<1>3. ServingInv
  BY DEF Init, Idle, ServingInv
<1>4. MapInv
  BY DEF Init, MapInv
<1>5. SeenInv
  BY DEF Init, Idle, SeenInv, OneBucketPerClient
<1>6. QED
  BY <1>2, <1>3, <1>4, <1>5 DEF Inv

(* A request that comes in holds no bucket yet.                             *)
LEMMA ArriveStep ==
  ASSUME Inv, NEW p \in Proc, NEW c \in Client, Arrive(p, c) PROVE Inv'
<1> DEFINE request == [Idle EXCEPT !.at = "lookup", !.client = c, !.now = clock]
<1>1. Idle \in ServingType /\ Idle.bucket = None
  BY Constants DEF Idle, ServingType
<1>2. /\ request \in ServingType /\ request.at = "lookup" /\ request.client = c
      /\ request.now = clock /\ request.bucket = None
  BY <1>1 DEF ServingType, Inv, TypesInv
<1> HIDE DEF request
<1>3. /\ serving' = [serving EXCEPT ![p] = request]
      /\ UNCHANGED <<clock, buckets, inserts, lastSeen, limiter>>
  BY Zenon DEF Arrive, request
<1>4. TypesInv'
  BY <1>2, <1>3 DEF Inv, TypesInv
<1>5. \A q \in Proc : serving'[q] = IF q = p THEN request ELSE serving[q]
  BY <1>3 DEF Inv, TypesInv
<1>6. ServingInv' /\ MapInv'
  BY <1>1, <1>2, <1>3, <1>5 DEF Inv, ServingInv, MapInv
<1>7. SeenInv'
  BY <1>1, <1>2, <1>3, <1>5 DEF Inv, SeenInv, OneBucketPerClient
<1>8. QED
  BY <1>4, <1>6, <1>7 DEF Inv

(* The lookup: the bucket it finds or makes is the one in the map, and what *)
(* a sweep drops has not been seen in this tick.                            *)
LEMMA LookupStep ==
  ASSUME Inv, NEW p \in Proc, Lookup(p) PROVE Inv'
<1> DEFINE c == serving[p].client
           now == serving[p].now
           isNew == buckets[c] = None
           b == IF isNew THEN inserts + 1 ELSE buckets[c]
           seen == [lastSeen EXCEPT ![b] = now]
           added == [buckets EXCEPT ![c] = b]
<1> USE Constants
<1>1. /\ serving[p].at = "lookup"
      /\ isNew => inserts < MaxInserts
      /\ inserts' = IF isNew THEN inserts + 1 ELSE inserts
      /\ lastSeen' = seen
      /\ buckets' = IF isNew /\ inserts' % SweepEvery = 0 THEN Swept(added, seen, now) ELSE added
      /\ serving' = [serving EXCEPT ![p].at = "reserve", ![p].bucket = b]
      /\ UNCHANGED <<clock, limiter>>
  BY Zenon DEF Lookup
<1>2. c \in Client /\ now \in 0..MaxTime /\ serving[p] \in ServingType
  BY <1>1 DEF Inv, TypesInv, ServingInv, ServingType
<1>3. /\ b \in Bucket /\ b # None /\ b \in 1..inserts'
      /\ inserts' \in 0..MaxInserts /\ inserts <= inserts'
  BY <1>1, <1>2 DEF Inv, TypesInv, Bucket, MapInv
<1>4. /\ seen \in [Bucket -> 0..MaxTime] /\ seen[b] = now
      /\ \A other \in Bucket : other # b => seen[other] = lastSeen[other]
  BY <1>2, <1>3 DEF Inv, TypesInv
<1>5. /\ added \in [Client -> Bucket \cup {None}] /\ added[c] = b
      /\ \A d \in Client : d # c => added[d] = buckets[d]
  BY <1>2, <1>3 DEF Inv, TypesInv
<1> HIDE DEF b, seen, added
<1>6. /\ Swept(added, seen, now) \in [Client -> Bucket \cup {None}]
      /\ \A d \in Client : Swept(added, seen, now)[d] \in {added[d], None}
      /\ \A d \in Client : added[d] # None /\ seen[added[d]] = now =>
           Swept(added, seen, now)[d] = added[d]
  <2>1. \A d \in Client : added[d] \in Bucket \cup {None}
    BY <1>5
  <2>2. now - now <= TTL /\ ~(now - now > TTL)
    BY <1>2
  <2>3. QED
    BY <2>1, <2>2 DEF Swept
<1>7. /\ buckets' \in [Client -> Bucket \cup {None}]
      /\ \A d \in Client : buckets'[d] \in {added[d], None}
      /\ \A d \in Client : added[d] # None /\ seen[added[d]] = now => buckets'[d] = added[d]
  BY <1>1, <1>5, <1>6
<1>8. /\ serving' \in [Proc -> ServingType]
      /\ serving'[p].at = "reserve" /\ serving'[p].client = c /\ serving'[p].now = now
      /\ serving'[p].bucket = b
      /\ \A q \in Proc : q # p => serving'[q] = serving[q]
  <2>1. [serving[p] EXCEPT !.at = "reserve", !.bucket = b] \in ServingType
    BY <1>2, <1>3 DEF ServingType
  <2>2. serving' = [serving EXCEPT ![p] = [serving[p] EXCEPT !.at = "reserve", !.bucket = b]]
    BY <1>1
  <2>3. QED
    BY <1>2, <2>1, <2>2 DEF Inv, TypesInv, ServingType
<1> HIDE DEF c, now, isNew
<1>9. TypesInv'
  BY <1>1, <1>3, <1>4, <1>7, <1>8 DEF Inv, TypesInv
<1>10. ServingInv'
  <2> SUFFICES ASSUME NEW q \in Proc
               PROVE  /\ serving'[q].at # "idle" => serving'[q].client \in Client
                      /\ serving'[q].at \in {"idle", "lookup"} => serving'[q].bucket = None
                      /\ serving'[q].at \in {"reserve", "cancel"} =>
                           serving'[q].bucket \in 1..inserts'
    BY DEF ServingInv
  <2>1. CASE q = p
    BY <1>2, <1>3, <1>8, <2>1
  <2>2. CASE q # p
    BY <1>3, <1>8, <2>2 DEF Inv, TypesInv, ServingInv
  <2>3. QED
    BY <2>1, <2>2
<1>11. MapInv'
  BY <1>3, <1>5, <1>7 DEF Inv, TypesInv, MapInv
<1>12. SeenInv'
  <2> SUFFICES ASSUME Prompt PROVE SeenInv'
    BY DEF SeenInv
  <2>1. now = clock
    BY <1>1 DEF Inv, SeenInv, now
  <2>2. ASSUME NEW q \in Proc, serving'[q].bucket # None
        PROVE  buckets'[serving'[q].client] = serving'[q].bucket
               /\ lastSeen'[serving'[q].bucket] = clock'
    <3>1. CASE q = p
      BY <1>1, <1>2, <1>3, <1>4, <1>5, <1>7, <1>8, <2>1, <3>1
    <3>2. CASE q # p
      <4> DEFINE d == serving[q].client
                 held == serving[q].bucket
      <4>1. held # None /\ d \in Client /\ held \in Bucket
        BY <1>8, <2>2, <3>2 DEF Inv, TypesInv, ServingInv, ServingType
      <4>2. buckets[d] = held /\ lastSeen[held] = clock
        BY <4>1 DEF Inv, SeenInv, OneBucketPerClient
      <4>3. seen[held] = now
        BY <1>4, <2>1, <4>1, <4>2
      <4>4. added[d] = held
        BY <1>5, <4>1, <4>2 DEF b, isNew, c
      <4>5. QED
        BY <1>1, <1>7, <1>8, <2>1, <3>2, <4>1, <4>3, <4>4
    <3>3. QED
      BY <3>1, <3>2
  <2>3. \A q \in Proc : serving'[q].at # "idle" => serving'[q].now = clock'
    BY <1>1, <1>8, <2>1 DEF Inv, SeenInv
  <2>4. QED
    BY <2>2, <2>3 DEF SeenInv, OneBucketPerClient
<1>13. QED
  BY <1>9, <1>10, <1>11, <1>12 DEF Inv

(* Whatever changes only the limiters and lets a request go, or on to the   *)
(* cancellation, keeps the invariant.                                       *)
LEMMA LimiterStep ==
  ASSUME Inv, NEW p \in Proc, serving[p].at \in {"reserve", "cancel"},
         NEW lim \in LimiterType, lim.tokens <= Full,
         limiter' = [limiter EXCEPT ![serving[p].bucket] = lim],
         NEW act \in Int,
         \/ serving' = [serving EXCEPT ![p] = Idle]
         \/ serving' = [serving EXCEPT ![p].at = "cancel", ![p].timeToAct = act],
         UNCHANGED <<clock, buckets, inserts, lastSeen>>
  PROVE  Inv'
<1> DEFINE cancelled == [serving[p] EXCEPT !.at = "cancel", !.timeToAct = act]
<1>1. serving[p] \in ServingType
  BY DEF Inv, TypesInv
<1>2. Idle \in ServingType /\ Idle.at = "idle" /\ Idle.bucket = None
  BY Constants DEF Idle, ServingType
<1>3. /\ cancelled \in ServingType /\ cancelled.at = "cancel"
      /\ cancelled.bucket = serving[p].bucket /\ cancelled.client = serving[p].client
      /\ cancelled.now = serving[p].now
  BY <1>1 DEF ServingType
<1>4. PICK next \in {Idle, cancelled} : serving' = [serving EXCEPT ![p] = next]
  OBVIOUS
<1> HIDE DEF cancelled
<1>5. \A q \in Proc : serving'[q] = IF q = p THEN next ELSE serving[q]
  BY <1>4 DEF Inv, TypesInv
<1>6. TypesInv'
  <2>1. serving' \in [Proc -> ServingType]
    BY <1>2, <1>3, <1>4 DEF Inv, TypesInv
  <2>2. limiter' \in [Bucket -> LimiterType] /\ \A b \in Bucket : limiter'[b].tokens <= Full
    BY DEF Inv, TypesInv
  <2>3. QED
    BY <2>1, <2>2 DEF Inv, TypesInv
<1>7. ServingInv' /\ MapInv'
  BY <1>2, <1>3, <1>4, <1>5 DEF Inv, ServingInv, MapInv
<1>8. SeenInv'
  BY <1>2, <1>3, <1>4, <1>5 DEF Inv, SeenInv, OneBucketPerClient
<1>9. QED
  BY <1>6, <1>7, <1>8 DEF Inv

LEMMA ReserveStep ==
  ASSUME Inv, NEW p \in Proc, Reserve(p) PROVE Inv'
<1> DEFINE b == serving[p].bucket
           now == serving[p].now
           after == ReserveN(limiter[b], now)
<1>1. /\ serving[p].at = "reserve"
      /\ limiter' = [limiter EXCEPT ![b] = after]
      /\ \/ serving' = [serving EXCEPT ![p] = Idle]
         \/ serving' = [serving EXCEPT ![p].at = "cancel", ![p].timeToAct = after.lastEvent]
      /\ UNCHANGED <<clock, buckets, inserts, lastSeen>>
  BY Zenon DEF Reserve
<1>2. b \in Bucket /\ now \in Int
  BY <1>1, Constants DEF Inv, TypesInv, ServingInv, ServingType, Bucket
<1>3. limiter[b] \in LimiterType
  BY <1>2 DEF Inv, TypesInv
<1>4. after \in LimiterType /\ after.tokens <= Full
  BY <1>2, <1>3, ReserveNBound
<1>5. after.lastEvent \in Int
  BY <1>4 DEF LimiterType
<1> HIDE DEF after
<1>6. QED
  BY <1>1, <1>4, <1>5, LimiterStep

LEMMA CancelStep ==
  ASSUME Inv, NEW p \in Proc, Cancel(p) PROVE Inv'
<1> DEFINE b == serving[p].bucket
           after == CancelAt(limiter[b], serving[p].timeToAct, serving[p].now)
<1>1. /\ serving[p].at = "cancel"
      /\ limiter' = [limiter EXCEPT ![b] = CancelAt(@, serving[p].timeToAct, serving[p].now)]
      /\ serving' = [serving EXCEPT ![p] = Idle]
      /\ UNCHANGED <<clock, buckets, inserts, lastSeen>>
  BY DEF Cancel
<1>2. b \in Bucket /\ serving[p].now \in Int /\ serving[p].timeToAct \in Int
  BY <1>1, Constants DEF Inv, TypesInv, ServingInv, ServingType, Bucket
<1>3. limiter[b] \in LimiterType /\ limiter[b].tokens <= Full
  BY <1>2 DEF Inv, TypesInv
<1>4. after \in LimiterType /\ after.tokens <= Full
  BY <1>2, <1>3, CancelAtBound
<1>5. limiter' = [limiter EXCEPT ![b] = after]
  BY <1>1, <1>2 DEF Inv, TypesInv
<1> HIDE DEF after
<1>6. QED
  BY <1>1, <1>2, <1>4, <1>5, LimiterStep

(* The clock of a prompt server moves only while nobody is served.          *)
LEMMA TickStep == Inv /\ Tick => Inv'
<1> SUFFICES ASSUME Inv, Tick PROVE Inv'
  OBVIOUS
<1>1. clock' \in 0..MaxTime
  BY Constants DEF Tick, Inv, TypesInv
<1>2. UNCHANGED <<buckets, inserts, lastSeen, limiter, serving>>
  BY DEF Tick
<1>3. TypesInv' /\ ServingInv' /\ MapInv'
  BY <1>1, <1>2 DEF Inv, TypesInv, ServingInv, MapInv
<1>4. Prompt => \A p \in Proc : serving'[p].at = "idle" /\ serving'[p].bucket = None
  BY <1>2 DEF Tick, Quiet, Inv, ServingInv
<1>5. SeenInv'
  BY <1>4 DEF SeenInv, OneBucketPerClient
<1>6. QED
  BY <1>3, <1>5 DEF Inv

(* The invariant holds in every reachable state.                            *)
THEOREM InvCorrect == Spec => []Inv
<1>1. Inv /\ [Next]_vars => Inv'
  <2> SUFFICES ASSUME Inv, [Next]_vars PROVE Inv'
    OBVIOUS
  <2>1. CASE UNCHANGED vars
    BY <2>1 DEF vars, Inv, TypesInv, ServingInv, MapInv, SeenInv, OneBucketPerClient
  <2>2. CASE Next
    BY <2>2, ArriveStep, LookupStep, ReserveStep, CancelStep, TickStep DEF Next
  <2>3. QED
    BY <2>1, <2>2
<1>2. QED
  BY InitInv, <1>1, PTL DEF Spec

(* The types of the limiter: no bucket holds more than it may, and whoever  *)
(* is past the lookup holds a bucket that was made.                         *)
THEOREM LimiterTypeCorrect == Spec => []TypeOK
<1>1. Inv => TypeOK
  BY DEF Inv, TypesInv, ServingInv, TypeOK, LimiterType, ServingType, Time
<1>2. QED
  BY InvCorrect, <1>1, PTL

(* While requests are served within a tick, no sweep splits the allowance   *)
(* of a client in two: whoever serves it holds the bucket in the map.       *)
THEOREM OneBucketCorrect == Spec => [](Prompt => OneBucketPerClient)
<1>1. Inv => (Prompt => OneBucketPerClient)
  BY DEF Inv, SeenInv
<1>2. QED
  BY InvCorrect, <1>1, PTL

-----------------------------------------------------------------------------
(* The budget.  What a client was let through for is compared with what its *)
(* bucket holds, in every window that ends now; for the past, and for the   *)
(* time a client is forgotten, what was spent is enough.                    *)

SpentType == spent \in [Client -> [Time -> [Time -> Nat]]]

(* No two clients share a bucket.                                           *)
DistinctInv ==
  \A c, d \in Client : buckets[c] # None /\ buckets[c] = buckets[d] => c = d

Multiples == {k * Cost : k \in Nat}

(* What a reservation yet to be cancelled says of its limiter: the credit   *)
(* is below zero, and every later reservation has moved lastEvent by Cost.  *)
Outstanding(p) ==
  LET lim == limiter[serving[p].bucket]
      act == serving[p].timeToAct
  IN  /\ clock < act
      /\ lim.last = clock
      /\ lim.lastEvent = clock - lim.tokens
      /\ lim.lastEvent - act \in Multiples

Cancelling(p) == serving[p].at = "cancel"

(* The outstanding reservations of a bucket form a stack.                   *)
StackInv ==
  /\ \A p \in Proc : Cancelling(p) => Outstanding(p)
  /\ \A p, q \in Proc :
       /\ p # q /\ Cancelling(p) /\ Cancelling(q)
       /\ serving[p].bucket = serving[q].bucket
       => serving[p].timeToAct # serving[q].timeToAct

(* A client was let through for nothing later than t.                       *)
NothingAfter(c, t) ==
  \A from, to \in Time :
    /\ t < from => spent[c][from][to] = 0
    /\ from <= t /\ t <= to => spent[c][from][to] = spent[c][from][t]

(* In every window up to now, credit and what was spent are no more than a  *)
(* bucket that was full when the window began.                              *)
Covered(c, credit) ==
  \A from \in 0..clock : credit + spent[c][from][clock] <= Full + (clock - from)

(* A full bucket would cover what the client spent.                         *)
Fresh(c) == Covered(c, Full)

Windows(c) ==
  \A from \in 0..clock : \A to \in from..clock : spent[c][from][to] <= Full + (to - from)

(* What the bucket holds is covered, and so is what it would hold after a   *)
(* cancellation that gives the token back.                                  *)
BudgetInv ==
  /\ \A c \in Client : NothingAfter(c, clock) /\ Windows(c)
  /\ \A c \in Client : buckets[c] = None => Fresh(c)
  /\ \A c \in Client : buckets[c] # None =>
       /\ NothingAfter(c, lastSeen[buckets[c]])
       /\ Covered(c, Advance(limiter[buckets[c]], clock))
  /\ \A p \in Proc : Cancelling(p) =>
       Covered(serving[p].client, Cost + (clock - serving[p].timeToAct))

CreditInv ==
  /\ SpentType /\ DistinctInv
  /\ Prompt => StackInv
  /\ Prompt /\ TTL >= Full => BudgetInv

-----------------------------------------------------------------------------
LEMMA MultiplesFacts ==
  /\ 0 \in Multiples
  /\ \A m \in Multiples : m \in Nat /\ m + Cost \in Multiples
  /\ \A m \in Multiples : m # 0 => m >= Cost /\ m - Cost \in Multiples
<1> USE RateAssumption
<1>1. Cost \in Nat /\ Cost > 0
  OBVIOUS
<1>2. 0 * Cost = 0
  BY <1>1
<1>3. ASSUME NEW k \in Nat
      PROVE  k * Cost \in Nat /\ k * Cost + Cost = (k + 1) * Cost /\ k + 1 \in Nat
  BY <1>1
<1>4. ASSUME NEW k \in Nat, k * Cost # 0
      PROVE  k * Cost >= Cost /\ k * Cost - Cost = (k - 1) * Cost /\ k - 1 \in Nat
  <2>1. k # 0
    BY <1>2, <1>4
  <2>2. PICK j \in Nat : k = j + 1
    BY <2>1
  <2>3. k * Cost = j * Cost + Cost /\ j * Cost \in Nat
    BY <2>2, <1>3
  <2>4. QED
    BY <1>1, <2>2, <2>3
<1>5. 0 \in Multiples
  BY <1>2 DEF Multiples
<1>6. ASSUME NEW m \in Multiples PROVE m \in Nat /\ m + Cost \in Multiples
  BY <1>3 DEF Multiples
<1>7. ASSUME NEW m \in Multiples, m # 0 PROVE m >= Cost /\ m - Cost \in Multiples
  BY <1>4, <1>7 DEF Multiples
<1>8. QED
  BY <1>5, <1>6, <1>7

(* A tick adds at most one to the credit.                                   *)
LEMMA AdvanceTick ==
  ASSUME NEW lim \in LimiterType, NEW t \in Int
  PROVE  Advance(lim, t + 1) <= Advance(lim, t) + 1
<1>1. lim.tokens \in Int /\ lim.last \in Int
  BY DEF LimiterType
<1>2. QED
  BY <1>1, Constants DEF Advance, Capped

(* The credit at the time of the last change is what is written down.       *)
LEMMA AdvanceNow ==
  ASSUME NEW lim \in LimiterType, lim.tokens <= Full, NEW t \in Int, lim.last = t
  PROVE  Advance(lim, t) = lim.tokens
<1>1. lim.tokens \in Int /\ lim.last \in Int
  BY DEF LimiterType
<1>2. QED
  BY <1>1, Constants DEF Advance, Capped

(* A reservation takes Cost off the credit, and its time to act is as far   *)
(* away as the credit falls short.                                          *)
LEMMA ReserveNFacts ==
  ASSUME NEW lim \in LimiterType, lim.tokens <= Full, NEW t \in Int
  PROVE  /\ Advance(ReserveN(lim, t), t) = Advance(lim, t) - Cost
         /\ ReserveN(lim, t).tokens = Advance(lim, t) - Cost
         /\ ReserveN(lim, t).last = t
         /\ ReserveN(lim, t).lastEvent = t + Wait(lim, t)
         /\ Wait(lim, t) = 0 <=> Advance(lim, t) >= Cost
         /\ Wait(lim, t) # 0 => Wait(lim, t) = Cost - Advance(lim, t) /\ Wait(lim, t) > 0
<1>1. Advance(lim, t) \in Int /\ Advance(lim, t) <= Full
  BY AdvanceBound
<1>2. /\ Wait(lim, t) = 0 <=> Advance(lim, t) >= Cost
      /\ Wait(lim, t) # 0 => Wait(lim, t) = Cost - Advance(lim, t) /\ Wait(lim, t) > 0
  BY <1>1, Constants DEF Wait
<1>3. /\ ReserveN(lim, t).tokens = Advance(lim, t) - Cost
      /\ ReserveN(lim, t).last = t
      /\ ReserveN(lim, t).lastEvent = t + Wait(lim, t)
  BY DEF ReserveN
<1>4. ReserveN(lim, t) \in LimiterType /\ ReserveN(lim, t).tokens <= Full
  BY ReserveNBound
<1>5. Advance(ReserveN(lim, t), t) = Advance(lim, t) - Cost
  BY <1>3, <1>4, AdvanceNow
<1>6. QED
  BY <1>2, <1>3, <1>5

(* Giving back a reservation others were made after changes nothing; giving *)
(* back the last one returns its token, and lastEvent goes back with it.    *)
LEMMA CancelAtFacts ==
  ASSUME NEW lim \in LimiterType, lim.tokens <= Full, NEW t \in Int, NEW act \in Int, t < act,
         lim.last = t, lim.lastEvent = t - lim.tokens, lim.lastEvent - act \in Multiples
  PROVE  /\ lim.lastEvent # act => CancelAt(lim, act, t) = lim
         /\ lim.lastEvent = act =>
              /\ CancelAt(lim, act, t) \in LimiterType /\ CancelAt(lim, act, t).tokens <= Full
              /\ Advance(CancelAt(lim, act, t), t) <= Cost + (t - act)
              /\ CancelAt(lim, act, t).last = t
              /\ act - Cost > t =>
                   /\ CancelAt(lim, act, t).tokens = lim.tokens + Cost
                   /\ CancelAt(lim, act, t).lastEvent = act - Cost
<1> DEFINE restore == Cost - (lim.lastEvent - act)
<1>1. lim.lastEvent \in Int /\ lim.tokens \in Int /\ restore \in Int /\ act - Cost \in Int
  BY Constants DEF LimiterType
<1>2. CASE lim.lastEvent # act
  <2>1. lim.lastEvent - act >= Cost
    BY <1>1, <1>2, MultiplesFacts
  <2>2. restore <= 0
    BY <1>1, <2>1, Constants
  <2>3. QED
    BY <1>2, <2>2 DEF CancelAt
<1>3. CASE lim.lastEvent = act
  <2>1. restore = Cost /\ ~(act < t \/ restore <= 0)
    BY <1>1, <1>3, RateAssumption
  <2>2. Advance(lim, t) = lim.tokens
    BY AdvanceNow
  <2> DEFINE after == CancelAt(lim, act, t)
  <2>3. after = [tokens |-> Capped(lim.tokens + Cost), last |-> t,
                 lastEvent |-> IF act = lim.lastEvent /\ act - Cost >= t THEN act - Cost
                                                                        ELSE lim.lastEvent]
    BY <2>1, <2>2 DEF CancelAt
  <2>4. /\ after.tokens = Capped(lim.tokens + Cost) /\ after.last = t
        /\ act - Cost >= t => after.lastEvent = act - Cost
    BY <2>3, <1>3
  <2>5. after \in LimiterType /\ after.tokens <= Full
    BY CancelAtBound
  <2> HIDE DEF after
  <2>6. Advance(after, t) = after.tokens
    BY <2>4, <2>5, AdvanceNow
  <2>7. Capped(lim.tokens + Cost) <= lim.tokens + Cost
    BY <1>1, Constants DEF Capped
  <2>8. after.tokens <= Cost + (t - act)
    BY <1>1, <1>3, <2>4, <2>5, <2>7, Constants
  <2>9. ASSUME act - Cost > t PROVE after.tokens = lim.tokens + Cost /\ after.lastEvent = act - Cost
    <3>1. lim.tokens + Cost <= Full
      BY <1>1, <1>3, <2>9, Constants
    <3>2. QED
      BY <1>1, <2>4, <2>9, <3>1, Constants DEF Capped
  <2>10. QED
    BY <1>3, <2>4, <2>5, <2>6, <2>8, <2>9 DEF after
<1>4. QED
  BY <1>2, <1>3

-----------------------------------------------------------------------------
LEMMA InitCredit == Init => CreditInv
<1> SUFFICES ASSUME Init PROVE CreditInv
  OBVIOUS
<1> USE Constants
<1>1. \A c \in Client : \A from, to \in Time : spent[c][from][to] = 0
  BY DEF Init
<1>2. SpentType /\ DistinctInv
  BY DEF Init, SpentType, DistinctInv
<1>3. \A p \in Proc : ~Cancelling(p)
  BY DEF Init, Idle, Cancelling
<1>4. StackInv
  BY <1>3 DEF StackInv
<1>5. BudgetInv
  <2>1. clock = 0 /\ \A c \in Client : buckets[c] = None
    BY DEF Init
  <2>2. \A c \in Client : Windows(c) /\ Fresh(c) /\ NothingAfter(c, clock)
    <3> SUFFICES ASSUME NEW c \in Client
                 PROVE  Windows(c) /\ Fresh(c) /\ NothingAfter(c, clock)
      OBVIOUS
    <3>1. 0 \in Time
      BY DEF Time
    <3>2. Windows(c)
      BY <1>1, <2>1, <3>1 DEF Windows
    <3>3. Fresh(c)
      BY <1>1, <2>1, <3>1 DEF Fresh, Covered
    <3>4. NothingAfter(c, clock)
      BY <1>1, <2>1, <3>1 DEF NothingAfter
    <3>5. QED
      BY <3>2, <3>3, <3>4
  <2>3. QED
    BY <1>3, <2>1, <2>2 DEF BudgetInv
<1>6. QED
  BY <1>2, <1>4, <1>5 DEF CreditInv

(* While neither the clock nor a limiter nor what was spent changes and no  *)
(* reservation is new, the stack and what it covers stay.                   *)
LEMMA StackStays ==
  ASSUME Inv, CreditInv, Prompt, UNCHANGED <<clock, limiter, spent>>,
         \A q \in Proc : Cancelling(q)' => Cancelling(q) /\ serving'[q] = serving[q]
  PROVE  /\ StackInv'
         /\ \A c, credit : Covered(c, credit)' <=> Covered(c, credit)
         /\ BudgetInv => \A q \in Proc : Cancelling(q)' =>
                           Covered(serving[q].client, Cost + (clock - serving[q].timeToAct))'
<1>1. StackInv'
  BY DEF CreditInv, StackInv, Outstanding, Cancelling
<1>2. \A c, credit : Covered(c, credit)' <=> Covered(c, credit)
  BY DEF Covered
<1>3. ASSUME BudgetInv, NEW q \in Proc, Cancelling(q)'
      PROVE  Covered(serving[q].client, Cost + (clock - serving[q].timeToAct))'
  <2>1. Cancelling(q) /\ serving'[q] = serving[q]
    BY <1>3
  <2>2. Covered(serving[q].client, Cost + (clock - serving[q].timeToAct))
    BY <1>3, <2>1 DEF BudgetInv
  <2>3. QED
    BY <2>1, <2>2 DEF Covered
<1>4. QED
  BY <1>1, <1>2, <1>3

LEMMA ArriveCredit ==
  ASSUME Inv, CreditInv, NEW p \in Proc, NEW c \in Client, Arrive(p, c) PROVE CreditInv'
<1>1. /\ serving' = [serving EXCEPT ![p] = [Idle EXCEPT !.at = "lookup", !.client = c, !.now = clock]]
      /\ UNCHANGED <<clock, buckets, lastSeen, limiter, spent>>
  BY Zenon DEF Arrive
<1>2. [Idle EXCEPT !.at = "lookup", !.client = c, !.now = clock].at = "lookup"
  BY DEF Idle
<1>3. \A q \in Proc : Cancelling(q)' => Cancelling(q) /\ serving'[q] = serving[q]
  BY <1>1, <1>2 DEF Cancelling, Inv, TypesInv
<1>4. SpentType' /\ DistinctInv'
  BY <1>1 DEF CreditInv, SpentType, DistinctInv
<1>5. Prompt => StackInv'
  BY <1>1, <1>3, StackStays
<1>6. ASSUME Prompt, TTL >= Full PROVE BudgetInv'
  <2>1. BudgetInv
    BY <1>6 DEF CreditInv
  <2>2. \A d \in Client : (NothingAfter(d, clock) /\ Windows(d))'
    BY <1>1, <2>1 DEF BudgetInv, NothingAfter, Windows
  <2>3. \A d \in Client : buckets'[d] = None => Fresh(d)'
    BY <1>1, <2>1 DEF BudgetInv, Fresh, Covered
  <2>4. \A d \in Client : buckets'[d] # None =>
          /\ NothingAfter(d, lastSeen[buckets[d]])'
          /\ Covered(d, Advance(limiter[buckets[d]], clock))'
    BY <1>1, <2>1 DEF BudgetInv, NothingAfter, Covered
  <2>5. \A q \in Proc : Cancelling(q)' =>
          Covered(serving[q].client, Cost + (clock - serving[q].timeToAct))'
    BY <1>1, <1>3, <1>6, <2>1, StackStays
  <2>6. QED
    BY <2>2, <2>3, <2>4, <2>5 DEF BudgetInv
<1>7. QED
  BY <1>4, <1>5, <1>6 DEF CreditInv

(* A tick: a full bucket when it begins covers a window of no length, and   *)
(* every other window is one longer.                                        *)
LEMMA TickCredit ==
  ASSUME Inv, CreditInv, Tick PROVE CreditInv'
<1> USE Constants
<1>1. /\ clock \in Nat /\ clock' = clock + 1 /\ clock < MaxTime
      /\ clock \in Time /\ clock' \in Time
      /\ UNCHANGED <<buckets, inserts, lastSeen, limiter, serving, spent>>
  BY DEF Tick, Inv, TypesInv, Time
<1>2. SpentType' /\ DistinctInv'
  BY <1>1 DEF CreditInv, SpentType, DistinctInv
<1>3. Prompt => \A q \in Proc : ~Cancelling(q)'
  BY <1>1 DEF Tick, Quiet, Cancelling
<1>4. Prompt => StackInv'
  BY <1>3 DEF StackInv
<1>5. ASSUME Prompt, TTL >= Full PROVE BudgetInv'
  <2>1. BudgetInv /\ SpentType
    BY <1>5 DEF CreditInv
  <2>2. \A d \in Client : \A from, to \in Time : spent[d][from][to] \in Nat
    BY <2>1 DEF SpentType
  <2>3. ASSUME NEW d \in Client
        PROVE  /\ NothingAfter(d, clock)'
               /\ \A from \in 0..clock : spent[d][from][clock'] = spent[d][from][clock]
               /\ spent[d][clock'][clock'] = 0
    <3>1. NothingAfter(d, clock)
      BY <2>1 DEF BudgetInv
    <3>2. 0..clock \subseteq Time
      BY <1>1 DEF Time
    <3>3. \A from \in 0..clock : spent[d][from][clock'] = spent[d][from][clock]
      BY <1>1, <3>1, <3>2 DEF NothingAfter
    <3>4. \A to \in Time : spent[d][clock'][to] = 0
      BY <1>1, <3>1 DEF NothingAfter
    <3>5. NothingAfter(d, clock + 1)
      <4> SUFFICES ASSUME NEW from \in Time, NEW to \in Time
                   PROVE  /\ clock + 1 < from => spent[d][from][to] = 0
                          /\ from <= clock + 1 /\ clock + 1 <= to =>
                               spent[d][from][to] = spent[d][from][clock + 1]
        BY DEF NothingAfter
      <4>1. CASE from <= clock
        BY <1>1, <3>1, <4>1 DEF NothingAfter, Time
      <4>2. CASE from = clock + 1
        BY <1>1, <3>4, <4>2 DEF Time
      <4>3. CASE from > clock + 1
        BY <1>1, <3>1, <4>3 DEF NothingAfter, Time
      <4>4. QED
        BY <1>1, <4>1, <4>2, <4>3 DEF Time
    <3>6. QED
      BY <1>1, <3>3, <3>4, <3>5 DEF NothingAfter
  <2>4. ASSUME NEW d \in Client, NEW credit \in Int, NEW after \in Int,
               Covered(d, credit), after <= credit + 1, after <= Full
        PROVE  \A from \in 0..clock' : after + spent'[d][from][clock'] <= Full + (clock' - from)
    <3> SUFFICES ASSUME NEW from \in 0..clock'
                 PROVE  after + spent'[d][from][clock'] <= Full + (clock' - from)
      OBVIOUS
    <3>1. CASE from \in 0..clock
      <4>1. credit + spent[d][from][clock] <= Full + (clock - from)
        BY <2>4, <3>1 DEF Covered
      <4>2. spent[d][from][clock] \in Nat /\ spent'[d][from][clock'] = spent[d][from][clock]
        BY <1>1, <2>2, <2>3, <3>1 DEF Time
      <4>3. QED
        BY <1>1, <2>4, <3>1, <4>1, <4>2
    <3>2. CASE from = clock'
      BY <1>1, <2>3, <2>4, <3>2
    <3>3. QED
      BY <1>1, <3>1, <3>2
  <2>5. \A d \in Client : Windows(d)'
    <3> SUFFICES ASSUME NEW d \in Client, NEW from \in 0..clock', NEW to \in from..clock'
                 PROVE  spent'[d][from][to] <= Full + (to - from)
      BY DEF Windows
    <3>1. CASE from \in 0..clock /\ to \in from..clock
      BY <1>1, <2>1, <3>1 DEF BudgetInv, Windows
    <3>2. CASE from \in 0..clock /\ to = clock'
      <4>1. spent[d][from][clock] <= Full + (clock - from)
        BY <1>1, <2>1, <3>2 DEF BudgetInv, Windows
      <4>2. spent[d][from][clock] \in Nat
        BY <1>1, <2>2, <3>2 DEF Time
      <4>3. QED
        BY <1>1, <2>3, <3>2, <4>1, <4>2
    <3>3. CASE from = clock' /\ to = clock'
      BY <1>1, <2>3, <3>3
    <3>4. QED
      BY <1>1, <3>1, <3>2, <3>3
  <2>6. \A d \in Client : buckets'[d] = None => Fresh(d)'
    <3> SUFFICES ASSUME NEW d \in Client, buckets'[d] = None PROVE Covered(d, Full)'
      BY DEF Fresh
    <3>1. Covered(d, Full)
      BY <1>1, <2>1 DEF BudgetInv, Fresh
    <3>2. \A from \in 0..clock' : Full + spent'[d][from][clock'] <= Full + (clock' - from)
      BY <2>4, <3>1
    <3>3. QED
      BY <3>2 DEF Covered
  <2>7. \A d \in Client : buckets'[d] # None =>
          /\ NothingAfter(d, lastSeen[buckets[d]])'
          /\ Covered(d, Advance(limiter[buckets[d]], clock))'
    <3> SUFFICES ASSUME NEW d \in Client, buckets[d] # None
                 PROVE  /\ NothingAfter(d, lastSeen[buckets[d]])'
                        /\ Covered(d, Advance(limiter[buckets[d]], clock))'
      BY <1>1
    <3>1. NothingAfter(d, lastSeen[buckets[d]])'
      BY <1>1, <2>1 DEF BudgetInv, NothingAfter
    <3> DEFINE lim == limiter[buckets[d]]
               credit == Advance(lim, clock)
               after == Advance(lim, clock + 1)
    <3>2. lim \in LimiterType
      BY DEF Inv, TypesInv
    <3>3. credit \in Int /\ after \in Int /\ after <= credit + 1 /\ after <= Full
      BY <1>1, <3>2, AdvanceBound, AdvanceTick
    <3>4. Covered(d, credit)
      BY <2>1 DEF BudgetInv
    <3> HIDE DEF credit, after
    <3>5. \A from \in 0..clock' : after + spent'[d][from][clock'] <= Full + (clock' - from)
      BY <2>4, <3>3, <3>4
    <3>6. Advance(limiter[buckets[d]], clock)' = after
      BY <1>1 DEF after, Advance
    <3>7. QED
      BY <3>1, <3>5, <3>6 DEF Covered
  <2>8. QED
    BY <1>3, <1>5, <2>3, <2>5, <2>6, <2>7 DEF BudgetInv
<1>6. QED
  BY <1>2, <1>4, <1>5 DEF CreditInv

(* What was spent in a window that ends now is a number.                    *)
LEMMA SpentNat ==
  ASSUME Inv, SpentType, NEW c \in Client, NEW from \in 0..clock
  PROVE  /\ clock \in Nat /\ from \in Nat /\ clock \in Time /\ from \in Time
         /\ spent[c][from][clock] \in Nat
<1>1. clock \in Time /\ clock \in Nat
  BY Constants DEF Inv, TypesInv, Time
<1>2. from \in Time /\ from \in Nat
  BY <1>1, Constants DEF Time
<1>3. QED
  BY <1>1, <1>2 DEF SpentType

(* Less credit is covered by what covers more.                              *)
LEMMA CoveredLess ==
  ASSUME Inv, SpentType, NEW c \in Client, NEW credit \in Int, NEW less \in Int,
         less <= credit, Covered(c, credit)
  PROVE  Covered(c, less)
<1> SUFFICES ASSUME NEW from \in 0..clock
             PROVE  less + spent[c][from][clock] <= Full + (clock - from)
  BY DEF Covered
<1>1. credit + spent[c][from][clock] <= Full + (clock - from)
  BY DEF Covered
<1>2. QED
  BY <1>1, SpentNat, Constants

(* A client whose bucket was idle for longer than a refill has spent no     *)
(* more than a full bucket would cover.                                     *)
LEMMA IdleIsFresh ==
  ASSUME Inv, SpentType, TTL >= Full, NEW c \in Client, NEW t \in Time,
         NothingAfter(c, t), Windows(c), clock - t > TTL
  PROVE  Fresh(c)
<1> SUFFICES ASSUME NEW from \in 0..clock
             PROVE  Full + spent[c][from][clock] <= Full + (clock - from)
  BY DEF Fresh, Covered
<1>1. /\ clock \in Time /\ from \in Time /\ clock \in Nat /\ t \in Nat /\ from \in Nat
      /\ from <= clock /\ t < clock /\ TTL \in Nat /\ Full \in Nat
  BY Constants DEF Inv, TypesInv, Time
<1>2. CASE t < from
  BY <1>1, <1>2 DEF NothingAfter
<1>3. CASE from <= t
  <2>1. spent[c][from][clock] = spent[c][from][t]
    BY <1>1, <1>3 DEF NothingAfter
  <2>2. spent[c][from][t] <= Full + (t - from)
    BY <1>1, <1>3 DEF Windows
  <2>3. spent[c][from][t] \in Nat
    BY <1>1 DEF SpentType
  <2>4. QED
    BY <1>1, <2>1, <2>2, <2>3
<1>4. QED
  BY <1>1, <1>2, <1>3

(* The lookup: a new bucket is full, and a forgotten client is fresh.       *)
LEMMA LookupCredit ==
  ASSUME Inv, Inv', CreditInv, NEW p \in Proc, Lookup(p) PROVE CreditInv'
<1> DEFINE c == serving[p].client
           now == serving[p].now
           isNew == buckets[c] = None
           b == IF isNew THEN inserts + 1 ELSE buckets[c]
           seen == [lastSeen EXCEPT ![b] = now]
           added == [buckets EXCEPT ![c] = b]
<1> USE Constants
<1>1. /\ serving[p].at = "lookup"
      /\ isNew => inserts < MaxInserts
      /\ lastSeen' = seen
      /\ buckets' = IF isNew /\ inserts' % SweepEvery = 0 THEN Swept(added, seen, now) ELSE added
      /\ serving' = [serving EXCEPT ![p].at = "reserve", ![p].bucket = b]
      /\ UNCHANGED <<clock, limiter, spent>>
  BY Zenon DEF Lookup
<1>2. c \in Client /\ now \in Time
  BY <1>1 DEF Inv, TypesInv, ServingInv, ServingType, Time
<1>3. b \in Bucket /\ b # None
  BY <1>1, <1>2 DEF Inv, TypesInv, Bucket, MapInv
<1>4. \A d \in Client : d # c => buckets[d] # b
  BY <1>2, <1>3 DEF Inv, TypesInv, MapInv, CreditInv, DistinctInv
<1>5. seen[b] = now /\ \A other \in Bucket : other # b => seen[other] = lastSeen[other]
  BY <1>3 DEF Inv, TypesInv
<1>6. added[c] = b /\ \A d \in Client : d # c => added[d] = buckets[d]
  BY <1>2 DEF Inv, TypesInv
<1> HIDE DEF b, seen, added
<1>7. \A d \in Client : \/ buckets'[d] = added[d]
                        \/ buckets'[d] = None /\ added[d] # None /\ now - seen[added[d]] > TTL
  BY <1>1 DEF Swept
<1>8. ASSUME NEW d \in Client
      PROVE  \/ d = c /\ (buckets'[d] = b \/ buckets'[d] = None)
             \/ d # c /\ buckets'[d] = buckets[d] /\ (buckets[d] # None => lastSeen'[buckets[d]] = lastSeen[buckets[d]])
             \/ /\ d # c /\ buckets'[d] = None /\ buckets[d] # None
                /\ now - lastSeen[buckets[d]] > TTL
  <2>1. buckets[d] # None => buckets[d] \in Bucket
    BY DEF Inv, TypesInv
  <2>2. QED
    BY <1>1, <1>4, <1>5, <1>6, <1>7, <2>1
<1>9. \A q \in Proc : Cancelling(q)' => Cancelling(q) /\ serving'[q] = serving[q]
  BY <1>1 DEF Cancelling, Inv, TypesInv
<1> HIDE DEF isNew
<1>10. SpentType' /\ DistinctInv'
  <2>1. SpentType'
    BY <1>1 DEF CreditInv, SpentType
  <2>2. DistinctInv'
    BY <1>4, <1>8 DEF CreditInv, DistinctInv
  <2>3. QED
    BY <2>1, <2>2
<1>11. Prompt => StackInv'
  BY <1>1, <1>9, StackStays
<1>12. ASSUME Prompt, TTL >= Full PROVE BudgetInv'
  <2>1. BudgetInv /\ SpentType
    BY <1>12 DEF CreditInv
  <2>2. now = clock
    BY <1>1, <1>12 DEF Inv, SeenInv
  <2>3. \A d \in Client : (NothingAfter(d, clock) /\ Windows(d))'
    BY <1>1, <2>1 DEF BudgetInv, NothingAfter, Windows
  <2>4. buckets'[c] = b /\ lastSeen'[b] = clock
    <3>1. now - seen[b] <= TTL /\ ~(now - seen[b] > TTL)
      BY <1>2, <1>5 DEF Time
    <3>2. QED
      BY <1>1, <1>2, <1>5, <1>6, <1>7, <2>2, <3>1
  <2>5. \A d \in Client : buckets'[d] = None => Fresh(d)'
    <3> SUFFICES ASSUME NEW d \in Client, buckets'[d] = None PROVE Fresh(d)'
      OBVIOUS
    <3>1. CASE buckets[d] = None
      BY <1>1, <2>1, <3>1 DEF BudgetInv, Fresh, Covered
    <3>2. CASE buckets[d] # None
      <4>1. clock - lastSeen[buckets[d]] > TTL
        BY <1>3, <1>8, <2>2, <2>4, <3>2
      <4>2. lastSeen[buckets[d]] \in Time
        BY <3>2 DEF Inv, TypesInv, Time
      <4>3. NothingAfter(d, lastSeen[buckets[d]]) /\ Windows(d)
        BY <2>1, <3>2 DEF BudgetInv
      <4>4. Fresh(d)
        BY <1>12, <2>1, <4>1, <4>2, <4>3, IdleIsFresh
      <4>5. QED
        BY <1>1, <4>4 DEF Fresh, Covered
    <3>3. QED
      BY <3>1, <3>2
  <2>6. \A d \in Client : buckets'[d] # None =>
          /\ NothingAfter(d, lastSeen[buckets[d]])'
          /\ Covered(d, Advance(limiter[buckets[d]], clock))'
    <3> SUFFICES ASSUME NEW d \in Client, buckets'[d] # None
                 PROVE  /\ NothingAfter(d, lastSeen[buckets[d]])'
                        /\ Covered(d, Advance(limiter[buckets[d]], clock))'
      OBVIOUS
    <3>1. CASE d # c
      <4>1. buckets'[d] = buckets[d] /\ lastSeen'[buckets[d]] = lastSeen[buckets[d]]
        BY <1>8, <3>1
      <4>2. NothingAfter(d, lastSeen[buckets[d]]) /\ Covered(d, Advance(limiter[buckets[d]], clock))
        BY <2>1, <4>1 DEF BudgetInv
      <4>3. QED
        BY <1>1, <4>1, <4>2 DEF NothingAfter, Covered, Advance
    <3>2. CASE d = c
      <4>1. NothingAfter(d, lastSeen[buckets[d]])'
        <5>1. NothingAfter(d, clock)
          BY <2>1 DEF BudgetInv
        <5>2. QED
          BY <1>1, <2>4, <3>2, <5>1 DEF NothingAfter
      <4>2. Covered(d, Advance(limiter[b], clock))
        <5>1. CASE isNew
          <6>1. Fresh(d)
            BY <2>1, <3>2, <5>1 DEF BudgetInv, isNew
          <6>2. Advance(limiter[b], clock) \in Int /\ Advance(limiter[b], clock) <= Full
            <7>1. limiter[b] \in LimiterType /\ clock \in Int
              BY <1>3 DEF Inv, TypesInv
            <7>2. QED
              BY <7>1, AdvanceBound
          <6>3. QED
            BY <2>1, <6>1, <6>2, Constants, CoveredLess DEF Fresh
        <5>2. CASE ~isNew
          BY <2>1, <3>2, <5>2, <1>2, <1>3 DEF BudgetInv, isNew, b
        <5>3. QED
          BY <5>1, <5>2
      <4>3. QED
        BY <1>1, <2>4, <3>2, <4>1, <4>2 DEF Covered, Advance
    <3>3. QED
      BY <3>1, <3>2
  <2>7. \A q \in Proc : Cancelling(q)' =>
          Covered(serving[q].client, Cost + (clock - serving[q].timeToAct))'
    BY <1>1, <1>9, <1>12, <2>1, StackStays
  <2>8. QED
    BY <2>3, <2>5, <2>6, <2>7 DEF BudgetInv
<1>13. QED
  BY <1>10, <1>11, <1>12 DEF CreditInv

(* A step on one bucket: what the other clients hold and spent stays.       *)
LEMMA BucketStep ==
  ASSUME Inv, CreditInv, Prompt, TTL >= Full,
         NEW c \in Client, NEW b \in Bucket, buckets[c] = b, lastSeen[b] = clock,
         NEW lim \in LimiterType, limiter' = [limiter EXCEPT ![b] = lim],
         UNCHANGED <<clock, buckets, lastSeen>>,
         \A d \in Client : d # c => spent'[d] = spent[d],
         NothingAfter(c, clock)', Windows(c)',
         \A from \in 0..clock :
           Advance(lim, clock) + spent'[c][from][clock] <= Full + (clock - from),
         \A q \in Proc : Cancelling(q)' =>
           \/ Cancelling(q) /\ serving'[q] = serving[q] /\ spent'[serving[q].client] = spent[serving[q].client]
           \/ Covered(serving[q].client, Cost + (clock - serving[q].timeToAct))'
  PROVE  BudgetInv'
<1> USE Constants
<1>1. BudgetInv
  BY DEF CreditInv
<1>2. b # None /\ limiter'[b] = lim /\ \A o \in Bucket : o # b => limiter'[o] = limiter[o]
  BY DEF Inv, TypesInv, Bucket
<1>3. \A d \in Client : d # c => buckets[d] # b
  BY <1>2 DEF CreditInv, DistinctInv
<1>4. ASSUME NEW d \in Client
      PROVE  /\ (NothingAfter(d, clock) /\ Windows(d))'
             /\ buckets'[d] = None => Fresh(d)'
             /\ buckets'[d] # None =>
                  /\ NothingAfter(d, lastSeen[buckets[d]])'
                  /\ Covered(d, Advance(limiter[buckets[d]], clock))'
  <2>1. CASE d = c
    <3>1. NothingAfter(d, lastSeen[buckets[d]])'
      BY <2>1
    <3>2. Covered(d, Advance(limiter[buckets[d]], clock))'
      BY <1>2, <2>1 DEF Covered, Advance
    <3>3. QED
      BY <1>2, <2>1, <3>1, <3>2
  <2>2. CASE d # c
    <3>1. NothingAfter(d, clock) /\ Windows(d) /\ (buckets[d] = None => Fresh(d))
      BY <1>1 DEF BudgetInv
    <3>2. (NothingAfter(d, clock) /\ Windows(d))' /\ (buckets'[d] = None => Fresh(d)')
      BY <2>2, <3>1 DEF NothingAfter, Windows, Fresh, Covered
    <3>3. ASSUME buckets[d] # None
          PROVE  /\ NothingAfter(d, lastSeen[buckets[d]])'
                 /\ Covered(d, Advance(limiter[buckets[d]], clock))'
      <4>1. limiter'[buckets[d]] = limiter[buckets[d]]
        BY <1>2, <1>3, <2>2, <3>3 DEF Inv, TypesInv
      <4>2. NothingAfter(d, lastSeen[buckets[d]]) /\ Covered(d, Advance(limiter[buckets[d]], clock))
        BY <1>1, <3>3 DEF BudgetInv
      <4>3. QED
        BY <2>2, <4>1, <4>2 DEF NothingAfter, Covered, Advance
    <3>4. QED
      BY <3>2, <3>3
  <2>3. QED
    BY <2>1, <2>2
<1>5. ASSUME NEW q \in Proc, Cancelling(q)'
      PROVE  Covered(serving[q].client, Cost + (clock - serving[q].timeToAct))'
  <2>1. CASE Cancelling(q) /\ serving'[q] = serving[q] /\ spent'[serving[q].client] = spent[serving[q].client]
    BY <1>1, <2>1 DEF BudgetInv, Covered
  <2>2. QED
    BY <1>5, <2>1
<1>6. QED
  BY <1>4, <1>5 DEF BudgetInv

(* While a reservation is outstanding the credit is below zero.             *)
LEMMA OutstandingCredit ==
  ASSUME Inv, NEW q \in Proc, Cancelling(q), Outstanding(q)
  PROVE  /\ Advance(limiter[serving[q].bucket], clock) = limiter[serving[q].bucket].tokens
         /\ limiter[serving[q].bucket].tokens < 0
         /\ serving[q].timeToAct \in Int /\ limiter[serving[q].bucket] \in LimiterType
         /\ limiter[serving[q].bucket].lastEvent \in Int
<1> DEFINE lim == limiter[serving[q].bucket]
           act == serving[q].timeToAct
<1>1. serving[q].bucket \in Bucket
  BY Constants DEF Cancelling, Inv, TypesInv, ServingInv, Bucket
<1>2. lim \in LimiterType /\ lim.tokens <= Full /\ act \in Int /\ clock \in Int
  BY <1>1, Constants DEF Inv, TypesInv, ServingType
<1>3. lim.tokens \in Int /\ lim.lastEvent \in Int
  BY <1>2 DEF LimiterType
<1>4. clock < act /\ lim.last = clock /\ lim.lastEvent = clock - lim.tokens /\ lim.lastEvent - act \in Multiples
  BY DEF Outstanding
<1> HIDE DEF lim, act
<1>5. lim.lastEvent - act \in Nat
  BY <1>4, MultiplesFacts
<1>6. lim.tokens < 0
  BY <1>2, <1>3, <1>4, <1>5
<1>7. Advance(lim, clock) = lim.tokens
  BY <1>2, <1>4, AdvanceNow
<1>8. QED
  BY <1>2, <1>3, <1>6, <1>7 DEF lim, act

(* A reservation that is met, or that joins the stack.                      *)
LEMMA ReserveCredit ==
  ASSUME Inv, CreditInv, NEW p \in Proc, Reserve(p) PROVE CreditInv'
<1>0. serving[p].at = "reserve"
  BY Zenon DEF Reserve
<1>a. PICK c \in Client : c = serving[p].client
  BY <1>0 DEF Inv, ServingInv
<1>b. PICK b \in Bucket : b = serving[p].bucket
  BY <1>0, Constants DEF Inv, TypesInv, ServingInv, Bucket
<1> DEFINE now == serving[p].now
           lim == limiter[b]
           after == ReserveN(lim, now)
           credit == Advance(lim, now)
           act == after.lastEvent
<1> USE Constants
<1>1. /\ serving[p].at = "reserve"
      /\ limiter' = [limiter EXCEPT ![b] = after]
      /\ UNCHANGED <<clock, buckets, inserts, lastSeen>>
      /\ \/ /\ Wait(lim, now) = 0
            /\ serving' = [serving EXCEPT ![p] = Idle]
            /\ Spend(c, now)
         \/ /\ Wait(lim, now) > 0
            /\ serving' = [serving EXCEPT ![p].at = "cancel", ![p].timeToAct = act]
            /\ UNCHANGED spent
  BY <1>a, <1>b, Zenon DEF Reserve
<1>2. b \in Bucket /\ now \in Time /\ now \in Int /\ c \in Client /\ b # None
  BY <1>1 DEF Inv, TypesInv, ServingInv, ServingType, Bucket, Time
<1>3. lim \in LimiterType /\ lim.tokens <= Full /\ after \in LimiterType /\ credit \in Int /\ credit <= Full
  BY <1>2, ReserveNBound, AdvanceBound DEF Inv, TypesInv
<1>4. /\ Advance(after, now) = credit - Cost
      /\ after.tokens = credit - Cost /\ after.last = now
      /\ act = now + Wait(lim, now)
      /\ Wait(lim, now) = 0 <=> credit >= Cost
      /\ Wait(lim, now) # 0 => Wait(lim, now) = Cost - credit /\ Wait(lim, now) > 0
  BY <1>2, <1>3, ReserveNFacts
<1>5. limiter'[b] = after /\ \A o \in Bucket : o # b => limiter'[o] = limiter[o]
  BY <1>1, <1>2 DEF Inv, TypesInv
<1>6. \A q \in Proc : q # p => serving'[q] = serving[q]
  BY <1>1 DEF Inv, TypesInv
<1>7. Prompt => /\ now = clock /\ buckets[c] = b /\ lastSeen[b] = clock
                /\ \A q \in Proc : Cancelling(q) => /\ serving[q].bucket \in Bucket
                                                    /\ serving[q].client \in Client
                                                    /\ buckets[serving[q].client] = serving[q].bucket
  BY <1>a, <1>b, <1>1, <1>2 DEF Cancelling, Inv, TypesInv, ServingInv, SeenInv, OneBucketPerClient, Bucket
<1> HIDE DEF lim, after, credit, act, now
<1>8. ASSUME Prompt, NEW q \in Proc, Cancelling(q), serving[q].bucket = b
      PROVE  /\ credit = lim.tokens /\ credit < 0 /\ lim.lastEvent = clock - credit
             /\ clock < serving[q].timeToAct /\ serving[q].timeToAct \in Int
             /\ lim.lastEvent - serving[q].timeToAct \in Multiples /\ lim.lastEvent \in Int
  <2>1. Outstanding(q)
    BY <1>8 DEF CreditInv, StackInv
  <2>2. QED
    BY <1>7, <1>8, <2>1, OutstandingCredit DEF Outstanding, credit, lim
<1>9. SpentType
  BY DEF CreditInv
<1>10. CASE Wait(lim, now) = 0
  <2>1. serving' = [serving EXCEPT ![p] = Idle] /\ Spend(c, now)
    BY <1>1, <1>10
  <2>2. \A q \in Proc : Cancelling(q)' => q # p /\ Cancelling(q) /\ serving'[q] = serving[q]
    BY <1>6, <2>1 DEF Cancelling, Idle, Inv, TypesInv
  <2>3. /\ \A d \in Client : d # c => spent'[d] = spent[d]
        /\ \A from, to \in Time :
             spent'[c][from][to] = spent[c][from][to] + IF now \in from..to THEN Cost ELSE 0
    BY <1>2, <1>9, <2>1 DEF Spend, SpentType
  <2>4. SpentType'
    <3>1. \A from, to \in Time : spent[c][from][to] + (IF now \in from..to THEN Cost ELSE 0) \in Nat
      BY <1>2, <1>9 DEF SpentType
    <3>2. QED
      BY <1>2, <1>9, <2>1, <3>1 DEF Spend, SpentType
  <2>5. DistinctInv'
    BY <1>1 DEF CreditInv, DistinctInv
  <2>6. Prompt => \A q \in Proc : Cancelling(q)' => serving[q].bucket # b
    BY <1>3, <1>4, <1>8, <1>10, <2>2
  <2>7. Prompt => StackInv'
    <3> SUFFICES ASSUME Prompt PROVE StackInv'
      OBVIOUS
    <3>1. ASSUME NEW q \in Proc, Cancelling(q)' PROVE Outstanding(q)'
      <4>1. Outstanding(q)
        BY <2>2, <3>1 DEF CreditInv, StackInv
      <4>2. limiter'[serving'[q].bucket] = limiter[serving[q].bucket] /\ serving'[q] = serving[q]
        BY <1>5, <1>7, <2>2, <2>6, <3>1
      <4>3. QED
        BY <1>1, <4>1, <4>2 DEF Outstanding
    <3>2. QED
      BY <2>2, <3>1 DEF CreditInv, StackInv
  <2>8. ASSUME Prompt, TTL >= Full PROVE BudgetInv'
    <3>1. BudgetInv /\ clock \in Nat /\ clock \in Time
      BY <2>8 DEF CreditInv, Inv, TypesInv, Time
    <3>2. Covered(c, credit) /\ NothingAfter(c, clock) /\ Windows(c)
      BY <1>2, <1>7, <2>8, <3>1 DEF BudgetInv, credit, lim
    <3>3. \A from \in 0..clock :
            /\ from \in Time /\ from \in Nat /\ from <= clock
            /\ spent[c][from][clock] \in Nat
            /\ spent'[c][from][clock] = spent[c][from][clock] + Cost
            /\ credit + spent[c][from][clock] <= Full + (clock - from)
      BY <1>2, <1>7, <1>9, <2>3, <2>8, <3>1, <3>2, SpentNat DEF Covered
    <3>4. \A from \in 0..clock :
            Advance(after, clock) + spent'[c][from][clock] <= Full + (clock - from)
      BY <1>3, <1>4, <1>7, <2>8, <3>1, <3>3
    <3>5. NothingAfter(c, clock)'
      <4> SUFFICES ASSUME NEW from \in Time, NEW to \in Time
                   PROVE  /\ clock < from => spent'[c][from][to] = 0
                          /\ from <= clock /\ clock <= to => spent'[c][from][to] = spent'[c][from][clock]
        BY <1>1 DEF NothingAfter
      <4>1. /\ spent'[c][from][to] = spent[c][from][to] + IF clock \in from..to THEN Cost ELSE 0
            /\ spent'[c][from][clock] = spent[c][from][clock] + IF clock \in from..clock THEN Cost ELSE 0
        BY <1>7, <2>3, <2>8, <3>1
      <4>2. /\ clock < from => spent[c][from][to] = 0
            /\ from <= clock /\ clock <= to => spent[c][from][to] = spent[c][from][clock]
        BY <3>2 DEF NothingAfter
      <4>3. from \in Nat /\ to \in Nat
        BY DEF Time
      <4>4. CASE clock \in from..to
        BY <3>1, <4>1, <4>2, <4>3, <4>4
      <4>5. CASE clock \notin from..to
        BY <3>1, <4>1, <4>2, <4>3, <4>5
      <4>6. QED
        BY <4>4, <4>5
    <3>6. Windows(c)'
      <4> SUFFICES ASSUME NEW from \in 0..clock, NEW to \in from..clock
                   PROVE  spent'[c][from][to] <= Full + (to - from)
        BY <1>1 DEF Windows
      <4>1. spent[c][from][to] <= Full + (to - from) /\ from \in Time /\ to \in Time /\ from <= clock
        BY <3>1, <3>2 DEF Windows, Time
      <4>2. CASE to = clock
        BY <1>3, <1>4, <1>10, <3>1, <3>3, <4>2
      <4>3. CASE to # clock
        <5>1. clock \notin from..to
          BY <3>1, <4>1, <4>3 DEF Time
        <5>2. spent'[c][from][to] = spent[c][from][to] + 0 /\ spent[c][from][to] \in Nat
          BY <1>7, <1>9, <2>3, <2>8, <4>1, <5>1 DEF SpentType
        <5>3. QED
          BY <4>1, <5>2
      <4>4. QED
        BY <4>2, <4>3
    <3>7. \A q \in Proc : Cancelling(q)' =>
            Cancelling(q) /\ serving'[q] = serving[q] /\ spent'[serving[q].client] = spent[serving[q].client]
      BY <1>7, <2>2, <2>3, <2>6, <2>8
    <3>8. QED
      BY <1>1, <1>2, <1>3, <1>7, <2>3, <2>8, <3>4, <3>5, <3>6, <3>7, BucketStep
  <2>9. QED
    BY <2>4, <2>5, <2>7, <2>8 DEF CreditInv
<1>11. CASE Wait(lim, now) # 0
  <2>1. /\ serving' = [serving EXCEPT ![p].at = "cancel", ![p].timeToAct = act]
        /\ UNCHANGED spent
        /\ act = now + (Cost - credit) /\ credit < Cost
    BY <1>1, <1>2, <1>3, <1>4, <1>11
  <2>2. /\ serving'[p].timeToAct = act /\ serving'[p].bucket = b /\ serving'[p].client = c
        /\ serving[p].at # "cancel"
    BY <1>a, <1>b, <1>1, <2>1 DEF Inv, TypesInv, ServingType
  <2>3. SpentType' /\ DistinctInv'
    BY <1>1, <2>1 DEF CreditInv, SpentType, DistinctInv
  <2>4. ASSUME Prompt, NEW q \in Proc, q # p, Cancelling(q)', serving'[q].bucket = b
        PROVE  Outstanding(q)' /\ serving'[q].timeToAct < act /\ serving'[q].timeToAct \in Int
    <3>1. Cancelling(q) /\ serving'[q] = serving[q]
      BY <1>6, <2>4 DEF Cancelling
    <3>2. /\ credit = lim.tokens /\ credit < 0 /\ lim.lastEvent = clock - credit
          /\ clock < serving[q].timeToAct /\ serving[q].timeToAct \in Int
          /\ lim.lastEvent - serving[q].timeToAct \in Multiples /\ lim.lastEvent \in Int
      BY <1>8, <2>4, <3>1
    <3>3. /\ lim.lastEvent - serving[q].timeToAct \in Nat
          /\ (lim.lastEvent - serving[q].timeToAct) + Cost \in Multiples
      BY <3>2, MultiplesFacts
    <3>4. after.lastEvent = lim.lastEvent + Cost /\ clock \in Int
      BY <1>3, <1>7, <2>1, <2>4, <3>2 DEF act, Inv, TypesInv
    <3>5. after.lastEvent - serving[q].timeToAct = (lim.lastEvent - serving[q].timeToAct) + Cost
      BY <3>2, <3>4
    <3>6. after.lastEvent - serving[q].timeToAct \in Multiples
      BY <3>3, <3>5
    <3>7. after.last = clock /\ after.lastEvent = clock - after.tokens
      BY <1>3, <1>4, <1>7, <2>4, <3>2, <3>4
    <3>8. limiter'[serving'[q].bucket] = after
      BY <1>5, <2>4
    <3>9. Outstanding(q)'
      BY <1>1, <3>1, <3>2, <3>6, <3>7, <3>8 DEF Outstanding
    <3>10. serving[q].timeToAct < act
      BY <3>2, <3>3, <3>4, RateAssumption DEF act
    <3>11. QED
      BY <3>1, <3>2, <3>9, <3>10
  <2>5. Prompt => StackInv'
    <3> SUFFICES ASSUME Prompt PROVE StackInv'
      OBVIOUS
    <3>1. Outstanding(p)'
      <4>1. clock < act /\ after.last = clock /\ after.lastEvent = clock - after.tokens /\ clock \in Int
        BY <1>2, <1>3, <1>4, <1>7, <2>1 DEF act
      <4>2. after.lastEvent - act = 0
        BY <1>3 DEF act, LimiterType
      <4>3. QED
        BY <1>1, <1>5, <2>2, <4>1, <4>2, MultiplesFacts DEF Outstanding
    <3>2. ASSUME NEW q \in Proc, q # p, Cancelling(q)', serving'[q].bucket # b PROVE Outstanding(q)'
      <4>1. Cancelling(q) /\ serving'[q] = serving[q]
        BY <1>6, <3>2 DEF Cancelling
      <4>2. Outstanding(q)
        BY <4>1 DEF CreditInv, StackInv
      <4>3. limiter'[serving'[q].bucket] = limiter[serving[q].bucket]
        BY <1>5, <1>7, <3>2, <4>1
      <4>4. QED
        BY <1>1, <4>1, <4>2, <4>3 DEF Outstanding
    <3>3. ASSUME NEW q \in Proc, NEW r \in Proc, q # r, Cancelling(q)', Cancelling(r)',
                 serving'[q].bucket = serving'[r].bucket
          PROVE  serving'[q].timeToAct # serving'[r].timeToAct
      <4>0. act \in Int
        BY <1>3 DEF act, LimiterType
      <4>1. CASE q = p
        BY <2>2, <2>4, <3>3, <4>0, <4>1
      <4>2. CASE r = p
        BY <2>2, <2>4, <3>3, <4>0, <4>2
      <4>3. CASE q # p /\ r # p
        BY <1>6, <3>3, <4>3 DEF CreditInv, StackInv, Cancelling
      <4>4. QED
        BY <4>1, <4>2, <4>3
    <3>4. \A q \in Proc : Cancelling(q)' => Outstanding(q)'
      BY <2>4, <3>1, <3>2
    <3>5. QED
      BY <3>3, <3>4 DEF StackInv
  <2>6. ASSUME Prompt, TTL >= Full PROVE BudgetInv'
    <3>1. BudgetInv /\ clock \in Nat
      BY <2>6 DEF CreditInv, Inv, TypesInv
    <3>2. Covered(c, credit) /\ NothingAfter(c, clock) /\ Windows(c)
      BY <1>2, <1>7, <2>6, <3>1 DEF BudgetInv, credit, lim
    <3>3. \A from \in 0..clock :
            Advance(after, clock) + spent'[c][from][clock] <= Full + (clock - from)
      <4>1. credit - Cost \in Int /\ credit - Cost <= credit
        BY <1>3
      <4>2. Covered(c, credit - Cost)
        BY <1>2, <1>3, <1>9, <3>2, <4>1, CoveredLess
      <4>3. QED
        BY <1>4, <1>7, <2>1, <2>6, <4>2 DEF Covered
    <3>4. Covered(serving[p].client, Cost + (clock - serving[p].timeToAct))'
      <4>1. Cost + (clock - act) = credit
        BY <1>2, <1>3, <1>7, <2>1, <2>6, <3>1
      <4>2. QED
        BY <1>1, <2>1, <2>2, <3>2, <4>1 DEF Covered
    <3>5. (NothingAfter(c, clock) /\ Windows(c))'
      BY <1>1, <2>1, <3>2 DEF NothingAfter, Windows
    <3>6. \A q \in Proc : Cancelling(q)' =>
            \/ Cancelling(q) /\ serving'[q] = serving[q] /\ spent'[serving[q].client] = spent[serving[q].client]
            \/ Covered(serving[q].client, Cost + (clock - serving[q].timeToAct))'
      BY <1>6, <2>1, <3>4 DEF Cancelling
    <3>7. \A d \in Client : d # c => spent'[d] = spent[d]
      BY <2>1
    <3>8. QED
      BY <1>1, <1>2, <1>3, <1>7, <2>6, <3>3, <3>5, <3>6, <3>7, BucketStep
  <2>7. QED
    BY <2>3, <2>5, <2>6 DEF CreditInv
<1>12. QED
  BY <1>10, <1>11

(* A reservation given back: only the top of the stack returns its token.   *)
LEMMA CancelCredit ==
  ASSUME Inv, CreditInv, NEW p \in Proc, Cancel(p) PROVE CreditInv'
<1>0. serving[p].at = "cancel" /\ Cancelling(p)
  BY DEF Cancel, Cancelling
<1>a. PICK c \in Client : c = serving[p].client
  BY <1>0 DEF Inv, ServingInv
<1>b. PICK b \in Bucket : b = serving[p].bucket
  BY <1>0, Constants DEF Inv, TypesInv, ServingInv, Bucket
<1> DEFINE now == serving[p].now
           act == serving[p].timeToAct
           lim == limiter[b]
           after == CancelAt(lim, act, now)
<1> USE Constants
<1>1. /\ limiter' = [limiter EXCEPT ![b] = after]
      /\ serving' = [serving EXCEPT ![p] = Idle]
      /\ UNCHANGED <<clock, buckets, inserts, lastSeen, spent>>
  BY <1>b DEF Cancel, Inv, TypesInv
<1>2. now \in Int /\ act \in Int /\ lim \in LimiterType /\ lim.tokens <= Full
  BY DEF Inv, TypesInv, ServingType
<1>3. limiter'[b] = after /\ \A o \in Bucket : o # b => limiter'[o] = limiter[o]
  BY <1>1 DEF Inv, TypesInv
<1>4. \A q \in Proc : Cancelling(q)' => q # p /\ Cancelling(q) /\ serving'[q] = serving[q]
  BY <1>1 DEF Cancelling, Idle, Inv, TypesInv
<1>5. SpentType' /\ DistinctInv'
  BY <1>1 DEF CreditInv, SpentType, DistinctInv
<1>6. Prompt => /\ now = clock /\ buckets[c] = b /\ lastSeen[b] = clock /\ b # None
                /\ \A q \in Proc : Cancelling(q) => /\ serving[q].bucket \in Bucket
                                                    /\ serving[q].client \in Client
  BY <1>0, <1>a, <1>b DEF Cancelling, Inv, TypesInv, ServingInv, SeenInv, OneBucketPerClient, Bucket
<1>7. ASSUME Prompt
      PROVE  /\ clock < act /\ lim.last = clock /\ lim.lastEvent = clock - lim.tokens
             /\ lim.lastEvent - act \in Multiples
  BY <1>0, <1>b, <1>7 DEF CreditInv, StackInv, Outstanding
<1> HIDE DEF now, act, lim, after
<1>8. ASSUME Prompt
      PROVE  /\ lim.lastEvent # act => after = lim
             /\ lim.lastEvent = act =>
                  /\ after \in LimiterType
                  /\ Advance(after, clock) <= Cost + (clock - act)
                  /\ after.last = clock
                  /\ act - Cost > clock =>
                       after.tokens = lim.tokens + Cost /\ after.lastEvent = act - Cost
  BY <1>2, <1>6, <1>7, <1>8, CancelAtFacts DEF after
<1>9. Prompt => StackInv'
  <2> SUFFICES ASSUME Prompt PROVE StackInv'
    OBVIOUS
  <2>1. ASSUME NEW q \in Proc, Cancelling(q)' PROVE Outstanding(q)'
    <3>1. Cancelling(q) /\ serving'[q] = serving[q] /\ q # p /\ Outstanding(q)
      BY <1>4, <2>1 DEF CreditInv, StackInv
    <3>2. CASE serving[q].bucket # b \/ lim.lastEvent # act
      <4>1. limiter'[serving[q].bucket] = limiter[serving[q].bucket]
        BY <1>3, <1>6, <1>8, <3>1, <3>2 DEF lim
      <4>2. QED
        BY <1>1, <3>1, <4>1 DEF Outstanding
    <3>3. CASE serving[q].bucket = b /\ lim.lastEvent = act
      <4> DEFINE other == serving[q].timeToAct
      <4>1. /\ clock < other /\ lim.lastEvent - other \in Multiples /\ other \in Int
            /\ lim.tokens \in Int /\ lim.lastEvent \in Int /\ clock \in Int
        BY <1>2, <3>1, <3>3 DEF Outstanding, lim, LimiterType, Inv, TypesInv, ServingType
      <4>2. other # act
        BY <1>0, <1>b, <3>1, <3>3 DEF CreditInv, StackInv, act
      <4> HIDE DEF other
      <4>3. /\ act - other >= Cost /\ (act - other) - Cost \in Multiples
        BY <1>2, <3>3, <4>1, <4>2, MultiplesFacts
      <4>4. act - Cost > clock
        BY <1>2, <4>1, <4>3
      <4>5. /\ after.tokens = lim.tokens + Cost /\ after.lastEvent = act - Cost /\ after.last = clock
        BY <1>8, <3>3, <4>4
      <4>6. (act - other) - Cost = (act - Cost) - other
        BY <1>2, <4>1
      <4>7. after.lastEvent - other \in Multiples
        BY <4>3, <4>5, <4>6
      <4>8. after.lastEvent = clock - after.tokens
        BY <1>2, <1>7, <3>3, <4>1, <4>5
      <4>9. limiter'[serving'[q].bucket] = after /\ serving'[q].timeToAct = other
        BY <1>3, <3>1, <3>3 DEF other
      <4>10. QED
        BY <1>1, <4>1, <4>5, <4>7, <4>8, <4>9 DEF Outstanding
    <3>4. QED
      BY <3>2, <3>3
  <2>2. QED
    BY <1>4, <2>1 DEF CreditInv, StackInv
<1>10. ASSUME Prompt, TTL >= Full PROVE BudgetInv'
  <2>1. BudgetInv /\ SpentType /\ clock \in Int
    BY <1>10 DEF CreditInv, Inv, TypesInv
  <2>2. /\ Covered(c, Advance(lim, clock)) /\ NothingAfter(c, clock) /\ Windows(c)
        /\ Covered(c, Cost + (clock - act))
    BY <1>0, <1>a, <1>6, <1>10, <2>1 DEF BudgetInv, lim, act
  <2>3. \A from \in 0..clock :
          Advance(after, clock) + spent[c][from][clock] <= Full + (clock - from)
    <3>1. CASE lim.lastEvent # act
      BY <1>8, <1>10, <2>2, <3>1 DEF Covered
    <3>2. CASE lim.lastEvent = act
      <4>1. /\ Advance(after, clock) \in Int /\ Cost + (clock - act) \in Int
            /\ Advance(after, clock) <= Cost + (clock - act)
        BY <1>2, <1>8, <1>10, <2>1, <3>2, AdvanceBound
      <4>2. Covered(c, Advance(after, clock))
        BY <2>1, <2>2, <4>1, CoveredLess
      <4>3. QED
        BY <4>2 DEF Covered
    <3>3. QED
      BY <3>1, <3>2
  <2>4. (NothingAfter(c, clock) /\ Windows(c))'
    BY <1>1, <2>2 DEF NothingAfter, Windows
  <2>5. after \in LimiterType
    BY <1>2, <1>8, <1>10
  <2>6. \A q \in Proc : Cancelling(q)' =>
          Cancelling(q) /\ serving'[q] = serving[q] /\ spent'[serving[q].client] = spent[serving[q].client]
    BY <1>1, <1>4
  <2>7. spent' = spent
    BY <1>1
  <2>8. QED
    BY <1>1, <1>6, <1>10, <2>3, <2>4, <2>5, <2>6, <2>7, BucketStep
<1>11. QED
  BY <1>5, <1>9, <1>10 DEF CreditInv

(* The invariant about the credit holds in every reachable state.           *)
THEOREM CreditCorrect == Spec => []CreditInv
<1>1. Inv /\ Inv' /\ CreditInv /\ [Next]_vars => CreditInv'
  <2> SUFFICES ASSUME Inv, Inv', CreditInv, [Next]_vars PROVE CreditInv'
    OBVIOUS
  <2>1. CASE UNCHANGED vars
    <3>1. UNCHANGED <<clock, buckets, lastSeen, limiter, serving, spent>>
      BY <2>1 DEF vars
    <3>2. SpentType' /\ DistinctInv'
      BY <3>1 DEF CreditInv, SpentType, DistinctInv
    <3>3. Prompt => StackInv'
      BY <3>1 DEF CreditInv, StackInv, Outstanding, Cancelling
    <3>4. ASSUME Prompt, TTL >= Full PROVE BudgetInv'
      <4>1. BudgetInv
        BY <3>4 DEF CreditInv
      <4>2. \A c \in Client : (NothingAfter(c, clock) /\ Windows(c))'
        BY <3>1, <4>1 DEF BudgetInv, NothingAfter, Windows
      <4>3. \A c \in Client : buckets'[c] = None => Fresh(c)'
        BY <3>1, <4>1 DEF BudgetInv, Fresh, Covered
      <4>4. \A c \in Client : buckets'[c] # None =>
              /\ NothingAfter(c, lastSeen[buckets[c]])'
              /\ Covered(c, Advance(limiter[buckets[c]], clock))'
        BY <3>1, <4>1 DEF BudgetInv, NothingAfter, Covered
      <4>5. \A q \in Proc : Cancelling(q)' =>
              Covered(serving[q].client, Cost + (clock - serving[q].timeToAct))'
        BY <3>1, <4>1 DEF BudgetInv, Covered, Cancelling
      <4>6. QED
        BY <4>2, <4>3, <4>4, <4>5 DEF BudgetInv
    <3>5. QED
      BY <3>2, <3>3, <3>4 DEF CreditInv
  <2>2. CASE Next
    BY <2>2, ArriveCredit, LookupCredit, ReserveCredit, CancelCredit, TickCredit DEF Next
  <2>3. QED
    BY <2>1, <2>2
<1>2. QED
  BY InvCorrect, InitCredit, <1>1, PTL DEF Spec

(* The promise of the limiter: while requests are served within a tick and  *)
(* no bucket is forgotten before it would be full, no window of time lets a *)
(* client through more often than a burst and what trickles in.             *)
THEOREM WithinBudgetCorrect == Spec => [](Prompt /\ TTL >= Full => WithinBudget)
<1>1. CreditInv => (Prompt /\ TTL >= Full => WithinBudget)
  BY DEF CreditInv, BudgetInv, Windows, WithinBudget
<1>2. QED
  BY CreditCorrect, <1>1, PTL

(* Under the same conditions a client the sweep forgot has lost nothing and *)
(* won nothing: the new bucket is what its old one would have become.       *)
THEOREM EvictionCorrect == Spec => [](Prompt /\ TTL >= Full => EvictionIsFair)
<1>1. ASSUME Inv, CreditInv, Prompt, TTL >= Full, NEW c \in Client, buckets[c] = None
      PROVE  Ideal(c) = Full
  <2> DEFINE left == {Full + (clock - s) - spent[c][s][clock] : s \in 0..clock}
  <2>1. Fresh(c) /\ SpentType
    BY <1>1 DEF CreditInv, BudgetInv
  <2>2. ASSUME NEW x \in {Full} \cup left PROVE x \in Int /\ Full <= x
    <3>1. CASE x = Full
      BY <3>1, Constants
    <3>2. CASE x \in left
      <4>1. PICK s \in 0..clock : x = Full + (clock - s) - spent[c][s][clock]
        BY <3>2
      <4>2. Full + spent[c][s][clock] <= Full + (clock - s)
        BY <2>1 DEF Fresh, Covered
      <4>3. clock \in Nat /\ s \in Nat /\ spent[c][s][clock] \in Nat /\ Full \in Nat
        BY <1>1, <2>1, SpentNat, Constants
      <4>4. QED
        BY <4>1, <4>2, <4>3
    <3>3. QED
      BY <3>1, <3>2
  <2> HIDE DEF left
  <2> DEFINE m == CHOOSE x \in {Full} \cup left : \A y \in {Full} \cup left : x <= y
  <2>3. m \in {Full} \cup left /\ \A y \in {Full} \cup left : m <= y
    <3>1. \E x \in {Full} \cup left : \A y \in {Full} \cup left : x <= y
      BY <2>2
    <3>2. QED
      BY <3>1
  <2>4. m = Full
    <3>1. m \in Int /\ Full <= m /\ m <= Full
      BY <2>2, <2>3
    <3>2. QED
      BY <3>1, Constants
  <2>5. Ideal(c) = m
    BY DEF Ideal, Min, left
  <2>6. QED
    BY <2>4, <2>5
<1>2. Inv /\ CreditInv => (Prompt /\ TTL >= Full => EvictionIsFair)
  BY <1>1 DEF EvictionIsFair
<1>3. QED
  BY InvCorrect, CreditCorrect, <1>2, PTL
=============================================================================
