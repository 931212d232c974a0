----------------------------- MODULE RateLimiter -----------------------------
(****************************************************************************)
(* middleware/ratelimit.go: a token bucket per client, kept in a map that   *)
(* one mutex guards, and golang.org/x/time/rate below it with a mutex of    *)
(* its own.  A request reads the clock, finds its bucket under the first    *)
(* mutex, reserves a token under the second, and gives it back in a further *)
(* step when it cannot have it at once: between any two of these, requests  *)
(* of the same client and of others may come in.                            *)
(*                                                                          *)
(* Credit is counted in ticks: a request costs Cost ticks, a bucket refills *)
(* by one per tick up to Burst * Cost.                                      *)
(****************************************************************************)
EXTENDS Integers, FiniteSetsExt

CONSTANTS
  Proc,         \* the goroutines that serve requests
  Client,       \* the keys of the buckets
  None,
  Burst,        \* requests a client may make back to back
  Cost,         \* ticks per token: 1 / RPS
  TTL,          \* ticks a bucket survives without use
  SweepEvery,   \* every so many new buckets, the idle ones are dropped
  Prompt,       \* whether a request is served within the tick it read the clock
  MaxTime,      \* bound on the clock
  MaxInserts,   \* bound on the number of buckets made
  MaxDebt       \* bound on the credit a bucket is short of when a request comes in

ASSUME RateAssumption ==
  /\ {Burst, Cost, TTL, SweepEvery} \subseteq Nat \ {0}
  /\ {MaxTime, MaxInserts, MaxDebt} \subseteq Nat
  /\ Prompt \in BOOLEAN
  /\ None \notin Nat \cup Client

Full == Burst * Cost

VARIABLES
  clock,      \* time.Now
  buckets,    \* client -> its bucket in the map, or None
  inserts,    \* buckets made so far; they are numbered in this order
  lastSeen,   \* bucket -> when it was last looked up
  limiter,    \* bucket -> its rate.Limiter
  serving,    \* goroutine -> the request it serves
  spent       \* history variable: client -> from -> to -> credit it was let through for

vars == <<clock, buckets, inserts, lastSeen, limiter, serving, spent>>

Time == 0..MaxTime

Bucket == 1..MaxInserts

Idle == [at |-> "idle", client |-> None, now |-> 0, bucket |-> None, timeToAct |-> 0]

Init ==
  /\ clock = 0
  /\ buckets = [c \in Client |-> None]
  /\ inserts = 0
  /\ lastSeen = [b \in Bucket |-> 0]
  /\ limiter = [b \in Bucket |-> [tokens |-> Full, last |-> 0, lastEvent |-> 0]]
  /\ serving = [p \in Proc |-> Idle]
  /\ spent = [c \in Client |-> [from \in Time |-> [to \in Time |-> 0]]]

Capped(credit) == IF credit > Full THEN Full ELSE credit

-----------------------------------------------------------------------------
(* golang.org/x/time/rate, in ticks of credit.                              *)

(* A mistake: an idle bucket fills without end.                             *)
AdvanceUncapped(lim, t) == lim.tokens + IF t < lim.last THEN 0 ELSE t - lim.last

(* Limiter.advance(): the credit at time t; a t in the past adds nothing.   *)
Advance(lim, t) == Capped(lim.tokens + IF t < lim.last THEN 0 ELSE t - lim.last)

Wait(lim, t) == IF Advance(lim, t) < Cost THEN Cost - Advance(lim, t) ELSE 0

(* Limiter.ReserveN(t, 1): the credit may go below zero.                    *)
ReserveN(lim, t) ==
  [tokens |-> Advance(lim, t) - Cost, last |-> t, lastEvent |-> t + Wait(lim, t)]

(* Reservation.CancelAt(t): what was reserved after it is not restored.     *)
CancelAt(lim, timeToAct, t) ==
  LET restore == Cost - (lim.lastEvent - timeToAct)
      previous == timeToAct - Cost
  IN  IF timeToAct < t \/ restore <= 0 THEN lim
      ELSE [tokens |-> Capped(Advance(lim, t) + restore),
            last |-> t,
            lastEvent |-> IF timeToAct = lim.lastEvent /\ previous >= t THEN previous
                                                                       ELSE lim.lastEvent]

-----------------------------------------------------------------------------
(* RateLimit(): a request of a client, with the clock it will be judged by. *)
Arrive(p, c) ==
  /\ serving[p].at = "idle"
  /\ buckets[c] # None => limiter[buckets[c]].tokens >= -MaxDebt
  /\ serving' = [serving EXCEPT ![p] = [Idle EXCEPT !.at = "lookup", !.client = c, !.now = clock]]
  /\ UNCHANGED <<clock, buckets, inserts, lastSeen, limiter, spent>>

(* A mistake: a sweep empties the map.                                      *)
SweptWhole(m, seen, now) == [c \in Client |-> None]

(* sweepLocked(): what is left of a map m.                                  *)
Swept(m, seen, now) ==
  [c \in Client |-> IF m[c] # None /\ now - seen[m[c]] > TTL THEN None ELSE m[c]]

(* A mistake: only a new bucket is marked as seen.                          *)
LookupUnseen(p) ==
  LET c == serving[p].client
      now == serving[p].now
      isNew == buckets[c] = None
      b == IF isNew THEN inserts + 1 ELSE buckets[c]
      seen == IF isNew THEN [lastSeen EXCEPT ![b] = now] ELSE lastSeen
      added == [buckets EXCEPT ![c] = b]
  IN  /\ serving[p].at = "lookup"
      /\ isNew => inserts < MaxInserts
      /\ inserts' = IF isNew THEN inserts + 1 ELSE inserts
      /\ lastSeen' = seen
      /\ buckets' = IF isNew /\ inserts' % SweepEvery = 0 THEN Swept(added, seen, now) ELSE added
      /\ serving' = [serving EXCEPT ![p].at = "reserve", ![p].bucket = b]
      /\ UNCHANGED <<clock, limiter, spent>>

(* allow(), the part under the mutex.                                       *)
Lookup(p) ==
  LET c == serving[p].client
      now == serving[p].now
      isNew == buckets[c] = None
      b == IF isNew THEN inserts + 1 ELSE buckets[c]
      seen == [lastSeen EXCEPT ![b] = now]
      added == [buckets EXCEPT ![c] = b]
  IN  /\ serving[p].at = "lookup"
      /\ isNew => inserts < MaxInserts
      /\ inserts' = IF isNew THEN inserts + 1 ELSE inserts
      /\ lastSeen' = seen
      /\ buckets' = IF isNew /\ inserts' % SweepEvery = 0 THEN Swept(added, seen, now) ELSE added
      /\ serving' = [serving EXCEPT ![p].at = "reserve", ![p].bucket = b]
      /\ UNCHANGED <<clock, limiter, spent>>

(* A client is let through: every window with that time in it has a cost    *)
(* more.                                                                    *)
Spend(c, now) ==
  spent' = [spent EXCEPT ![c] =
              [from \in Time |->
                 [to \in Time |-> @[from][to] + IF now \in from..to THEN Cost ELSE 0]]]

(* A mistake: a delay of one tick is let through.                           *)
ReserveLenient(p) ==
  LET b == serving[p].bucket
      now == serving[p].now
      after == ReserveN(limiter[b], now)
  IN  /\ serving[p].at = "reserve"
      /\ limiter' = [limiter EXCEPT ![b] = after]
      /\ \/ /\ Wait(limiter[b], now) <= 1
            /\ serving' = [serving EXCEPT ![p] = Idle]
            /\ Spend(serving[p].client, now)
         \/ /\ Wait(limiter[b], now) > 1
            /\ serving' = [serving EXCEPT ![p].at = "cancel", ![p].timeToAct = after.lastEvent]
            /\ UNCHANGED spent
      /\ UNCHANGED <<clock, buckets, inserts, lastSeen>>

(* allow(), the reservation: a delay of zero lets the request through.      *)
Reserve(p) ==
  LET b == serving[p].bucket
      c == serving[p].client
      now == serving[p].now
      after == ReserveN(limiter[b], now)
  IN  /\ serving[p].at = "reserve"
      /\ limiter' = [limiter EXCEPT ![b] = after]
      /\ \/ /\ Wait(limiter[b], now) = 0
            /\ serving' = [serving EXCEPT ![p] = Idle]
            /\ Spend(c, now)
         \/ /\ Wait(limiter[b], now) > 0
            /\ serving' = [serving EXCEPT ![p].at = "cancel", ![p].timeToAct = after.lastEvent]
            /\ UNCHANGED spent
      /\ UNCHANGED <<clock, buckets, inserts, lastSeen>>

(* allow(), giving the token back; the client gets a 429.                   *)
Cancel(p) ==
  LET b == serving[p].bucket
  IN  /\ serving[p].at = "cancel"
      /\ limiter' = [limiter EXCEPT ![b] = CancelAt(@, serving[p].timeToAct, serving[p].now)]
      /\ serving' = [serving EXCEPT ![p] = Idle]
      /\ UNCHANGED <<clock, buckets, inserts, lastSeen, spent>>

Quiet == \A p \in Proc : serving[p].at = "idle"

(* Time passes.                                                             *)
Tick ==
  /\ clock < MaxTime
  /\ Prompt => Quiet
  /\ clock' = clock + 1
  /\ UNCHANGED <<buckets, inserts, lastSeen, limiter, serving, spent>>

Next ==
  \/ \E p \in Proc : \/ \E c \in Client : Arrive(p, c)
                     \/ Lookup(p) \/ Reserve(p) \/ Cancel(p)
  \/ Tick

Spec == Init /\ [][Next]_vars

-----------------------------------------------------------------------------
(* Properties.                                                              *)

(* The types of the store, and a bucket for every request past the lookup.  *)
TypeOK ==
  /\ clock \in Time
  /\ buckets \in [Client -> Bucket \cup {None}]
  /\ inserts \in 0..MaxInserts
  /\ lastSeen \in [Bucket -> Time]
  /\ \A b \in Bucket : limiter[b].tokens \in Int /\ limiter[b].tokens <= Full
  /\ \A p \in Proc :
       /\ serving[p].at \in {"idle", "lookup", "reserve", "cancel"}
       /\ serving[p].at \in {"reserve", "cancel"} => serving[p].bucket \in 1..inserts

(* An ideal bucket, which knows nothing but what was let through: the       *)
(* credit it has left is that of its tightest window up to now.             *)
Ideal(c) ==
  Min({Full} \cup {Full + (clock - s) - spent[c][s][clock] : s \in 0..clock})

(* In no window of time is a client let through more often than Burst plus  *)
(* one request per Cost ticks.                                              *)
WithinBudget ==
  \A c \in Client : \A s \in 0..clock : \A e \in s..clock :
    spent[c][s][e] <= Full + (e - s)

(* Forgetting a client changes nothing for it: its bucket would be full.    *)
EvictionIsFair ==
  \A c \in Client :
    buckets[c] = None /\ (\A p \in Proc : serving[p].client # c) => Ideal(c) = Full

(* A client has one bucket: whoever serves it holds the one in the map, so  *)
(* a sweep never splits a client's allowance in two.                        *)
OneBucketPerClient ==
  \A p \in Proc : serving[p].bucket # None => buckets[serving[p].client] = serving[p].bucket

(* A request that was turned away leaves no trace: with nobody being        *)
(* served, a bucket holds exactly what the ideal one does.                  *)
RejectionIsFree ==
  Quiet => \A c \in Client :
             buckets[c] # None => Advance(limiter[buckets[c]], clock) = Ideal(c)
=============================================================================
