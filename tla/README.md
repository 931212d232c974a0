# A verification of go-react-calculator

TLA+ modules beside the calculator's source: what the program does, as state machines; what it
must never do, as properties that TLC checks on small instances; and proofs, checked by TLAPS, of
the properties that matter most for every value of the parameters. All paths below are relative
to the repository (`src/`).

## 1. The system

A browser page (`frontend/src`, React with zustand stores) sends one calculation at a time to a
stateless Go server (`backend`), which computes it and answers with a result or with an
`application/problem+json` document. The page keeps a history of results in `localStorage`.

```
 keypad, keyboard                         apiFetch, 10 s deadline
 ------------> useCalculatorStore ------------------------------> Recover
                 |  calculator-engine (pure)                        Logger
                 |  <- answer or ApiError -----                      Timeout -- goroutine boundary --
   Display <-----+                                                    SecurityHeaders, CORS
                 v                                                      RateLimit
               useHistoryStore -> localStorage <- other tabs              Metrics
                                                                            router -> httpapi -> calc
```

| component | state it keeps | operations | what is hard about it | what makes it correct |
|---|---|---|---|---|
| Engine, `lib/calculator-engine.ts` | phase, display text, operands, operator, error, last `=` request | one pure function per key, `applyResult`, `applyError`, `expressionOf` | long key sequences; text and number are two views of one thing | operands are there when needed; display, line and operand agree; entry text is a number; no negative zero |
| Store, `stores/useCalculatorStore.ts` | engine state, `pending`, error id, `canRetry`, ticket, last request | keys, AC, retry, recall, setEvaluator, settle | answers arrive after AC and in any order; failure and retry | only the awaited answer counts; keys are never locked for good |
| Keypad, bar and keyboard, `Keypad.tsx`, `OperationsBar.tsx`, `use-keyboard.ts`, `Calculator.tsx` | `busy` as rendered, the shake | click, keydown, retry, recall | guards that look at an old render; guards written twice | a late key is harmless; the shake tells the truth |
| Display, `Display.tsx`, `format-number.ts` | none | formatting of the value and the line | exponents, grouping, rounding, texts nobody typed | never throws; what is read is the number the next key works with |
| History, `stores/useHistoryStore.ts`, `lib/storage.ts`, `HistoryPanel.tsx` | list of entries, its copy in `localStorage`, the armed clear button | add, remove, clear, recall, load | refused writes, reloads, late answers, unreadable text, a second tab | real answers only, newest first, capped, stable over reloads |
| API client, `lib/api.ts`, `query-config.ts`, `use-operations.ts` | none | apiFetch, retry, fallback catalog | timeout against abort, cut and foreign bodies, retries | an answer is the one asked for; a failure has its cause; always ends |
| HTTP API and arithmetic, `httpapi`, `calc`, CORS | registry | preflight, decode, validate, evaluate, map errors | order of checks, overflow, non-finite values | every request has the documented outcome |
| Timeout and recorders, `middleware/{timeout,recover,logger,metrics,responsewriter}.go` | one response shared by two goroutines; log and metrics | write, return, panic; deadline, disconnect; select | every race of those | one owner of the response, one report, no write after return |
| Rate limiter, `middleware/ratelimit.go` | map of token buckets, limiter per bucket | allow, sweep | two mutexes and a step outside each; clock read early | nobody exceeds the budget; eviction and rejection are harmless |
| Lifecycle, `cmd/server/main.go` | readiness flag, listener, deadlines | run, select, drain | signals, failures of Serve, requests in flight at shutdown | the door closes after the platform knows; begun requests are answered; the exit status is right |

## 2. The modules

| module | models | proved about in |
|---|---|---|
| `EntryText` | the text of an entry and the edits the keys make to it | `PageProofs` |
| `CalculatorEngine` | the engine: one operator per transition function, and the expression line | `CalculatorStoreProofs` |
| `CalculatorStore` | the store, and the calls that are out | `CalculatorStoreProofs` |
| `CancellableCall` | abstract: what the user is promised about a call | `CalculatorStoreProofs` |
| `Page` | keypad, bar, keyboard, late renders, shake; composes `CalculatorStore` | `PageProofs` |
| `Display` | what is read: the formatted value and line; composes `CalculatorStore` | `DisplayProofs` |
| `Calculator` | store, history, `localStorage`, two tabs, reload; composes `CalculatorStore` | `HistoryProofs` |
| `ApiClient` | `apiFetch`'s verdicts, retries, schemas, fallback catalog | `RoundTripProofs` |
| `HttpApi`, `Arithmetic`, `Float64` | routing, decoding, validation, operations over small floats | `RoundTripProofs` |
| `RoundTrip` | one call from the page through network and server and back; composes the four above | `RoundTripProofs` |
| `Evaluation` | abstract: what the page is promised about one call | `RoundTripProofs` |
| `RequestTimeout` | one request through Recover, Logger, Timeout, Metrics | `RequestTimeoutProofs` |
| `RateLimiter` | the bucket map and `golang.org/x/time/rate` | `RateLimiterProofs` |
| `Lifecycle` | one process from start to exit, its connections, and the platform's probe | `LifecycleProofs` |
| `JsNumber` | external: `Number(text)`, `String(number)`, `toPrecision`, `toExponential` | `DisplayProofs` |
| `MC*` | small instances for TLC | |

Operators introduced by a comment that starts with "A mistake" are variants of the operator that
follows them, with a bug someone could plausibly write. They are used by no specification; putting
one in place of the operator it varies makes TLC find the property it is meant for violated, which
shows that the property says something about the code.

### Engine and store

`CalculatorEngine` is parameterised by the numbers (`Number`, `NumberOf`, `StringOf`, `Neg`) and by
the texts a display may hold, so the proofs hold for any arithmetic that satisfies
`NumberAssumption` and `TextAssumption`; `JsNumber` gives TLC ECMAScript's conversions, with their
thresholds for exponents, on exact decimals: it does not round to 53 bits, which is why the entries
of the instances stay short. A transition is a record `[state, effect]`, as in the code; the
`exhausted` fallbacks stand for unreachable branches and have no counterpart: a phase outside the
six would make TLC stop with an error.

JavaScript runs one handler at a time, so every operation of `CalculatorStore` is one action, with
all the sets it makes. What interleaves are the promises: `calls` holds every evaluation that has
not settled, also those AC has abandoned; `Answer` decides its outcome (at the server or in
`apiFetch`), `Settle` runs the callback, in any order. `ticket` is the closure variable of the
store. The id of a failed request is represented by its ticket: the server gives one per request.
Three facts come from outside the store: an operand that is not finite is `null` in JSON, so the
server refuses it (`Answer`'s guard); the server never answers NaN, an infinity or a negative
zero (`calc.go:71-104`, `StoreAssumption`); and `String()` of what it does answer begins, after the
sign, with a digit, has no zero in front of another digit and one point at most (ECMAScript;
`NormalEntry` in `StoreAssumption`). `RoundTrip` has the first two as part of its own model; the
third is proved of `JsNumber`'s `String()` (`StringIsNormal`).

`CancellableCall` says the same with no tickets and at most one call: while a call is out the
screen stands still, it ends with its own outcome or by being cancelled, and a cancelled call is
never heard of again. The refinement maps the screen to `calc` and the call to the element of
`calls` that carries the current ticket while the store is pending.

`expressionOf` is a sequence of words, not a string. Two things about it are worth knowing: after a
unary key the line still names the last `=`, and while the answer to a chained operator is awaited
it reads `0` and the operator, because the left operand is not there yet.

### Page

`Page` puts the buttons and shortcuts in front of the store. `busy` is the value of the last render:
it disables the keys and stills the keyboard listener, through a ref that an effect updates after
the render. `Render` may come at any time after a change, which over-approximates React (a click
flushes its own render). The guards of `Calculator.tsx` decide about the shake before the store is
asked; the shake ends by itself. A shortcut prevents the default action of the key, so Enter on a
focused button evaluates instead of pressing it. Not followed: the flash of a pressed shortcut, focus
rings, the opening of the history panel.

### Display

`Display` has no state: `displayValue` and `displayExpression` are functions of the store's state,
as in the component. `Grouped` is `Intl.NumberFormat`, which keeps three decimals; the only numbers
that reach it are integers and numbers below 1e-6. `DEFAULT_MAX_SIGNIFICANT` is a constant, 12 in
the code, so that a short number can be longer than it.

Grouping and the texts of `JsNumber` are written by place (which character stands where), because that
is what can be reasoned about without induction; only `JsInt` and `WithoutCommas`, which walk along a
text, are recursive functions. `JsNumberOf` cuts a text at its first `e` and its first point, as
ECMAScript's grammar does.

### History

`Calculator` replaces `Settle` by `SettleRecorded`: the evaluator of `Calculator.tsx` adds an entry
for every successful response before the store's callback sees it, and nothing runs in between.
The operands of an entry are those of the response, which echoes the request. `localStorage` may
refuse any write; `writeJSON` drops it silently. What an earlier visit left (`Stored`) is nothing, a
list, or text `readJSON` cannot read. `Reload` restarts both stores at any moment; it keeps `ticket`
(the code starts from 0 again) so that `MaxTicket` bounds the whole behaviour, which is harmless
because all calls of the old page are gone. `OtherTab` is a second page over the same disk: nothing
listens for `storage` events, so each tab writes its own list over the other's, and the last writer
wins. `Without` is `Array.filter` without recursion: position `n` of the result is the `n`-th index
that is kept. That loss is by design; the properties say what each tab may still rely on. `answers` and
`owner` are history variables: what the server really answered, and whose panel the disk holds.

The clear button asks twice. `CancelClear` is the loss of focus or Escape, which the window's
listener takes for AC as well. Safari gives a clicked button no focus, so there the button stays
armed until Escape; `CancelClear` is therefore never forced. The button's `resetTimeout` is never
set in the code and has no counterpart. `migrateKeys` is left out: it deletes every other version of
a key, newer ones included, and there is only one version.

### One call, from page to server and back

`RoundTrip` composes `ApiClient` with the server. A call is a calculation or the query for the
operations; a query is tried twice (`QUERY_RETRY`), a mutation once. The server's state is kept by
attempt because what an abandoned attempt started goes on. `ApiClient` has the verdicts of
`apiFetch`: `rejection` for a fetch that rejects (timeout before abort before network), `answerOf`
for a body (status, JSON, problem schema, response schema). Between them anything may answer: a
proxy's page, HTML with status 200, JSON of another service, a newer backend. The middlewares are
folded into their effect on the answer (the CORS headers, the request ID, a 429, a 500, a 503, a
body cut short); their own races are the subject of `RequestTimeout` and `RateLimiter`.
Clients other than the page send the requests the page never does (`OtherRequest`).

`Float64` has a one-bit significand and exponents up to `MaxExp`, with signed zeros, infinities and
NaN; `Arithmetic` is `calc.go` over it, with 2 for the 100 of a percentage. Rounding, overflow and
underflow happen at every second operation. `Expected`, the reference it is compared with, computes
with a wider range. `Evaluation` is the promise: a call ends once, with the right result or a
refusal that applies to it. JSON of another service that carries a `code` of its own and a body
whose `status` contradicts the response's are not in the instance.

### Timeout

`RequestTimeout` follows the chain of `cmd/server/main.go:131-150`. The outer goroutine is in
`Recover > Logger > Timeout`; the handler's goroutine runs everything below and shares the
`timeoutWriter`. Each critical section of `timeoutWriter.mu` is one action. `recorder.Write` calls
`WriteHeader` and then `Write`, two sections; that is `WriteHeader(200)` followed by `Write`.
`Flush` is `WriteHeader(200)`. `metered` is false for a request that CORS or the rate limiter
answered before Metrics. `select` takes any case that is ready, so `SelectDone`, `SelectPanicked`
and `SelectExpired` are alternatives.

### Rate limiter

`RateLimiter` splits a request where the code lets go of a lock: `Arrive` reads the clock (before
any lock), `Lookup` is the section under the store's mutex with the sweep, `Reserve` is
`ReserveN` under the limiter's own mutex, `Cancel` is `CancelAt`. Buckets are numbered as they are
made, so a request may hold one that has been swept from the map. Credit is counted in clock ticks:
a request costs `Cost` ticks and a bucket refills one tick per tick.

### Lifecycle

`Lifecycle` runs the main goroutine (`run`, `drain`), the goroutine in `srv.Serve`, the connections
and the platform side by side. A tick passes only when every goroutine waits, so durations are
compared exactly. `net/http` is modelled from its use: Serve registers the listener unless Shutdown
came first, Shutdown waits for Serve to let go of it and polls for idle connections, and Serve after
Shutdown returns `ErrServerClosed`. A connection that is accepted and not read yet counts as active;
a request on a keep-alive connection that was just closed is the client's to send again and is not
modelled. The platform routes by its last probe.

## 3. The runs

| run | instance | states | shows |
|---|---|---|---|
| `store` | one digit, entries of one digit, one operator, results 7 and 0, two failures (one that can be retried), `MaxTicket` 3 | 193 thousand | consistency of the store and its line, refinement of `CancellableCall`, `EventuallyIdle` |
| `entry` | digits 0 and 7, entries of two digits, results -7007.7 and 7e15, three digits shown, one request and its retry, every key and shortcut | 61 thousand | entry text stays one number; what is read is what is meant; late keys; the shake |
| `history` | `MAX_HISTORY_ENTRIES` 2, an earlier visit with nothing, an entry or unreadable text, `MaxTicket` 2, two tabs, no digit keys | 342 thousand | panels, disk and answers agree over refused writes, reloads, late answers and the other tab |
| `timeout` | statuses 200 and 422, two pieces of body | 692 | every race of one request, and that it ends |
| `ratelimit` | two goroutines, two clients, burst 1, sweep every 2 buckets, clock to 5 | 272 thousand | budget, eviction, one bucket per client |
| `lifecycle` | two connections, probe every 2 ticks, four deployments | 7 thousand | drain, exit status, and that a signal ends the process |
| `roundtrip` | every operation on every pair of finite floats, the query, 103 requests the page never sends, three kinds of origin | 155 thousand | refinement of `Evaluation`, attribution of failures, documented answers, CORS |

Five further runs each find a counterexample to a sentence of the repository (section 6).

**Bounds, and why they are enough.** Three tickets let an answer be abandoned, a second request
fail, and a third be sent by retry while both others are still out; more would repeat that. The
proofs have no such bound. One digit in `store`
reaches every phase; the text edits are checked in `entry`, where a recalled or computed number is
longer than what may be typed and carries a sign and a point: -7007.7 is longer than what is shown and
long enough for a comma, and 7e15 is shown with an exponent and kept by the engine without one. Three
conditions bound what `entry` follows. `RetryOnly`: the second ticket is for a retry from the error
phase, because what a press may change does not depend on how many requests went before; a request
sent while an answer is awaited, which `StaleKeysAreHarmless` forbids, would not be cut off.
`ShortSums`: the left operand of a sum is zero or a result. `LongStaysLong`: a recalled result of
sixteen digits may grow, be replaced or be used, and is not taken back digit by digit. The proofs have
none of the three. One operator is enough because no property distinguishes operators; the theorems
quantify over all of them. For a result the engine keeps with an exponent `DisplayTellsTheNumber` fails
(`exponent_entry`, section 6), which is why `entry` has none. `MAX_HISTORY_ENTRIES` 2 with three
answers drops an entry and keeps an order; square roots and percentages of the one result tell
entries apart. One request is enough for the timeout: requests share nothing but counters and the
log. `MaxWrites` 2 has a first and a later write. In `ratelimit`, two requests at once are enough
for every interleaving of reserve and cancel, three buckets for a sweep that hits the other client,
five ticks for a bucket to be used, expire and be made again. `MaxDebt` keeps further requests away
from a bucket that is already two ticks short. `MaxPoint` and `TinyPoint` (40) are out of reach and
stand for the range of a float64. The four deployments of `lifecycle` are one that keeps to
`ARCHITECTURE.md:234-235` (a pre-stop delay of about twice the probe period), one without a delay,
one whose requests have no deadline, and one whose requests may outlast the drain. Two connections
are one that is served while the other is queued. A call is alone in `roundtrip`: the backend keeps
nothing between requests but what `RateLimiter` models.

**Assumptions the rate limiter's run and theorems make.** `Prompt`: a request is served within the tick it read
the clock. Without it `WithinBudget` fails: a request that reserves with an old time sets the
limiter's clock back, and the time since is credited twice. And the TTL is no shorter than a full
refill (`TTL >= Burst * Cost`), true of the defaults but not enforced by `config.go:105-106`.
Without it `EvictionIsFair` fails.

**Assumptions about numbers.** `JsRangeAssumption` allows any range with room for the plain texts of
`String()` (21 places, 1e-6) and exponents of three digits; a float64 has 309 and 323.
`DisplayAssumption` makes the engine's numbers ECMAScript's, bounds an entry by that range, and says
that rounding to the digits shown makes no infinity, which the largest float64, 1.7976931348623157e308,
does not become. TLC evaluates both in `entry`.

**What `RoutedIsAccepted` needs.** A delay strictly longer than the probe period. With a delay equal
to it the probe that would see the 503 and the closing of the listener fall on the same tick.

**Deadlock.** Checked in the runs of the calculator, where a key is always enabled.
`CHECK_DEADLOCK FALSE` is in the runs of `RequestTimeout`, because a request that is over is over,
of `RateLimiter`, where the clock stops at `MaxTime` and the buckets at `MaxInserts`, of `Lifecycle`,
where a process that has exited does nothing, and of `RoundTrip`, where a call is asked once.

**Fairness.** `CalculatorStore`: every call gets an outcome and every promise settles, because
`apiFetch` puts an `AbortSignal.timeout` on each fetch (`api.ts:116`, `124`) and a settled promise
runs its callbacks. This leaves out a browser that is offline for ever: TanStack Query pauses a
mutation while it is offline. Nothing obliges the user to press a key. `RoundTrip` justifies it: there
only the browser's timer and react-query's retry are fair, the network and the server may stay
silent, and `CallSettles`. `RequestTimeout`: the timer fires and the outer goroutine is scheduled; the
handler may hang for ever. `Lifecycle`: goroutines are scheduled, Accept takes what is queued,
requests with a deadline end, probes are sent, time passes; no signal has to come.

## 4. The properties

Each module has at most one type invariant. Beyond those:

* Store: `BusyIffCurrentCallOut` (busy exactly while the call with the current ticket is out),
  `OperandsAreReady` (the `?? 0` and `?? "add"` fallbacks are never taken, and outside typing and
  waiting the display is the operand), `ErrorIsCurrent`, `RequestsAreServable` (`b`
  exactly where the server demands it, no negative zero, and no operand JSON has no text for, as long as
  results are printed without an exponent), `LineTellsEquals` (the expression line names what `=`
  would send, or sent), `RepeatsWhatWasSent`, `ImplementsCancellableCall`, `EventuallyIdle`.
* Page and text: `EntryIsNormal`, `StaleKeysAreHarmless` (while an answer is awaited no key, however
  late the render that disables it, changes the screen or the request, or sends a second one),
  `ShakeIsHonest` (the guards written twice agree).
* Display: `DisplayTellsTheNumber` (what is read is the number the next key works with, and finite
  where the formatting would throw).
* History: `HistoryIsFaithful`, `ReloadKeepsHistory`, `AnswersAreRecorded`.
* One call: `ImplementsEvaluation`, `FailureIsAttributed` (a timeout, a break, an abort and a backend's
  refusal are told apart, with the ID of the attempt), `ForeignPageIsShutOut`, `MutationIsSentOnce`,
  `AnswersAsDocumented` (against `docs/errors.md`), `EveryOperationHasAKey`, `CallSettles`.
* One request in the server: `ResponseHasOneOwner` (never the handler's bytes beside a 503, nothing
  written after the middleware returned), `ReportedOnce` (an access line for a handler that returned or
  that nobody waited for, else the panic line, never both or neither), `SilentMeansDone`, `GaugeCountsRunning`,
  `ObservedIsSent`, `EventuallyOver`.
* Rate limiter: `WithinBudget` (in every window of time), `EvictionIsFair`, `OneBucketPerClient`.
* Lifecycle: `RoutedIsAccepted`, `BegunIsAnswered`, `CleanExit`, `SignalEndsProcess`.

## 5. The proofs

`CalculatorStoreProofs` proves, from the module's assumptions alone, the invariants of the run
`store`, the action property `RepeatsWhatWasSent` and the refinement of `CancellableCall`, for all
keys, numbers, responses, failures and any `MaxTicket`. Of `RequestsAreServable` it proves the parts that
hold for any results (`ArityCorrect`, `NoNegativeZeroCorrect`); that operands are finite is a matter of
their texts and follows in `DisplayProofs`. The argument has two halves.

* The engine is a set of pure functions. `Waiting` is what its state always satisfies; `Settled`
  adds that an operand is there and displayed. A transition is `Sound` when it either stays in a
  settled state or goes to a waiting one together with a `GoodRequest`. One lemma per key shows it
  takes a settled state to a sound transition; one more shows that an answer takes a waiting state
  to a settled one. The distinction is needed because while a request is out the state is already in
  the phase the answer will land in, with the operand still missing.
* The store is about tickets. The inductive invariant `Inv` joins the type invariant,
  `BusyIffCurrentCallOut` and `ErrorIdIsCurrent` with `CalcInv` (waiting always, settled when not
  pending), `RequestInv` (all that is out, and what retry would send, is good) and `TicketInv` (no
  ticket of a call is ahead of the store's, no two calls share one). `TicketInv` is what makes a new
  ticket differ from all the old ones; without it `BusyIffCurrentCallOut` is not inductive.

The refinement shows that Init maps to Init and every step to a step or a stutter of
`CancellableCall`: late answers and rewiring stutter, a key is `Press` or `Ask`, AC is `Cancel`.

`PageProofs` proves that every step of the page is a step of the store or leaves it alone
(`PageImplementsStore`), so all of the above holds of the page; and `StaleKeysAreHarmless`, from the
store's own guard and not from `busy`: with an answer awaited, every step but AC, the answer and its
settling leaves the screen, the ticket and the request as they were. `EntryIsNormal` is proved for entries of any length: one lemma per
edit of `EntryText` says it takes a normal text to a normal text, one per key carries it to the
engine, and an answer or a recall brings `String()` of a result, normal by assumption. The store's
`Inv` says which phases and operands a key can meet.
`ShakeIsHonest` rests on it: were the shaken key not refused, a character would have been appended,
which changes the text.

`HistoryProofs` proves every property of the run `history`, for any cap, anything readable or not on
the disk, any number of answers and reloads. `NthIncreases` and `FilterProperties` say what `filter`
returns, by the least place up to which enough indices are kept (that a set of natural numbers has a
least member is taken from the library's well-founded relations: the one form of induction that needs
no operator as a parameter). The invariant `PanelInv` demands of the disk what is demanded of the
panels, because a reload shows it, and of `answers` that every entry carries its own number, which is
why an addition stays ahead of all that is listed. `WiredInv` (no call is out while no evaluator is
wired) tells a reload, which drops every promise, from an answer that settles: `OnlySettling`. The
store's `Inv` is shown again under the page's steps, of which a reload is the only one that is none of
its own (`WiredStoreCorrect`).

`RequestTimeoutProofs` proves every safety property of the run `timeout` for any set of statuses and
any number of writes. Its invariant says who may still touch the response: `ShutInv` (the writer is
closed, or the handler is dead, once the outer goroutine has left the select) and `ClaimInv` (the
status line on the wire is the handler's exactly when `wroteHeader` says so); `SeenInv` relates the
recorder inside the writer with the wire outside it. `LogInv` says which of the two lines a request has,
and that one with an access line had a handler that returned or a context that was done: the line of a
panic that nobody waits for is the access line, which is what `late_panic` shows.

`RoundTripProofs` proves every safety property of the run `roundtrip`, for any calls of the page, any
requests JSON allows to others, any origin and any interleaving, in two layers.

* The first is about who did what: the type invariant, `FailureIsAttributed`, `ForeignPageIsShutOut`
  and `MutationIsSentOnce`. `ClientInv` relates what the client does with its attempt and its call,
  `OnceInv` keeps attempts ahead of the current one untouched (what makes a single send provable),
  `AnswerInv` says that an answer with an ID has the ID of its attempt and which CORS header it may
  carry, and `ResultInv` ties the last verdict to the timer, the origin and the attempt.
* The second, `ContentInv`, is about what is said. `BodyInv`: a response carries what the page's call
  means, or a refusal that may always happen, or nothing its schema lets through; `OutcomeInv`: so does
  the verdict; `DocumentInv`: an answer with the server's ID is a row of the table that applies, and goes
  on applying. `AheadInv` makes an attempt that starts find no answer waiting. It rests on
  the first part of the module: the operations of `calc.go` agree with their documented meaning for every pair of
  operands, decoding and validation speak first exactly when the table says so, and `Route` is what the
  call means. From it follow `AnswersAsDocumented` and the refinement of `Evaluation`: asking is `Ask`,
  the step that settles the call is `Answer` or `Fail`, and everything else, retries included, stutters.
  `EveryOperationHasAKey` follows because the bar is drawn from a catalog of the server, by `OutcomeInv`,
  or from the fallback, and each of them has the registry's operations.

The arithmetic these theorems are about is that of `Float64`, whose assumption `MaxExp \in {1, 2}`
makes the tables of the operations finite; no proof of the first layer uses it. `CallAssumption` says
that the page sends what `CalculateRequest` allows (`ServableCorrect`, for results printed without an exponent), and
`RequestAssumption` that JSON has no number that is not finite.

`LifecycleProofs` proves the type invariant, `RoutedIsAccepted`, `BegunIsAnswered` and `CleanExit` for
any configurations, probe period and number of connections. Three parts of its invariant say what the
process knows in each phase of `run()` (`StartInv`, `ServeInv`, `ErrInv`) and two are about time. In
`DrainInv` no request has more time left than the drain has, less the difference the two had to begin
with, and after the first tick of a shutdown nothing begins any more: a drain that expires has cut
nothing. In `RouteInv`, as long as the platform routes to a process about to close, the next probe
comes before the sleep is over, and a tick after it in which the last connections are accepted.

`RateLimiterProofs` proves every property of the run `ratelimit`, for any number of clients, goroutines
and ticks and any settings. The type invariant says of the credit that no reservation, cancellation or
clock from the past fills a bucket beyond its burst; that needs no premise. `OneBucketPerClient` is
proved for `Prompt` (without it the sweep may take a bucket that is in use), by `SeenInv`: whoever holds
a bucket saw it in the current tick, which is what a sweep of the same tick spares; and `MapInv`: the map
holds buckets that were made, so a new one is new.

`WithinBudget` and `EvictionIsFair` are proved for `Prompt` and `TTL >= Full`. The history variable
`spent` counts by window, so no sum has to be taken: `BudgetInv` says that in every window up to now
what a client has spent and the credit its bucket holds are together no more than a burst and the
window's length, and that a client without a bucket has spent so little that a full one would do. A
sweep keeps it because a bucket not seen for a TTL is full. A cancellation keeps it only because the
reservations it can give back form a stack (`StackInv`): under `Prompt` all those of a bucket were made
in this tick, they are multiples of `Cost` apart, and `CancelAt` returns the token of the last one
alone. The others are lost, which is the leak of `ratelimit_leak`: the budget errs on the
safe side.

`DisplayProofs` proves `DisplayTellsTheNumber` for any keys, results, number of digits shown and entries
of any length, under one premise that stands in the theorem: no result is printed with an exponent
(`PlainResponses`). It is needed: the run `exponent_entry` finds the property false without it. It leaves
out results beyond 21 places or below 1e-6. That String() and Number() are inverse does not need it.

* Of numbers: `StringReadsBack`, by the three plain shapes of `String()` and the one with an exponent
  (`PlainShape`, `ExponentialShape`), each a sign and a mantissa that `JsRound` makes into the number
  again; and `StringIsNormal`, which discharges the assumption that the proofs about entries make of the
  server's results, for ECMAScript's numbers. `RoundToForm` says that rounding gives a number again.
* Of grouping: `EntryReadsBack`. What is left of a text without its commas is `Kept`: a counter that moves
  on at every other character. Its uniqueness (`KeptIsLeft`) is where an induction would stand; it is
  shown by the least place at which the two differ, as in `HistoryProofs`. `GroupedKept` gives the
  counter of a grouped number in closed form, and `KeptAround` puts sign, integer part and decimals together.
* Of the store: `Legible` is inductive on top of the store's `Inv`. What is being typed is a `PlainEntry`
  (a normal entry without an exponent, no longer before its point than a finite number), and what is shown
  otherwise is that or the text of a finite number (`Shown`). One lemma per edit and one per key keep it;
  a finite number is needed everywhere because `formatResult` throws on another.
* Of the requests: with the first operand `Legible`, `Carried` says that the second operand, the request
  `=` would repeat and every request out are of finite numbers. It gives `ServableCorrect`, under the same
  premise, without which `7e-7.` makes an operand NaN.

Only model-checked: liveness (`EventuallyIdle`, `EventuallyOver`, `CallSettles`, `SignalEndsProcess`),
because fairness is out of the prover's reach.

## 6. Where the code and its comments disagree

* `stale_retry`. A key after a failed call clears the error but not `canRetry` or the request id
  (`useCalculatorStore.ts:121`); Retry then sends the old request on top of the new entry.
* `retry_landing`. Retry sends from the error phase, so the answer takes the branch of `applyResult`
  meant for answers nobody waits for. In the trace `+ 7 +` sends a sum, which fails and is retried: the
  answer lands in the phase `result` and the operator is lost. So `2 + 3 +`, failure, Retry, `4 =` gives 4.
* `exponent_entry`. A recalled result such as `7e-7` is an entry without a point, so all of it is taken
  for an integer part and grouped (`format-number.ts:102`) by a format that keeps three decimals: the
  display shows `0` while the next key works with 7e-7. The keys can also extend the entry to `7e-7.`,
  which is not a number; after `=` the display has to format NaN, which throws, although
  `Display.tsx:44` says it never does.
* `ratelimit_leak`. Two rejected requests of one client that reserve, reserve, cancel, cancel leave
  its bucket a token short: a rejected request does delay the next one.
* `late_panic`. A handler panics when its context is done as well, and `select` takes that case
  (`timeout.go:72`): the panic stays in its channel, the request has an access line and Recover logs
  nothing, against `logger.go:27-29` and `docs/ARCHITECTURE.md:54`.

Seen in the models without a run of their own: the two assumptions of the rate limiter's run above; a
panicking request, which `metrics.go:63` does not count; and, beyond the decimals of `JsNumber`, `calculator-engine.ts:97-98`, which says that nothing typable is silently lost, while
sixteen nines are read as 10000000000000000.

## 7. Not modelled

* Configuration: a pure function from the environment to a record or a message. The relations between
  settings that other parts rest on are the assumptions of `RateLimiter` and the premises in the
  properties of `Lifecycle`.
* The version, OpenAPI and docs routes and the health check command: constants and one GET.
* Which request ids are well formed; the security headers, which are constants.
* `Timeout` with a duration that is not positive: it is no middleware then (`timeout.go:35-37`).
* An older or an empty operations catalog. The page draws the bar from the catalog it gets, so with one
  that lacks an operation the key does disappear; the instance and the theorem about keys have the
  server's own catalog, a newer one and the fallback.
* The rate limiter's choice of a key for a client, and a bound on its map: the code promises none.
* The live regions, the font size by length, focus, layout, wording, log fields, latencies, the
  Prometheus text format, nginx, Docker, CI and the end-to-end tests: no property is about them.
* Bits of a float64. `JsNumber` has exact decimals and `Float64` a one-bit significand: they keep what
  the properties tell apart, the ends of the range and the first digits that are lost.
