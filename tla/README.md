# TLA+ models of url-shortener-microservices

This directory specifies the concurrent core of the URL shortener in TLA+: what
its goroutines, transactions, caches, leases, queues, consumers, counters and
tokens do when they interleave, fail and restart. TLC checks the models on small instances; TLAPS
proves the theorems of the `*_proofs` modules for every value of the constants.
Paths below are relative to `src/`.

## 1. The system

| Part | State it keeps | Operations | Talks to |
|---|---|---|---|
| **url-service: links** (`services/url-service/service.go`, `handler.go`, `store.go`, `cache.go`) | table `urls`, Redis entries, goroutines that outlive a request | `ShortenURL`, `RedirectToURL`, `DeactivateURL`, `GetUserUrls`, cache fill, click event | PostgreSQL, Redis; its events go to the table `outbox` |
| **url-service: outbox coordinator** (`outbox.go`, `outbox_store.go`, `publisher.go`, `rabbitmq.go`, `main.go`) | table `outbox` with leases, a channel of jobs, three workers, one AMQP channel | `Run`, `poll`, `worker`, `publish`, `FetchUnpublished`, `MarkPublished` | PostgreSQL, RabbitMQ; three replicas share both (`k8s/apps.yaml`) |
| **url-service: short codes** (`codegen.go`, `base62.go`, `validate.go`) | none | `Generate`, `Encode`, `Decode`, `ValidateURL` | |
| **gateway: circuit breaker** (`gateway/circuitbreaker.go`, `metrics.go`) | state, probe flag, failure count, two times, a gauge | `Do`, `notifyStateChange` | url-service, Prometheus; one breaker per gateway process |
| **gateway: rate limiter** (`gateway/ratelimit.go`) | a counter per route and client in Redis | `Allow` | Redis |
| **gateway: routing, proxy, JWT** (`gateway/handler.go`, `proxy.go`, `router.go`, `jwtmiddleware.go`) | none | `ServeHTTP`, `matchRoute` | all services |
| **analytics-service** | `clicks`, `processed_events`, `milestones` | `processDelivery`, `CheckAndPublish`, statistics | RabbitMQ in and out, PostgreSQL |
| **notification-service** | `notifications` | `processDelivery`, `ListByUser` | RabbitMQ, PostgreSQL |
| **user-service** | `users` | `Register`, `Login`, `Me` | PostgreSQL; its tokens are checked by gateway and services (`shared/auth`) |
| **shared** | none | event types, token check, logger | |
| frontend, nginx, k8s, monitoring, scripts, documents | none | | |

A client calls the gateway, which authenticates, limits and forwards; calls to
url-service go through the breaker. url-service commits a row and an event
together; a coordinator publishes the event; analytics-service counts clicks and
publishes milestones; notification-service stores what users are to be told.

What is hard in each part, and what makes it correct:

- *links*: requests of several replicas race on a code, on a row and on a cache
  key; a row read earlier is cached later; a store call may fail after it took
  effect. Correct means that a row and its events appear together, a code never
  changes hands, no copy disagrees with the row on where a link leads, an
  expired link is not served, and no lock or goroutine is left behind.
- *outbox coordinator*: claimed rows live in a process that may die; leases lapse
  under slow workers; publishing and marking are two steps. Correct means that
  no row is forgotten or marked without having been handed over, that rows are
  handed over twice only because of a fault, and that shutdown terminates.
- *circuit breaker*: a call may end in a state that is not the one that admitted
  it; reports are made outside the lock. Correct means legal transitions, a limit
  that trips, and a half-open breaker that always hears from a probe.
- *short codes*: numbers larger than the code space are cut off. Correct means
  one reading per code and nearly equal chances.
- *rate limiter*: two Redis commands that are not one; windows that touch; a
  counter without expiry. Correct means that bursts have a bound and that nobody
  is kept out for good but for a failure.
- *consumers*: at-least-once delivery, several replicas, an event published
  inside a transaction, an acknowledgement after it. Correct means that no event
  is let go of before it was handled, that a click and its mark appear together,
  that milestones were reached, and that every repetition has a cause.
- *lists*: a client pages through rows that others insert and end. Correct
  means that a row that is there all the while is shown, and shown once.
- *user-service, tokens, routing*: concurrent registrations of one address;
  lost answers; a token that is checked twice and may expire in between; a
  routing table and services that must agree on what needs one.

`PROJECT.json` lists every hazard with its line and the properties that watch it.

## 2. The modules

| Module | Component | Composed with |
|---|---|---|
| `UrlService` | links: shortening, redirect, deactivation, cache | `ShortCode`, by EXTENDS |
| `ShortCode` | drawing, encoding and decoding of codes | |
| `OutboxRelay`, `EventRelay` | outbox coordinators; the list they implement | |
| `CircuitBreaker` | the breaker in front of url-service | |
| `RateLimiter` | the limiter in front of shortening and redirects | |
| `Access` | accounts, tokens, routing table, both JWT checks | |
| `Listing` | `GET /urls` and `GET /notifications` | |
| `ClickConsumer`, `ClickCount` | consumers of analytics-service; the count they keep | |
| `NotificationConsumer` | consumers of notification-service | |
| `Pipeline` | both consumers and the queue between them | `ClickConsumer`, by EXTENDS; `NotificationConsumer`, by INSTANCE |
| `MC*` | symmetry sets for TLC | |
| `*_proofs` | theorems | |

### UrlService

One module for the three write and redirect handlers, because they race on the
same stores. A *request* is one HTTP call on any replica (replicas share only
PostgreSQL and Redis); a step of it ends where its goroutine waits for a store.

| Model | Code |
|---|---|
| `urls`, `outbox` | committed rows; `outbox` without its publication columns, which `OutboxRelay` has |
| `locks` | row and unique-key locks of open transactions |
| `expired` | codes with `expires_at` in the past: the only thing the code asks of time |
| `cache` | entries in Redis |
| `fills`, `clicks` | the goroutines of `service.go:163`, `service.go:241` and `handler.go:82` |
| `pc`, `want`, `tries`, `seen`, `answer` | the local state of a request, and its HTTP answer |
| `ShortenURL`, `InsertUrl`, `Collide`, `CommitShorten` | `ShortenURL`: the loop of three attempts, each a transaction of two INSERTs |
| `RedirectToURL`, `CacheHit`, `CacheMiss`, `CacheHang`, `FindByCode`, `Decide` | `RedirectToURL` with its 50 ms context |
| `DeactivateURL`, `Deactivate`, `CommitDelete`, `CacheDelete` | `DeactivateURL` |
| `CacheSet`, `WriteClick` | the goroutines |
| `Fail`, `Crash`, `Evict`, `Expire` | errors of the stores, replicas that die, TTLs and Redis restarts, time |

PostgreSQL (read committed, row locks, unique keys) and Redis are modelled from
the statements the code sends. An UPDATE or INSERT waits while another
transaction holds the code and evaluates its condition again afterwards. A COMMIT
may take effect and still be answered by an error. A redirect whose row does not
exist ends in the answer `panic`: `FindByCode` returns `(nil, nil)`.

### ShortCode

`Encode`, `Decode` and `Generate` on numbers of any base and length; a character
is its place in the alphabet. The loops are recursive functions: `Rest` is `n`
after each division of `Encode`, `Value` the `result` after each character of
`Decode`, `Power` the `Exp` of `big.Int`. `UrlService` lets a drawn code be any code,
which `CodesRoundTrip` justifies: every string of the right length is the code of some
draw, and of one number below 62^7. `MCUrlService` puts generated codes into
the rows (`CodesAreGenerated`) and joins this to them as the invariant
`StoredCodesReadBack`.

### OutboxRelay, EventRelay

`OutboxRelay` has one poller (`Run`, `poll`), one bounded channel and a pool of
workers for each replica, the lease column, shutdown in the order of `main`
(context first, then the HTTP server; nobody waits for the coordinator), crashes,
restarts and the one AMQP channel of a process. `leased` says that
`locked_until` is in the future; `Lapse` lets thirty seconds pass. Crashes,
shutdowns, failed statements and leases that lapse under a copy still in use are
*faults*, counted against `MaxFaults`; broken channels are counted against
`MaxDrops`. `EventRelay` is the promise, a single list without replicas,
leases or workers: accept, hand over, settle. `OutboxRelay` implements it with
`accepted <- outbox`, `handed <-` the rows `Publish` returned nil for, and
`settled <- published`.

`UrlService` and `OutboxRelay` meet in the table `outbox`: the first has the
transactions that insert rows, the second sees a row from its commit on
(`InsertEvent`).

### CircuitBreaker

`Do` as concurrent calls execute it: admission, report, the context check,
`upstream()` and the four endings, each a critical section of `cb.mu`. The two
clocks are kept as the one question the code asks of each: `cooled` (the open
timeout has passed since the last failure) and `windowOver`. `CanPanic` says
whether `upstream()` may panic, which `httputil.ReverseProxy` does when it cannot
finish copying a response.

### RateLimiter

`Allow` for one route and one client, in any number of gateways: `Incr` is INCR
with the decision on its answer, `Expire` the second command, `IncrFails` and
`ExpireFails` their errors (which may hide a success), `Refuse` the TTL query and
the 429. `ttl` counts the key down in ticks, `age` remembers for a window how
long ago a request was let through; the counter saturates above the limit,
because the code asks no more of it. A request that an error of INCR lets through
(`Allow` returns true with the error, and `ServeHTTP` goes on) is remembered in `age`
like any other, whether the INCR took effect or not. `Evict` is a Redis that loses
the key.

### Access

| Model | Code |
|---|---|
| `users` | the table, UNIQUE on the address; an account is the registration that inserted it |
| `Hash`, `Insert`, `InsertFails` | `Register`; bcrypt refuses passwords of more than 72 bytes |
| `Begin`, `FindByEmail`, `FindFails`, `Issue`, `Refuse` | `Login`, which answers any error of the lookup as a wrong password |
| `left` | how long the token of a login is valid: `exp` against the clock |
| `PassGateway`, `Route`, `RequiresAuth` | `jwtMiddleware` and `ServeHTTP` over `routingTable`, matched by prefix |
| `PassService`, `Handler`, `Protected` | the mux of the service behind, after `StripPrefix`, and `JWTMiddleware` |
| `Send` | a client with the token of a login, or none |

`entitled` is a history variable: the logins that began with the password of an
existing account. `redirect_to_urls` is `GET /r/urls`: for the gateway a redirect,
for url-service, once `/r` is cut off, the list of links.

### Listing

One client walks one of the two lists. A row is its place in the order of the
list; new rows appear anywhere, because the ids of links are random and
`created_at` of a notification is the start of its transaction. `Clamped` is what
the handlers make of `limit`, `First(limit + 1, After)` the query, `NextPage` a
whole request (one statement and the cutting of the page). `times` and `stable`
are history: how often a row was shown, and the rows that were listed all the
while.

### ClickConsumer, ClickCount

| Model | Code |
|---|---|
| `queue`, `unacked`, `subscribed` | RabbitMQ: `analytics.clicks`, the delivery a consumer owes (`Qos(1)`), its channel |
| `Deliver`, `Discard`, `Ack`, `Nack` | `Run`, `parseDelivery`, `ack`, `nackRequeue` |
| `Exists`, `InsertProcessed`, `InsertClick` | the statements of the transaction in `processDelivery`; the own click and count are invisible to others before COMMIT |
| `HasMilestone`, `NoMilestone`, `InsertMilestone`, `PublishMilestone`, `PublishFails`, `NextThreshold` | `CheckAndPublish`, threshold by threshold |
| `Committed`, `CommitUnknown`, `Fail` | COMMIT, a COMMIT whose answer is lost, any failing statement |
| `CloseChannel`, `Crash`, `Restart` | the broker closes the channel; the process ends (SIGTERM, too); `main` |

`ON CONFLICT DO NOTHING` waits for the transaction that holds the key and then
inserts or not; the code never learns which, so two replicas may both go on to
count one click. The replica count of the Deployment is one (`k8s/apps.yaml`); a
rolling update runs two for a while. `ClickCount` is the promise of a single
replica: each click counted once, the milestones always the thresholds reached.

### NotificationConsumer, Pipeline

`NotificationConsumer` has the same delivery around `InsertNotification`: row,
e-mail (a log line in this code, but an effect that no rollback takes back),
update, COMMIT. `Pipeline` joins the consumers: a step of `ClickConsumer` that
announces a milestone is also an arrival in the other queue (`ClickStep`), and
the relay of url-service adds the events of links (`Tell`). Only here do faults
of both services meet, from one budget.

### Altered definitions

Definitions such as `TakenWhileActive`, `RollbackNever` or `TripsLate`, which
stand right before the definition they vary and occur in no specification, are
plausible mistakes: with one of them in place of its neighbour the property that
`PROJECT.json` pairs it with is violated.

## 3. The runs

Passing runs:

| Run | Question | Instance | Distinct states |
|---|---|---|---|
| `UrlService` | Are rows, events, cache and answers consistent under races, failures and expiry? | 2 codes, 2 users, 2 shortenings, 1 redirect, 1 deletion; codes of base 3, length 3 | 1.9 M |
| `UrlServiceLive` | Do requests and goroutines end, and does a link that two requests delete end once? | 1 generated code, 2 shortenings, 1 redirect, 2 deletions, fairness | 250 k |
| `OutboxRelay` | Do replicas with leases implement the list? What do duplicates cost? | 2 rows, 2 replicas of 2 workers, batches of 2, 2 faults, 1 broken channel | 1.8 M |
| `OutboxRelayLive` | Is every committed row published in the end, and does `Run` return after a shutdown with no help from the end of its process? | 2 rows, 2 replicas, batches of 1, 2 faults, fairness | 430 k |
| `CircuitBreaker` | Do concurrent calls keep the breaker sane, and is an open one probed in the end? | 3 calls, limit 2, panics, fairness | 130 k |
| `ClickConsumer` | What do two replicas make of redeliveries, failures and crashes? | 2 replicas, 4 clicks (1 repeated), 1 malformed event, thresholds 2 and 3, 1 fault, 1 closed channel | 2.3 M |
| `Pipeline` | Is every event handled in the end, once for each cause? | 1 replica each, 2 clicks, creation and deletion of a link, 1 event of a link without e-mail, threshold 2, 1 fault, 1 closed channel, fairness | 230 k |
| `RateLimiter` | How long are bursts, and is a client let in again? | 7 requests, limit 2, window 2, 1 fault, 1 eviction, fairness | 1.7 M |
| `Access` | Are answers, tokens and the two checks of a token true to the accounts? | 2 registrations, 2 logins, 1 client, 2 addresses, 3 passwords (1 too long), 2 ticks, 1 fault | 1.3 M |
| `Listing` | Is a walk complete, without repetition, and finite? | 6 places (1 foreign), limits 0, 2 and 9, pages of at most 3, fairness | 120 k |

What the properties say is in the comments above them. The deeper ones:
`EventsMatchRows` (events and rows appear together), `ExpiredIsNotServed` and
`VisitorsReachThePromise` (through every cache copy), `PromisedCodesAreFound` (the
nil record is never met for a code that was promised), `DuplicatesCostFaults`
(each duplicate is paid for by a fault), `OnlyAPanicLocks` (nothing but a panic
leaves a probe nobody waits for), `CountedOncePerConsumer`, `SomeoneRuns` (no
circle of transactions waiting for milestone rows), `MilestonesKeepUp` (transactions
that do not see each other's clicks miss a threshold only for as many clicks as there
are other replicas), `AnnouncementsCostFaults` and
`PhantomsComeTrue` (a milestone announced by a transaction that rolls back is
recorded later all the same), `RepetitionsCostFaults`, `BurstsAreBounded` (twice
the limit in a window, once more per eviction, and one request per failed command),
`WalkIsComplete`.

Bounds. Two requests of a kind race with each other, a third of another kind
reads what they leave; two codes let a retry succeed or lose again, and three
attempts at one code reach the 409. Two users stand for two creators with their own
links (a link is told from another by its owner as well as by its URL, so one URL
is enough) and for a deletion that is not the owner's. Two replicas already
race claim against claim and copy against copy; with batches of two a claim
holds several rows, with batches of one the channel is full with one job in it
and the poller blocks; two faults allow a second one during the recovery from
the first. Three calls let two late answers meet a probe. Two
thresholds one click apart make a transaction that missed the first find it due
beside the second, and take two locks. In the run of
`ClickConsumer` a repeated event and a fault make two sources of redelivery; four
clicks, two beyond the first threshold, show for how long two racing replicas may
miss it. `Pipeline` has one replica each, which is what is deployed, takes its
redeliveries from the fault and the closed channel, and lets the deletion of a link
overtake its creation. Seven requests at a limit of two are two more than two windows
and a failed command allow, one more than two windows and an eviction do, and as many
as they do together (the fault and the eviction at once are left to the proof, section
5). Six rows at pages of two or three make walks of three pages with
room to insert before, between and after. Requests and events are finite, so
most runs stop: deadlock checking is off there, and the liveness properties ask
the question instead.

Type invariants are proved (section 5); only `UrlService` keeps its one in a run.

Runs that find a disagreement between the code and what is written about it
(`findings` in `PROJECT.json` quotes the lines):

| Run | What happens |
|---|---|
| `UrlServiceStale` | the fill that a shortening started (`service.go:163`) puts an active entry back after a deactivation has deleted the key |
| `OutboxRelayLoss` | a row is marked published without a message in any queue |

Other differences met while modelling, which need no run to be seen (`D` is
`dev_docs/main_docs.md`):

- links: a redirect of an unknown code dereferences nil (`service.go:227`), where
  `url_test.go:605` expects 404; a Redis that hangs takes the whole 50 ms and
  leaves PostgreSQL a context that is done (`service.go:185`), where `D:29` says
  that errors fall through; a shortening gives up after three attempts
  (`service.go:92`), `codegen.go:26` says five;
- outbox: `MarkPublished` of a row that is marked already returns an error
  (`outbox_store.go:87`), `D:3481` says it does not; after the AMQP channel has
  broken, nothing is published until a restart (`rabbitmq.go:68`);
- breaker: a probe that panics locks the half-open breaker for good
  (`circuitbreaker.go:115`); two reports may overtake each other and leave the
  gauge with the older state (`circuitbreaker.go:142`); the gauge shows 1 for OPEN
  and 2 for HALF_OPEN, `metrics.go:10` says the opposite; a call admitted before
  the trip decides the half-open state as a probe does
  (`circuitbreaker.go:119,151`), `D:7819` speaks of one probe; the failure window
  is a tumbling one (`circuitbreaker.go:130`);
- limiter: a failure between INCR and EXPIRE leaves a counter without expiry
  (`ratelimit.go:43`), and no later request gives it one;
- analytics: two replicas may count one click twice (`consumer.go:95`), against
  `D:5073`; a milestone is published before COMMIT and not again when that fails
  (`milestone.go:81`), against `D:5068`; a consumer whose channel was closed stays
  up and deaf (`consumer.go:60`), against `D:5076`;
- notifications: no event is remembered (`consumer.go:76`), against `D:5826`; an
  event without an e-mail address is dropped;
- accounts: an INSERT whose answer was lost is answered 409 when it is repeated,
  where `D:2102` lets the caller retry.

## 4. Fairness

- `UrlService!FairSpec`: a request that waits for no lock gets an answer from its
  store (PostgreSQL and Redis answer; an error is allowed but never owed), the
  deadline of a redirect is owed, and started goroutines run. Nothing is assumed
  of crashes, expiry or evictions, and nothing of a statement that waits for a
  lock: that it gets its turn is what the run shows.
- `OutboxRelay!GoroutineFairness`: goroutines that can run do, leases lapse, and a
  `select` with two ready cases does not ignore one for ever (strong fairness for
  `Close`, the case `ctx.Done()` that competes with the ticker; Go chooses
  uniformly). `ProcessFairness`: a process whose coordinator has returned ends, and
  the Deployment starts another. `main` in fact ends at most ten seconds after
  SIGTERM, coordinator or not; the weaker assumption is what makes
  `CoordinatorsReturn` say something. Nothing brings a broken channel back.
- `CircuitBreaker!FairSpec`: requests keep coming, calls return, time passes.
- `RateLimiter!FairSpec`: time passes, and Redis answers within the 100 ms of the
  context, if only by an error. No request is owed.
- `ClickConsumer!Fairness`, `NotificationConsumer!Fairness`: the broker delivers
  while a consumer with an open channel is free, statements end (well or not),
  and Kubernetes restarts a process that died. Nothing subscribes again.
- `Listing!FairSpec`: the client asks for the next page while there is one.

## 5. What is proved

All theorems hold for every value of the constants; the assumptions are the
`ParametersOK` of each module (finitely many click consumers and at least one, for
instance), in `UrlService` `InputsExist` (at least one code, URL and
owner), and for what is said of codes `CodeParametersOK` (a base of two or more,
a length of one or more) and `CodesAreGenerated`. Where a theorem says more it is in
its statement: `DrainCorrect` takes the workers to be finitely many (`Run`
starts three), and the theorems about a single click consumer say `Consumers = {c}`.

- `UrlService_proofs`: `TypeCorrect`, `LocksCorrect`, `CopiesCorrect`,
  `PromiseCorrect`, `RowsCorrect`, `FoundCorrect`, `FlagCorrect`,
  `RefusalsCorrect`, `EventsCorrect`, `ExpiryCorrect`. The heart of most is `Inv`.
  That visitors are sent where the
  creator asked is not inductive: it needs that a code names one row
  (`UniqueCodes`), which needs that an INSERT's key stays free until COMMIT
  (`InsertsStayNew`), which needs that locks exclude each other and lie on the
  code their owner works on (`LocksAreOpenTransactions`, `LocksAreOnWanted`);
  that whatever is cached, about to be cached or in a request's hands agrees
  with that row (`CopiesAgree`, `SeenIsWanted`); and that the row of a 201 stays
  (`CreatedIsKept`). `FlagCorrect` shows that the test of `is_active` in a cache
  hit (`service.go:190`) never fails: entries are made of active rows only.
  `EventsCorrect` adds that only a row that is there and active gets a
  `url.deleted` (`DeletionsFindTheirRow`: the UPDATE holds the lock to its COMMIT)
  and that a click, written outside any transaction, is one of a link the visitor
  has seen (`ClicksAreClicks`); together, `EventsInv`. `RefusalsCorrect` has two parts: a
  request that left an event or a fill is past the point where it can be refused
  (`TracesAreLate`), and what a request asked for no longer changes from there on, so
  that every row keeps the event of the request that was granted it, every ended row
  that of the request that ended it (`RowsWereGranted`), and every entry and fill shares
  them with its row (`CopiesAgree`).
- `UrlService_proofs`, about codes: `CodesCorrect` and `StoredCorrect`. The induction the
  loops need is taken from `WellFoundedInduction` as a statement about sets: a
  set of numbers that has 0 and with each its successor has them all
  (`AllNumbers`, by the least number it lacks). `StepsDefine` and `StepsReach` get from
  it that `Power`, `Rest` and `Value`, each the iteration of one step, exist and obey their
  equations. Then: what `Encode` has still to write is at each character what
  `Decode` will have read (`RestsAreValues`), so decoding a code gives the number
  that was cut off to `Limit`; read the other way (`ValuesAreRests`, with
  `ValuesAreSmall`), encoding gives the string back; the draws of a code are those
  of one remainder, and two remainders have nearly as many (`TimesOf`).
- `UrlService_proofs`, about progress: `AdvanceCorrect` is what `RequestsEnd` rests on
  besides fairness. Each step of a request lowers `StepsLeft`, which starts at six,
  and no step of another request, goroutine or store touches what it counts. The
  rest of the argument, that a waiting request is not left waiting, is `LocksCorrect`
  (it waits for an open transaction) and fairness.
- `OutboxRelay_proofs`: `TypeCorrect`, `HandedCorrect`, `UnleasedCorrect`,
  `DuplicatesCorrect`, `DrainCorrect` and
  `RelayCorrect`, the refinement of `EventRelay` by any number of replicas. `Inv` adds that
  copies are copies of committed rows and that a worker about to mark has
  handed over (`CopiesAreCommitted`). `TableStep` says which four actions the list
  sees at all. `DuplicatesCorrect` counts: what was handed over, the copies still
  to be handed over (in a batch, in a channel, in a worker's hands: `Pending`) and,
  while a row may be claimed, the copy that may be made are together at most one
  and the faults (`CopiesCostFaults`, part of `CountInv`). A lapse while a copy is
  held is itself a fault, or else nobody holds a copy, so a claim is paid for.
  `DrainCorrect` is `CoordinatorsReturn` without its fairness, from the moment the
  context is done: `Owing` (three steps for a job that waits or is being published,
  two for one to be marked, one for an idle worker, and four for a row of the batch)
  falls with every step of a worker and every row that is still fed, and rises with
  none, until the coordinator returns with all workers gone or its process ends. What
  it leaves to fairness is the poller's own choice, tick or done, between polls that
  fail (`PollsInVain`).
- `CircuitBreaker_proofs`: `TypeCorrect`, `TransitionsCorrect`, `LimitCorrect` (a closed
  breaker is below its limit), `ProbeCorrect` (without panics the probe flag of a
  half-open breaker is never left with no call under way), `PanicCorrect` (only
  a step that panics can take that away) and `FailuresCorrect`, which counts calls in
  flight as failures to come (`FailuresToCome`), with the cardinality lemmas of
  `FiniteSetTheorems`.
- `Pipeline_proofs`, first about `ClickConsumer` alone: `TypeCorrect`, `KeptCorrect`,
  `ProcessedCorrect`, `RaceCorrect`, `MilestonesCorrect`, `RunsCorrect`,
  `AnnouncementsCorrect`, `CountCorrect`. `KeptCorrect` needs that a
  consumer that has not settled a delivery for the broker is working on it
  (`Owed`). `MilestonesCorrect` needs that rows not yet committed were reached, too
  (`OwnAreReached`), and, for the delay (`LagInv`), who may still commit a click without
  recording a threshold: the replicas whose transaction has counted too few clicks
  (`Blind`). When the threshold is one click away these are all but one at
  most, and each click that does not record it is one of theirs.
  `RaceCorrect` counts the clicks of an event together with the
  consumers that passed `Exists` and have not committed (`Racing`): they are at most
  as many as there are replicas, since nobody enters the race once one has finished.
  `RunsCorrect` is the argument against deadlock: the thresholds
  a transaction holds rows of are below those it has still to look at
  (`Ordered`), so of those that wait the one that holds the highest row waits for
  one that runs. `AnnouncementsCorrect` tells two times apart (`Announces`): until a
  threshold is recorded each announcement is one of an open transaction (`Passed`)
  or of one that failed; afterwards only consumers that looked before may add one
  each (`Passing`), and nobody is both. `CountCorrect` is the refinement of
  `ClickCount` for a single
  consumer: nobody else counts meanwhile, so what is recorded, about to be and
  still due are together the thresholds its click reaches (`Exact`).
- `Pipeline_proofs`, then about both services at once: `RepetitionsCorrect`,
  `BothCorrect`, `PipeCountCorrect`, `PhantomsCorrect`. A step of the pipeline is one of the click
  consumers or leaves them alone but for more faults (`PipeStep`, `ClicksAside`);
  for notifications it is one of their own steps, an arrival, or again more faults
  elsewhere (`NotesAside`). The step lemmas of `NotificationConsumer_proofs` are
  cited through an instance of that module (`NC`), and the `Same...` lemmas say that
  it names what `Teller` names in `Pipeline`. `PhantomsCorrect` is `PhantomsComeTrue`
  without its fairness: a milestone announced, mailed or stored but not recorded is the
  next one the count will reach (`EarlyInv`, from `Exact`), nobody is told of what was
  not announced (`HasArrived` of `NotificationConsumer_proofs`), and a click that will reach
  it is still kept (`NothingIsLost`). It is about one consumer of clicks. Two that race
  on a repeated event can do worse, since one may announce a threshold that the
  other, with an older count, commits the event without reaching; the redelivery
  is then acknowledged, and the milestone waits for the next click.
- `NotificationConsumer_proofs`: `TypeCorrect`, `KeptCorrect`, `RepetitionsCorrect`,
  `MailedCorrect`, for any number of replicas, where the run has one. The bounds
  on repetitions are inductive once deliveries that are about to be requeued
  are counted as well (`Accounted`): each action moves a copy, or costs a fault, a
  closed channel or a publication.
- `Access_proofs`: `TypeCorrect`, `AnswersCorrect`, `TokensCorrect`,
  `PasswordsCorrect`, `VouchCorrect`, `ServedCorrect`. They rest on two facts: an
  account, once there, stays as it is, and a token, once issued, is only ever
  closer to its end.
- `RateLimiter_proofs`: `TypeCorrect`, `ExpiryCorrect`, `BurstsCorrect`. For the last,
  `BurstInv` splits those let through within a window into the ones the present key
  has counted, at most `Limit`, the ones before it, at most `Limit` and once
  more for each key lost, and the ones an error of INCR let through, at most the
  commands that failed. While the key has an expiry, those before it are at
  least a window less its remaining life old, so that they are gone when it is.
- `Listing_proofs`: `TypeCorrect`, `CompleteCorrect`, `OnceCorrect`, `AdvanceCorrect`. `WalkInv` says
  that what was shown lies at or above the cursor and that stable rows not yet
  shown lie below it, in lists of any length and for any limit. `AdvanceCorrect`, the
  safety part of `WalksEnd`: a page that promises another is full, and leaves fewer
  places ahead of the cursor, however many rows come in meanwhile.

Model-checked only: liveness, which is out of the prover's reach: `RequestsEnd`,
`RelayIsFair`, `CoordinatorsReturn`, `OpenEndsInProbe`, `ClientsAreLetIn`,
`WalksEnd`, `EventsAreHandled`, `PhantomsComeTrue`. What some of them rest on besides
fairness is proved, as said above: a measure that steps lower and nothing raises for
`RequestsEnd`, `CoordinatorsReturn` and `WalksEnd`, the event that is still owed for
`EventsAreHandled` (`NothingIsLost` of both consumers) and `PhantomsComeTrue`, the expiry
that a counter has for `ClientsAreLetIn` (`CounterExpires`). Every safety
property of a passing run is a theorem. The strengthened invariants (`EventsInv`,
`CountInv`, `BurstInv`, `RaceInv`, `AnnounceInv`) and the formulas that only theorems state
(`RequestsAdvance`, `CoordinatorsDrain`, `PagesAdvance`, `PhantomsAreOwed`) held in TLC on
the instances of the runs before they were proved.

## 6. Not modelled, and why

- Validation of requests (`ValidateURL`, `validateEmail`, content types, JSON) and
  the answers 400 and 415: checks of strings that touch no state.
- Statistics and timeline of analytics-service: four read-only queries that run
  at once. They come from no common snapshot, so that a click may be in the last
  day and not in the total; nothing in the program relies on it.
- `recoverDeliveryPanic` of both consumers, which acknowledges a delivery whose
  processing panicked and so drops the event: no statement on that path is known to
  panic.
- Time as a number, except in `RateLimiter` and for tokens: elsewhere a model
  asks only the comparisons the code makes.
- Payloads, correlation ids, metrics other than the breaker's gauge, logging, header
  copying in the proxy.
- Duplicate UUIDs, cryptography, the insides of PostgreSQL, Redis and RabbitMQ
  beyond what is listed above.
- Start-up (configuration, connection with back-off, migrations): a process that
  fails there is restarted; `Restart` is the whole of it.
- Frontend, nginx, Kubernetes, monitoring, scripts: no state of the application.

## 7. Left to do

1. `UrlService` and `OutboxRelay` in one specification, so that the relay is fed by
   the transactions themselves, and `Pipeline` by the relay.
2. The breaker, limiter and routes of one gateway together, with the answers a
   client sees.
