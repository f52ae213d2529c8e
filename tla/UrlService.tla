------------------------------ MODULE UrlService ------------------------------
(***************************************************************************)
(* The write and redirect paths of url-service: the urls and outbox tables *)
(* (PostgreSQL), the Redis cache in front of them, and the goroutines that *)
(* outlive a request (the cache fill and the click event).                 *)
(*                                                                         *)
(* A request is one HTTP call on any replica: the replicas share both      *)
(* stores and nothing else, so requests of one replica and of several      *)
(* interleave alike.  A step of a request ends where its goroutine waits   *)
(* for a store; everything up to the next wait belongs to the same step.   *)
(*                                                                         *)
(* Time is the set of codes whose expires_at has passed.  The URLs here    *)
(* are the ones ValidateURL accepts: the 400 answers touch no state.       *)
(***************************************************************************)
EXTENDS Naturals

CONSTANTS
    Codes,        \* short codes the generator can draw
    Urls,         \* destinations
    Users,        \* owners; an anonymous POST has a fresh one
    Shorteners,   \* requests POST /shorten and /shorten-anon
    Visitors,     \* requests GET /{code} and /redirect-anon/{code}
    Deleters      \* requests DELETE /urls/{code}

Requests == Shorteners \cup Visitors \cup Deleters

ASSUME InputsExist == Codes # {} /\ Urls # {} /\ Users # {}

VARIABLES
    urls,      \* rows of the urls table
    outbox,    \* rows of the outbox table
    locks,     \* row and unique-key locks of open transactions
    expired,   \* codes whose expires_at lies in the past
    cache,     \* entries in Redis
    fills,     \* goroutines about to call cache.Set
    clicks,    \* goroutines about to insert a url.clicked row
    pc,        \* where each request is
    want,      \* what each request asks for
    tries,     \* attempts a shortening has lost to a collision
    seen,      \* the row or entry a redirect has read
    answer     \* the answer each request got

stores == <<urls, outbox, locks, expired, cache>>
goroutines == <<fills, clicks>>
requests == <<pc, want, tries, seen, answer>>
vars == <<stores, goroutines, requests>>

-----------------------------------------------------------------------------
\* A row of urls, and equally the entry cached for it.
Link == [code : Codes, url : Urls, owner : Users, active : BOOLEAN]

Event == [type : {"url.created", "url.deleted", "url.clicked"},
          code : Codes, owner : Users, by : Requests]

LinkOf(c, u, o, a) == [code |-> c, url |-> u, owner |-> o, active |-> a]

MaxAttempts == 3

NewEventSwapped(type, link, r) ==
    [type |-> type, code |-> link.owner, owner |-> link.code, by |-> r]
NewEvent(type, link, r) ==
    [type |-> type, code |-> link.code, owner |-> link.owner, by |-> r]

Init ==
    /\ urls = {} /\ outbox = {} /\ locks = {} /\ expired = {} /\ cache = {}
    /\ fills = {} /\ clicks = {}
    /\ pc = [r \in Requests |-> "idle"]
    /\ want = [r \in Requests |-> CHOOSE l \in Link : l.active]
    /\ tries = [r \in Requests |-> 0]
    /\ seen = [r \in Requests |-> {}]
    /\ answer = [r \in Requests |-> "none"]

-----------------------------------------------------------------------------
Goto(r, label) == pc' = [pc EXCEPT ![r] = label]

Reply(r, what) ==
    /\ Goto(r, "done")
    /\ answer' = [answer EXCEPT ![r] = what]

\* The fields a call has no use for keep their initial values.
Ask(r, c, u, o) == want' = [want EXCEPT ![r] = LinkOf(c, u, o, TRUE)]

Free(c) == \A k \in locks : k.code # c
Lock(c, r) == locks' = locks \cup {[code |-> c, by |-> r]}
Unlock(r) == locks' = {k \in locks : k.by # r}

\* UNIQUE(short_code) looks at every committed row, deactivated ones too.
TakenWhileActive(c) == \E l \in urls : l.code = c /\ l.active
Taken(c) == \E l \in urls : l.code = c

EntriesBut(c) == {e \in cache : e.code # c}

-----------------------------------------------------------------------------
(* POST /shorten: a transaction inserts the row and its url.created event. *)

ShortenURL(r) ==
    /\ r \in Shorteners /\ pc[r] = "idle"
    /\ \E c \in Codes, u \in Urls, o \in Users : Ask(r, c, u, o)
    /\ Goto(r, "insert")
    /\ UNCHANGED <<stores, goroutines, tries, seen, answer>>

\* INSERT of a free code; it holds the unique key until the transaction ends.
InsertUrl(r) ==
    /\ pc[r] = "insert" /\ Free(want[r].code) /\ ~ Taken(want[r].code)
    /\ Lock(want[r].code, r)
    /\ Goto(r, "commitNew")
    /\ UNCHANGED <<urls, outbox, expired, cache, goroutines,
                   want, tries, seen, answer>>

\* The 409 returns before the fill of a success is started.
RefuseAfterFill(r) ==
    /\ Reply(r, "conflict")
    /\ fills' = fills \cup {[by |-> r, link |-> want[r]]}
Refuse(r) == Reply(r, "conflict") /\ UNCHANGED fills

\* Error 23505: draw another code while attempts are left, else refuse.
Collide(r) ==
    /\ pc[r] = "insert" /\ Free(want[r].code) /\ Taken(want[r].code)
    /\ tries' = [tries EXCEPT ![r] = @ + 1]
    /\ \/ /\ tries[r] + 1 < MaxAttempts
          /\ \E c \in Codes : Ask(r, c, want[r].url, want[r].owner)
          /\ UNCHANGED <<pc, answer, fills>>
       \/ /\ tries[r] + 1 = MaxAttempts
          /\ Refuse(r)
          /\ UNCHANGED want
    /\ UNCHANGED <<stores, clicks, seen>>

\* COMMIT publishes row and event together.  The client may see an error all
\* the same, when the connection breaks after the server has committed.
CommitShorten(r) ==
    /\ pc[r] = "commitNew"
    /\ urls' = urls \cup {want[r]}
    /\ outbox' = outbox \cup {NewEvent("url.created", want[r], r)}
    /\ Unlock(r)
    /\ \/ /\ Reply(r, "created")
          /\ fills' = fills \cup {[by |-> r, link |-> want[r]]}
       \/ Reply(r, "error") /\ UNCHANGED fills
    /\ UNCHANGED <<expired, cache, clicks, want, tries, seen>>

-----------------------------------------------------------------------------
(* GET /{code}: Redis first, then the table, then a fill in the background. *)

Live(l) == l.active /\ l.code \notin expired

Click(r, l) == clicks' = clicks \cup {NewEvent("url.clicked", l, r)}

RedirectToURL(r) ==
    /\ r \in Visitors /\ pc[r] = "idle"
    /\ \E c \in Codes : Ask(r, c, want[r].url, want[r].owner)
    /\ Goto(r, "cacheGet")
    /\ UNCHANGED <<stores, goroutines, tries, seen, answer>>

\* Two clauses of the redirect path that trust an entry without its expiry.
ServeCachedBlindly(r, e) ==
    \/ e.active /\ Reply(r, "redirect") /\ Click(r, e)
    \/ ~ e.active /\ Reply(r, "gone") /\ UNCHANGED clicks
ServeCached(r, e) ==
    \/ Live(e) /\ Reply(r, "redirect") /\ Click(r, e)
    \/ ~ Live(e) /\ Reply(r, "gone") /\ UNCHANGED clicks

CacheHit(r) ==
    /\ pc[r] = "cacheGet"
    /\ \E e \in cache :
          /\ e.code = want[r].code
          /\ seen' = [seen EXCEPT ![r] = {e}]
          /\ ServeCached(r, e)
    /\ UNCHANGED <<stores, fills, want, tries>>

\* No entry, or any error of Redis: Get answers (nil, nil) to both.
CacheMiss(r) ==
    /\ pc[r] = "cacheGet"
    /\ Goto(r, "find")
    /\ UNCHANGED <<stores, goroutines, want, tries, seen, answer>>

\* Redis hangs: Get gives up when the 50 ms of the whole redirect are over, so
\* the context FindByCode gets is already done.
CacheHang(r) ==
    /\ pc[r] = "cacheGet"
    /\ Goto(r, "findTooLate")
    /\ UNCHANGED <<stores, goroutines, want, tries, seen, answer>>

LookupActive(c) == {l \in urls : l.code = c /\ l.active}
Lookup(c) == {l \in urls : l.code = c}

\* FindByCode answers (nil, nil) when there is no row; RedirectToURL then
\* dereferences nil, and net/http drops the connection.
FindByCode(r) ==
    /\ pc[r] = "find"
    /\ \/ /\ Lookup(want[r].code) = {}
          /\ Reply(r, "panic")
          /\ UNCHANGED seen
       \/ /\ \E l \in Lookup(want[r].code) : seen' = [seen EXCEPT ![r] = {l}]
          /\ Goto(r, "decide")
          /\ UNCHANGED answer
    /\ UNCHANGED <<stores, goroutines, want, tries>>

\* The row read earlier decides, and is what the fill will cache.
FillIfLive(r, l) ==
    fills' = fills \cup {f \in {[by |-> r, link |-> l]} : Live(l)}

Decide(r) ==
    /\ pc[r] = "decide"
    /\ \E l \in seen[r] :
          /\ FillIfLive(r, l)
          /\ \/ Live(l) /\ Reply(r, "redirect") /\ Click(r, l)
             \/ ~ Live(l) /\ Reply(r, "gone") /\ UNCHANGED clicks
    /\ UNCHANGED <<stores, want, tries, seen>>

-----------------------------------------------------------------------------
(* DELETE /urls/{code}: a transaction, then the cache key. *)

DeactivateURL(r) ==
    /\ r \in Deleters /\ pc[r] = "idle"
    /\ \E c \in Codes, o \in Users : Ask(r, c, want[r].url, o)
    /\ Goto(r, "update")
    /\ UNCHANGED <<stores, goroutines, tries, seen, answer>>

\* The rows the UPDATE's WHERE clause selects.
MatchesAnyOwner(w) == {l \in urls : l.code = w.code /\ l.active}
Matches(w) == {l \in urls : l.code = w.code /\ l.owner = w.owner /\ l.active}

\* No row: 403.  A row: wait for its lock, after which the clause is
\* evaluated again on what the previous holder committed.
Deactivate(r) ==
    /\ pc[r] = "update"
    /\ \/ /\ Matches(want[r]) = {}
          /\ Reply(r, "forbidden")
          /\ UNCHANGED locks
       \/ /\ Matches(want[r]) # {} /\ Free(want[r].code)
          /\ Lock(want[r].code, r)
          /\ Goto(r, "commitDelete")
          /\ UNCHANGED answer
    /\ UNCHANGED <<urls, outbox, expired, cache, goroutines,
                   want, tries, seen>>

Inactive(l) == LinkOf(l.code, l.url, l.owner, FALSE)

CommitDelete(r) ==
    /\ pc[r] = "commitDelete"
    /\ urls' = (urls \ Matches(want[r]))
               \cup {Inactive(l) : l \in Matches(want[r])}
    /\ outbox' = outbox \cup {NewEvent("url.deleted", want[r], r)}
    /\ Unlock(r)
    /\ \/ Goto(r, "cacheDelete") /\ UNCHANGED answer
       \/ Reply(r, "error")
    /\ UNCHANGED <<expired, cache, goroutines, want, tries, seen>>

\* The error of cache.Delete is ignored: 204 either way.
CacheDelete(r) ==
    /\ pc[r] = "cacheDelete"
    /\ cache' \in {cache, EntriesBut(want[r].code)}
    /\ Reply(r, "noContent")
    /\ UNCHANGED <<urls, outbox, locks, expired, goroutines,
                   want, tries, seen>>

-----------------------------------------------------------------------------
(* Failures, and what runs beside the requests. *)

RollbackNever(r) == UNCHANGED locks
Rollback(r) == Unlock(r)

\* Any other error of a store call: rollback and 500.
Fail(r) ==
    /\ pc[r] \in {"insert", "commitNew", "find", "findTooLate",
                 "update", "commitDelete"}
    /\ Rollback(r)
    /\ Reply(r, "error")
    /\ UNCHANGED <<urls, outbox, expired, cache, goroutines,
                   want, tries, seen>>

\* The replica dies under the request; PostgreSQL rolls its transaction back.
Crash(r) ==
    /\ pc[r] \notin {"idle", "done", "crashed"}
    /\ Rollback(r)
    /\ Goto(r, "crashed")
    /\ UNCHANGED <<urls, outbox, expired, cache, goroutines,
                   want, tries, seen, answer>>

\* The fill goroutine runs; Redis may fail it, or the replica may be gone.
CacheSet(f) ==
    /\ fills' = fills \ {f}
    /\ cache' \in {cache, EntriesBut(f.link.code) \cup {f.link}}
    /\ UNCHANGED <<urls, outbox, locks, expired, clicks, requests>>

\* The click goroutine runs; a failed insert loses the click.
WriteClick(e) ==
    /\ clicks' = clicks \ {e}
    /\ outbox' \in {outbox, outbox \cup {e}}
    /\ UNCHANGED <<urls, locks, expired, cache, fills, requests>>

\* A TTL runs out, or Redis, which persists nothing, restarts.
Evict(e) ==
    /\ cache' = cache \ {e}
    /\ UNCHANGED <<urls, outbox, locks, expired, goroutines, requests>>

Expire(l) ==
    /\ l.code \notin expired
    /\ expired' = expired \cup {l.code}
    /\ UNCHANGED <<urls, outbox, locks, cache, goroutines, requests>>

-----------------------------------------------------------------------------
Step(r) ==
    \/ InsertUrl(r) \/ Collide(r) \/ CommitShorten(r)
    \/ CacheHit(r) \/ CacheMiss(r) \/ CacheHang(r)
    \/ FindByCode(r) \/ Decide(r)
    \/ Deactivate(r) \/ CommitDelete(r) \/ CacheDelete(r)

Next ==
    \/ \E r \in Requests : \/ ShortenURL(r) \/ RedirectToURL(r)
                           \/ DeactivateURL(r)
                           \/ Step(r) \/ Fail(r) \/ Crash(r)
    \/ \E f \in fills : CacheSet(f)
    \/ \E e \in clicks : WriteClick(e)
    \/ \E e \in cache : Evict(e)
    \/ \E l \in urls : Expire(l)

Spec == Init /\ [][Next]_vars

\* PostgreSQL answers a statement that waits for no lock, and Redis a command; an
\* error may come instead, but only the deadline of a redirect has to bring one.
Fairness ==
    /\ \A r \in Requests : /\ WF_vars(Step(r))
                           /\ WF_vars(pc[r] = "findTooLate" /\ Fail(r))
    /\ WF_vars(\E f \in fills : CacheSet(f))
    /\ WF_vars(\E e \in clicks : WriteClick(e))

FairSpec == Spec /\ Fairness

-----------------------------------------------------------------------------
(* Properties *)

Labels == {"idle", "insert", "commitNew", "cacheGet", "find", "findTooLate",
           "decide", "update", "commitDelete", "cacheDelete", "done", "crashed"}
Answers == {"none", "created", "conflict", "redirect", "gone", "panic",
            "forbidden", "noContent", "error"}

\* The type of every variable.
TypeOK ==
    /\ urls \subseteq Link /\ cache \subseteq Link
    /\ outbox \subseteq Event /\ clicks \subseteq Event
    /\ locks \subseteq [code : Codes, by : Requests]
    /\ fills \subseteq [by : Requests, link : Link]
    /\ expired \subseteq Codes
    /\ pc \in [Requests -> Labels]
    /\ want \in [Requests -> Link]
    /\ tries \in [Requests -> 0 .. MaxAttempts]
    /\ seen \in [Requests -> SUBSET Link]
    /\ answer \in [Requests -> Answers]

\* Everything read or about to be written outside a transaction: what the
\* redirect path may hand out as the destination of a code.
Copies == cache \cup {f.link : f \in fills} \cup UNION {seen[r] : r \in Requests}

\* Two copies of a code never disagree on destination or owner, and each names
\* a row that is still there: fills that arrive in any order, however late,
\* can make an entry out of date only in is_active.
CopiesAgree ==
    \A c \in Copies : \E l \in urls :
        l.code = c.code /\ l.url = c.url /\ l.owner = c.owner

\* A visitor is sent where the client that was answered 201 for the code asked,
\* whatever was created, deactivated, cached or lost in between.
VisitorsReachThePromise ==
    \A s \in Shorteners, v \in Visitors :
        (/\ answer[s] = "created" /\ answer[v] = "redirect"
         /\ want[s].code = want[v].code)
        => \A l \in seen[v] : l.url = want[s].url /\ l.owner = want[s].owner

EventsOf(type, c) == {e \in outbox : e.type = type /\ e.code = c}
Once(events) == \E e \in events : events = {e}

\* A row exists with exactly one url.created event, is inactive with exactly
\* one url.deleted event, and the events name the row's owner: no failure
\* between two statements, and no race of two deletions, leaves a partial write.
EventsMatchRows ==
    /\ \A l \in urls :
          /\ Once(EventsOf("url.created", l.code))
          /\ l.active => EventsOf("url.deleted", l.code) = {}
          /\ ~ l.active => Once(EventsOf("url.deleted", l.code))
    /\ \A e \in outbox \cup clicks :
          \E l \in urls : l.code = e.code /\ l.owner = e.owner

Refused(r) == answer[r] \in {"conflict", "forbidden"}

\* Some request has committed the link, and it asked for this code, destination and owner.
WasGranted(l) ==
    \E e \in EventsOf("url.created", l.code) :
        want[e.by] = LinkOf(l.code, l.url, l.owner, TRUE)

\* A request answered 409 or 403 has left nothing behind: no event, fill or lock is its
\* own, and every row, the end of a row, and whatever is in Redis or about to be put
\* there, stem from the committed event of a request (so of one that was not refused)
\* that asked for just that.
RefusalsLeaveNothing ==
    /\ \A r \in Requests : Refused(r) =>
          /\ \A e \in outbox \cup clicks : e.by # r
          /\ \A f \in fills : f.by # r
          /\ \A k \in locks : k.by # r
    /\ \A l \in urls \cup cache \cup {f.link : f \in fills} : WasGranted(l)
    /\ \A l \in urls : ~ l.active =>
          \E e \in EventsOf("url.deleted", l.code) : want[e.by].owner = l.owner

\* One transaction at a time works on a code, and it is open: nobody holds a
\* lock that no COMMIT or ROLLBACK is going to release.
LocksAreOpenTransactions ==
    /\ \A k, m \in locks : k.code = m.code => k = m
    /\ \A r \in Requests :
          (\E k \in locks : k.by = r) <=> pc[r] \in {"commitNew", "commitDelete"}

\* Every cached entry and every pending fill is active: the flag that CachedURL
\* carries is never false, so a hit never answers 410 for a deactivated link.
FlagIsNeverFalse == \A c \in cache \cup {f.link : f \in fills} : c.active

\* An expired link is not redirected, though Set is called with a TTL computed
\* earlier and with 0, which Redis takes for "no expiry", when it is negative.
ExpiredIsNotServed ==
    [][\A r \in Visitors :
          answer[r] = "none" /\ answer'[r] = "redirect"
          => want[r].code \notin expired]_vars

\* A code that was ever handed out keeps its one row, which may only end: no race
\* of transactions removes it, revives it, or gives the code to somebody else.
RowsOnlyEnd ==
    [][\A l \in urls :
          {m \in urls' : m.code = l.code} \in {{l}, {Inactive(l)}}]_vars

\* A visitor who comes after the 201 of a code is never answered as for an unknown
\* code, by a panic, whatever was deactivated, expired or evicted since.
PromisedCodesAreFound ==
    [][\A s \in Shorteners, v \in Visitors :
          (/\ answer[s] = "created" /\ want[s].code = want[v].code
           /\ answer[v] = "none")
          => answer'[v] # "panic"]_vars

\* Every request that started ends, though transactions on one code wait for
\* each other, and the goroutines it left behind end too.
RequestsEnd ==
    \A r \in Requests :
        pc[r] # "idle" ~> pc[r] \in {"done", "crashed"} /\ fills = {} /\ clicks = {}

-----------------------------------------------------------------------------
(* Why RequestsEnd holds, but for fairness: requests run out of steps. *)

\* The most steps a request can still make.
StepsLeft(r) ==
    CASE pc[r] = "idle" -> MaxAttempts + 3
      [] pc[r] = "insert" -> MaxAttempts + 2 - tries[r]
      [] pc[r] \in {"cacheGet", "update"} -> 3
      [] pc[r] \in {"find", "commitDelete"} -> 2
      [] pc[r] \in {"commitNew", "findTooLate", "decide", "cacheDelete"} -> 1
      [] pc[r] \in {"done", "crashed"} -> 0

Stands(r) == UNCHANGED <<pc[r], want[r], tries[r], seen[r], answer[r]>>

Advances == \A r \in Requests : Stands(r) \/ StepsLeft(r)' < StepsLeft(r)

\* Whatever a request does brings it nearer to its end, a collision and the draw of
\* another code too: none goes in a circle, and others never set it back.
RequestsAdvance == [][Advances]_vars

-----------------------------------------------------------------------------
(* Why VisitorsReachThePromise holds: an inductive invariant. *)

\* A transaction holds the lock of the code it was asked to work on, ...
LocksAreOnWanted == \A k \in locks : k.code = want[k.by].code

\* ... so that the key an INSERT has found free stays free until COMMIT, ...
InsertsStayNew ==
    \A r \in Requests : pc[r] = "commitNew" => ~ Taken(want[r].code)

\* ... and a code names at most one row, deactivated rows included.
UniqueCodes == \A l, m \in urls : l.code = m.code => l = m

\* What a redirect has read is about the code it was asked for, ...
SeenIsWanted ==
    \A r \in Requests : seen[r] # {} =>
        /\ pc[r] \in {"decide", "done", "crashed"}
        /\ \A l \in seen[r] : l.code = want[r].code

\* ... and the row of a 201 is there for good.
CreatedIsKept ==
    \A r \in Requests : answer[r] = "created" =>
        /\ pc[r] = "done"
        /\ \E l \in urls : /\ l.code = want[r].code
                           /\ l.url = want[r].url /\ l.owner = want[r].owner

Inv == /\ TypeOK /\ LocksAreOpenTransactions /\ LocksAreOnWanted
       /\ InsertsStayNew /\ UniqueCodes
       /\ CopiesAgree /\ SeenIsWanted /\ CreatedIsKept

\* Why EventsMatchRows holds.  A deletion that holds the lock still has a row to end, ...
DeletionsFindTheirRow ==
    \A r \in Requests : pc[r] = "commitDelete" => Matches(want[r]) # {}

\* ... and the goroutines beside the transactions write nothing but clicks.
ClicksAreClicks == \A e \in clicks : e.type = "url.clicked"

EventsInv == Inv /\ EventsMatchRows /\ DeletionsFindTheirRow /\ ClicksAreClicks

\* Why RefusalsLeaveNothing holds, but for the first part.  A row keeps the mark of the
\* request that inserted it, and its end that of the request that ended it; copies agree
\* with a row (CopiesAgree).
RowsWereGranted ==
    \A l \in urls :
        /\ WasGranted(l)
        /\ ~ l.active => \E e \in EventsOf("url.deleted", l.code) : want[e.by].owner = l.owner

-----------------------------------------------------------------------------
(* What the documents say and the code does not do. *)

\* main_docs.md:29: a deactivation "immediately invalidates the Redis key after
\* committing the SQL update, keeping the cache consistent".  It does not last: the
\* fill that ShortenURL started for the new link may call Set after the Delete.  (The
\* fill of a redirect that read the row before the UPDATE may do the same.)
InvalidationLasts ==
    [][\A r \in Deleters :
          (/\ answer[r] = "noContent"
           /\ \A e \in cache : e.code # want[r].code)
          => \A e \in cache' : e.code = want[r].code => ~ e.active]_vars

=============================================================================
