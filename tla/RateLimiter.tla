----------------------------- MODULE RateLimiter -----------------------------
(***************************************************************************)
(* The gateway's rate limiter for one route and one client: requests, in   *)
(* any number of gateways, count themselves in one Redis key that expires  *)
(* a window after it was made.  Every command is a step of its own, may    *)
(* fail, and may take effect and fail all the same.                        *)
(*                                                                         *)
(* Time is relative: the key counts down to its expiry, and a request      *)
(* remembers for a window how long ago it was let through.                 *)
(***************************************************************************)
EXTENDS Integers, FiniteSets

CONSTANTS
    Requests,       \* requests of one client on one route
    Limit,          \* RateLimitConfig.Limit
    Window,         \* RateLimitConfig.WindowSecs, in ticks
    MaxFaults,      \* bound: commands that fail, or whose answer is lost
    MaxEvictions    \* bound: losses of the key in Redis

ASSUME ParametersOK ==
    /\ Limit \in Nat \ {0} /\ Window \in Nat \ {0}
    /\ MaxFaults \in Nat /\ MaxEvictions \in Nat

VARIABLES
    count,        \* the value of the key; 0 when there is none
    ttl,          \* its time to live, or Forever
    pc,           \* where each request is in Allow
    age,          \* ticks since it was let through, counted or not, up to Window
    faults, evictions

redis == <<count, ttl>>
bounds == <<faults, evictions>>
vars == <<redis, pc, age, bounds>>

\* What TTL answers for a key without expiry.
Forever == -1

Init ==
    /\ count = 0 /\ ttl = Forever
    /\ pc = [r \in Requests |-> "out"]
    /\ age = [r \in Requests |-> Window]
    /\ faults = 0 /\ evictions = 0

Goto(r, label) == pc' = [pc EXCEPT ![r] = label]

Fault == faults < MaxFaults /\ faults' = faults + 1 /\ UNCHANGED evictions

\* INCR.  All counts above the limit are alike (bound: Limit + 1).
Incremented == IF count > Limit THEN count ELSE count + 1

WithinLimitPlusOne(n) == n <= Limit + 1
WithinLimit(n) == n <= Limit

-----------------------------------------------------------------------------
(* Allow *)

FirstNever == FALSE
FirstAlways == TRUE
First == count' = 1

\* The request is counted; a slot is used again once its last pass is a window ago.
Incr(r) ==
    /\ pc[r] = "out" /\ age[r] = Window
    /\ count' = Incremented
    /\ Goto(r, IF First THEN "expire" ELSE IF WithinLimit(count') THEN "out" ELSE "refuse")
    /\ age' = IF WithinLimit(count') THEN [age EXCEPT ![r] = 0] ELSE age
    /\ UNCHANGED <<ttl, bounds>>

\* An error of INCR lets the request through, counted or not.
IncrFails(r) ==
    /\ pc[r] = "out" /\ age[r] = Window
    /\ count' \in {count, Incremented}
    /\ Fault
    /\ age' = [age EXCEPT ![r] = 0]
    /\ UNCHANGED <<ttl, pc>>

TtlSet == IF count = 0 THEN ttl ELSE Window

\* EXPIRE starts the window anew; it does nothing to a key that is gone.
Expire(r) ==
    /\ pc[r] = "expire"
    /\ ttl' = TtlSet
    /\ Goto(r, "out")
    /\ UNCHANGED <<count, age, bounds>>

\* An error of EXPIRE lets the request through, as counting it would have done.
ExpireFails(r) ==
    /\ pc[r] = "expire"
    /\ ttl' \in {ttl, TtlSet}
    /\ Fault
    /\ Goto(r, "out")
    /\ UNCHANGED <<count, age>>

\* 429, with the time to live, or 0, as Retry-After.
Refuse(r) ==
    /\ pc[r] = "refuse"
    /\ Goto(r, "out")
    /\ UNCHANGED <<redis, age, bounds>>

-----------------------------------------------------------------------------
(* Redis and time *)

Evict ==
    /\ count > 0 /\ evictions < MaxEvictions
    /\ evictions' = evictions + 1
    /\ count' = 0 /\ ttl' = Forever
    /\ UNCHANGED <<pc, age, faults>>

Older(n) == IF n = Window THEN n ELSE n + 1

Tick ==
    /\ age' = [r \in Requests |-> Older(age[r])]
    /\ count' = IF ttl = 1 THEN 0 ELSE count
    /\ ttl' = IF ttl \in {1, Forever} THEN Forever ELSE ttl - 1
    /\ UNCHANGED <<pc, bounds>>

-----------------------------------------------------------------------------
Proceed(r) == Expire(r) \/ ExpireFails(r) \/ Refuse(r)

Next ==
    \/ Tick \/ Evict
    \/ \E r \in Requests : Incr(r) \/ IncrFails(r) \/ Proceed(r)

Spec == Init /\ [][Next]_vars

\* Redis answers within the 100 ms of Allow, if only by an error, and time passes.
FairSpec == Spec /\ WF_vars(Tick) /\ \A r \in Requests : WF_vars(Proceed(r))

-----------------------------------------------------------------------------
(* Properties *)

\* The type of every variable.
TypeOK ==
    /\ count \in 0 .. Limit + 1
    /\ ttl \in 1 .. Window \cup {Forever}
    /\ pc \in [Requests -> {"out", "expire", "refuse"}]
    /\ age \in [Requests -> 0 .. Window]
    /\ faults \in Nat /\ evictions \in Nat

Recent == {r \in Requests : age[r] < Window}

\* A window lets through at most twice the limit, the limit once more for each time
\* Redis lost the key, and one request for each command that failed: counters live a
\* window at least, however late EXPIRE is, and an error admits only its own request.
BurstsAreBounded == Cardinality(Recent) <= (2 + evictions) * Limit + faults

\* A counter has an expiry, or its first request is about to set it.  Otherwise a
\* command failed, for good: no later request sets what the first one did not.
CounterExpires ==
    count > 0 /\ ttl = Forever => faults > 0 \/ \E r \in Requests : pc[r] = "expire"

\* A client that used up its limit is let in again, unless a command failed.
ClientsAreLetIn == count > Limit ~> count = 0 \/ faults > 0

-----------------------------------------------------------------------------
(* Why BurstsAreBounded holds: an inductive invariant. *)

\* Those let through by an error aside, the key counts those let through last, and
\* those before it are at least as old as the key: a window, less what it has to live.
BurstInv ==
    /\ IsFiniteSet(Recent)
    /\ \E before \in SUBSET Recent, counted \in SUBSET Recent, failed \in SUBSET Recent :
          /\ Recent = before \cup counted \cup failed
          /\ Cardinality(before) <= (1 + evictions) * Limit
          /\ Cardinality(counted) <= count /\ Cardinality(counted) <= Limit
          /\ Cardinality(failed) <= faults
          /\ ttl # Forever => \A r \in before : age[r] + ttl >= Window

=============================================================================
