---------------------------- MODULE CircuitBreaker ----------------------------
(***************************************************************************)
(* The gateway's circuit breaker in front of url-service: the calls of Do  *)
(* that many requests make at once, the callback that reports transitions  *)
(* outside the lock, and the Prometheus gauge it sets.                     *)
(*                                                                         *)
(* What holds cb.mu is one step.  The two clocks are kept as the only      *)
(* question the code asks of each: has openTimeout passed since the last   *)
(* failure, has failureWindow passed since windowStart.                    *)
(***************************************************************************)
EXTENDS Naturals, FiniteSets

CONSTANTS
    Callers,       \* requests in the gateway at the same time
    MaxFailures,   \* CB_MAX_FAILURES
    CanPanic       \* whether upstream() may panic (http.ErrAbortHandler)

ASSUME ParametersOK ==
    /\ MaxFailures \in Nat \ {0} /\ CanPanic \in BOOLEAN
    /\ IsFiniteSet(Callers)

VARIABLES
    state,        \* of the breaker
    probe,        \* halfOpenProbe
    failures,
    cooled,       \* time.Since(lastFailureTime) > openTimeout
    windowOver,   \* time.Since(windowStart) > failureWindow
    pc,           \* where each caller is in Do
    news,         \* the transition a caller has still to report
    gauge         \* gateway_circuit_breaker_state

breaker == <<state, probe, failures, cooled, windowOver>>
callers == <<pc, news>>
vars == <<breaker, callers, gauge>>

States == {"CLOSED", "OPEN", "HALF_OPEN"}

\* float64(State): the constants are numbered by iota.
GaugeOf == [CLOSED |-> 0, OPEN |-> 1, HALF_OPEN |-> 2]

Init ==
    /\ state = "CLOSED" /\ probe = FALSE /\ failures = 0
    /\ cooled = TRUE /\ windowOver = FALSE
    /\ pc = [c \in Callers |-> "out"]
    /\ news = [c \in Callers |-> "CLOSED"]
    /\ gauge = GaugeOf["CLOSED"]

Goto(c, label) == pc' = [pc EXCEPT ![c] = label]

\* The lock is released; the caller reports the transition to s, then goes on.
Report(c, s) ==
    /\ Goto(c, "report")
    /\ news' = [news EXCEPT ![c] = s]

-----------------------------------------------------------------------------
(* Admission *)

AdmitClosed(c) ==
    /\ pc[c] = "out" /\ state = "CLOSED"
    /\ Goto(c, "gate")
    /\ UNCHANGED <<breaker, news, gauge>>

TimeoutOverFlipped == ~ cooled
TimeoutOver == cooled

AdmitAfterTimeout(c) ==
    /\ pc[c] = "out" /\ state = "OPEN" /\ TimeoutOver
    /\ state' = "HALF_OPEN" /\ probe' = TRUE
    /\ Report(c, "HALF_OPEN")
    /\ UNCHANGED <<failures, cooled, windowOver, gauge>>

AdmitProbe(c) ==
    /\ pc[c] = "out" /\ state = "HALF_OPEN" /\ ~ probe
    /\ probe' = TRUE
    /\ Goto(c, "gate")
    /\ UNCHANGED <<state, failures, cooled, windowOver, news, gauge>>

\* ErrCircuitOpen: the gateway answers 503.
Reject(c) ==
    /\ pc[c] = "out"
    /\ (state = "OPEN" /\ ~ TimeoutOver) \/ (state = "HALF_OPEN" /\ probe)
    /\ Goto(c, "rejected")
    /\ UNCHANGED <<breaker, news, gauge>>

Leave(c) ==
    /\ pc[c] = "rejected"
    /\ Goto(c, "out")
    /\ UNCHANGED <<breaker, news, gauge>>

\* onStateChange sets the gauge to the state it was told, whatever it is by now.
Tell(c) ==
    /\ pc[c] = "report"
    /\ gauge' = GaugeOf[news[c]]
    /\ Goto(c, IF news[c] = "HALF_OPEN" THEN "gate" ELSE "out")
    /\ UNCHANGED <<breaker, news>>

\* ctx.Done(): any caller that leaves a half-open breaker frees the probe.
ProbeKept == UNCHANGED probe
ProbeFreed == probe' = (probe /\ state # "HALF_OPEN")

Cancelled(c) ==
    /\ pc[c] = "gate"
    /\ ProbeFreed
    /\ Goto(c, "out")
    /\ UNCHANGED <<state, failures, cooled, windowOver, news, gauge>>

CallUpstream(c) ==
    /\ pc[c] = "gate"
    /\ Goto(c, "upstream")
    /\ UNCHANGED <<breaker, news, gauge>>

-----------------------------------------------------------------------------
(* The outcome, of a probe or of a call that was admitted long before *)

FailsHalfOpen(c) ==
    /\ pc[c] = "upstream" /\ state = "HALF_OPEN"
    /\ state' = "OPEN" /\ probe' = FALSE /\ cooled' = FALSE
    /\ Report(c, "OPEN")
    /\ UNCHANGED <<failures, windowOver, gauge>>

Counted == IF windowOver THEN 1 ELSE failures + 1

\* Failure number MaxFailures trips the breaker, if it has not tripped yet.
TripsLate == Counted > MaxFailures /\ state # "OPEN"
Trips == Counted >= MaxFailures /\ state # "OPEN"

Fails(c) ==
    /\ pc[c] = "upstream" /\ state # "HALF_OPEN"
    /\ probe' = FALSE /\ cooled' = FALSE /\ windowOver' = FALSE
    /\ failures' = Counted
    /\ \/ Trips /\ state' = "OPEN" /\ Report(c, "OPEN")
       \/ ~ Trips /\ Goto(c, "out") /\ UNCHANGED <<state, news>>
    /\ UNCHANGED gauge

ClosesFrom(s) == s \in {"OPEN", "HALF_OPEN"}
Closes(s) == s = "HALF_OPEN"

Succeeds(c) ==
    /\ pc[c] = "upstream"
    /\ probe' = FALSE /\ failures' = 0 /\ windowOver' = FALSE
    /\ \/ Closes(state) /\ state' = "CLOSED" /\ Report(c, "CLOSED")
       \/ ~ Closes(state) /\ Goto(c, "out") /\ UNCHANGED <<state, news>>
    /\ UNCHANGED <<cooled, gauge>>

\* ReverseProxy aborts a response it cannot finish copying by a panic, which
\* runs past the code that records an outcome.
Panics(c) ==
    /\ CanPanic /\ pc[c] = "upstream"
    /\ Goto(c, "out")
    /\ UNCHANGED <<breaker, news, gauge>>

-----------------------------------------------------------------------------
CoolDown ==
    /\ ~ cooled /\ cooled' = TRUE
    /\ UNCHANGED <<state, probe, failures, windowOver, callers, gauge>>

WindowPasses ==
    /\ ~ windowOver /\ windowOver' = TRUE
    /\ UNCHANGED <<state, probe, failures, cooled, callers, gauge>>

Enter(c) == AdmitClosed(c) \/ AdmitAfterTimeout(c) \/ AdmitProbe(c) \/ Reject(c)

Proceed(c) ==
    \/ Leave(c) \/ Tell(c) \/ Cancelled(c) \/ CallUpstream(c)
    \/ FailsHalfOpen(c) \/ Fails(c) \/ Succeeds(c) \/ Panics(c)

Next == CoolDown \/ WindowPasses \/ \E c \in Callers : Enter(c) \/ Proceed(c)

Spec == Init /\ [][Next]_vars

\* Requests keep coming, calls end, and clocks advance.
Fairness ==
    /\ WF_vars(CoolDown)
    /\ WF_vars(\E c \in Callers : Enter(c))
    /\ \A c \in Callers : WF_vars(Proceed(c))

FairSpec == Spec /\ Fairness

-----------------------------------------------------------------------------
(* Properties *)

\* The type of every variable.
TypeOK ==
    /\ state \in States /\ probe \in BOOLEAN /\ failures \in Nat
    /\ cooled \in BOOLEAN /\ windowOver \in BOOLEAN
    /\ pc \in [Callers -> {"out", "rejected", "report", "gate", "upstream"}]
    /\ news \in [Callers -> States]
    /\ gauge \in 0 .. 2

InFlight(c) ==
    \/ pc[c] \in {"gate", "upstream"}
    \/ pc[c] = "report" /\ news[c] = "HALF_OPEN"

\* A half-open breaker that turns callers away is waiting for a call that is still
\* under way: late answers, cancellations and second probes never leave the flag
\* set with nobody to clear it, which would reject every request for good.
ProbeIsInFlight ==
    state = "HALF_OPEN" /\ probe => \E c \in Callers : InFlight(c)

\* Of all that can happen to a call, a panic alone leaves the flag behind.
OnlyAPanicLocks ==
    [][ProbeIsInFlight => ProbeIsInFlight' \/ \E c \in Callers : Panics(c)]_vars

ClosedIsBelowLimit == state = "CLOSED" => failures < MaxFailures

\* A closed breaker is below its limit, and failures that arrive after the trip add
\* at most one for each call that was in flight.
FailuresAreBounded ==
    /\ ClosedIsBelowLimit
    /\ failures < MaxFailures + Cardinality(Callers)

\* main_docs.md:7824: never CLOSED to HALF_OPEN, never OPEN to CLOSED, though any
\* call may end in a state that is not the one that admitted it.
TransitionsAreLegal ==
    [][<<state, state'>> \notin {<<"CLOSED", "HALF_OPEN">>, <<"OPEN", "CLOSED">>}]_vars

\* An open breaker lets a probe through in the end, however many late failures
\* restart its timeout, as long as requests keep coming.
OpenEndsInProbe == state = "OPEN" ~> state = "HALF_OPEN"

=============================================================================
