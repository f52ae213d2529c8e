------------------------ MODULE CircuitBreaker_proofs ------------------------
(***************************************************************************)
(* Proofs about CircuitBreaker for any number of concurrent calls and any  *)
(* failure limit.                                                          *)
(***************************************************************************)
EXTENDS CircuitBreaker, FiniteSetTheorems, TLAPS

\* A new breaker is closed, with a gauge that says so.
LEMMA TypeInit == Init => TypeOK
  <1> SUFFICES ASSUME Init PROVE TypeOK OBVIOUS
  <1>1. gauge \in 0 .. 2
    BY DEF Init, GaugeOf
  <1>2. /\ pc \in [Callers -> {"out", "rejected", "report", "gate", "upstream"}]
            /\ news \in [Callers -> States]
    BY DEF Init, States
  <1> QED BY <1>1, <1>2 DEF Init, TypeOK, States

\* Every step of a call, and both clocks, keep the types.
LEMMA TypeStep == TypeOK /\ [Next]_vars => TypeOK'
  <1> SUFFICES ASSUME TypeOK, [Next]_vars PROVE TypeOK' OBVIOUS
  <1> USE DEF TypeOK, breaker, callers
  <1>1. ASSUME NEW c \in Callers, AdmitClosed(c) PROVE TypeOK'
    BY <1>1 DEF AdmitClosed, Goto
  <1>2. ASSUME NEW c \in Callers, AdmitAfterTimeout(c) PROVE TypeOK'
    BY <1>2 DEF AdmitAfterTimeout, Report, Goto, TimeoutOver, States
  <1>3. ASSUME NEW c \in Callers, AdmitProbe(c) PROVE TypeOK'
    BY <1>3 DEF AdmitProbe, Goto
  <1>4. ASSUME NEW c \in Callers, Reject(c) PROVE TypeOK'
    BY <1>4 DEF Reject, Goto
  <1>5. ASSUME NEW c \in Callers, Leave(c) PROVE TypeOK'
    BY <1>5 DEF Leave, Goto
  <1>6. ASSUME NEW c \in Callers, Tell(c) PROVE TypeOK'
    BY <1>6 DEF Tell, Goto, GaugeOf, States
  <1>7. ASSUME NEW c \in Callers, Cancelled(c) PROVE TypeOK'
    BY <1>7 DEF Cancelled, ProbeFreed, Goto
  <1>8. ASSUME NEW c \in Callers, CallUpstream(c) PROVE TypeOK'
    BY <1>8 DEF CallUpstream, Goto
  <1>9. ASSUME NEW c \in Callers, FailsHalfOpen(c) PROVE TypeOK'
    BY <1>9 DEF FailsHalfOpen, Report, Goto, States
  <1>10. ASSUME NEW c \in Callers, Fails(c) PROVE TypeOK'
    <2>1. failures' \in Nat
      BY <1>10 DEF Fails, Counted
    <2>2. state' \in States /\ news' \in [Callers -> States]
      BY <1>10 DEF Fails, Report, States
    <2>3. pc' \in [Callers -> {"out", "rejected", "report", "gate", "upstream"}]
      BY <1>10 DEF Fails, Report, Goto
    <2> QED BY <1>10, <2>1, <2>2, <2>3 DEF Fails
  <1>11. ASSUME NEW c \in Callers, Succeeds(c) PROVE TypeOK'
    BY <1>11 DEF Succeeds, Closes, Report, Goto, States
  <1>12. ASSUME NEW c \in Callers, Panics(c) PROVE TypeOK'
    BY <1>12 DEF Panics, Goto
  <1>13. CASE CoolDown \/ WindowPasses
    BY <1>13 DEF CoolDown, WindowPasses
  <1>14. CASE UNCHANGED vars
    BY <1>14 DEF vars
  <1> QED
    BY <1>1, <1>2, <1>3, <1>4, <1>5, <1>6, <1>7, <1>8, <1>9, <1>10, <1>11, <1>12, <1>13, <1>14
       DEF Next, Enter, Proceed

\* Every variable of the breaker and of its calls keeps its type.
THEOREM TypeCorrect == Spec => []TypeOK
  <1> QED BY TypeInit, TypeStep, PTL DEF Spec

\* The state changes only where Do assigns it, and each assignment is behind a test
\* of the state it leaves.
LEMMA TransitionStep ==
  ASSUME [Next]_vars
  PROVE  \/ state' = state
         \/ state = "OPEN" /\ state' = "HALF_OPEN"
         \/ state = "HALF_OPEN" /\ state' \in {"OPEN", "CLOSED"}
         \/ state # "HALF_OPEN" /\ state' = "OPEN"
  BY DEF Next, Enter, Proceed, vars, breaker, callers, AdmitClosed,
         AdmitAfterTimeout, AdmitProbe, Reject, Leave, Tell, Cancelled,
         CallUpstream, FailsHalfOpen, Fails, Succeeds, Closes, Panics,
         CoolDown, WindowPasses

\* A call that ends in another state than it began in never makes the breaker skip
\* the half-open state, or enter it from the closed one.
THEOREM TransitionsCorrect == Spec => TransitionsAreLegal
  <1>1. [Next]_vars => <<state, state'>> \notin
                         {<<"CLOSED", "HALF_OPEN">>, <<"OPEN", "CLOSED">>}
    BY TransitionStep
  <1> QED BY <1>1, PTL DEF Spec, TransitionsAreLegal

\* The failure that reaches the limit trips a closed breaker.
LEMMA LimitStep == TypeOK /\ ClosedIsBelowLimit /\ [Next]_vars => ClosedIsBelowLimit'
  <1> SUFFICES ASSUME TypeOK, ClosedIsBelowLimit, [Next]_vars PROVE ClosedIsBelowLimit' OBVIOUS
  <1> USE DEF TypeOK, ClosedIsBelowLimit, breaker, callers
  <1>1. ASSUME NEW c \in Callers, AdmitClosed(c) PROVE ClosedIsBelowLimit'
    BY <1>1 DEF AdmitClosed, Goto
  <1>2. ASSUME NEW c \in Callers, AdmitAfterTimeout(c) PROVE ClosedIsBelowLimit'
    BY <1>2 DEF AdmitAfterTimeout, Report, Goto, TimeoutOver, States
  <1>3. ASSUME NEW c \in Callers, AdmitProbe(c) PROVE ClosedIsBelowLimit'
    BY <1>3 DEF AdmitProbe, Goto
  <1>4. ASSUME NEW c \in Callers, Reject(c) PROVE ClosedIsBelowLimit'
    BY <1>4 DEF Reject, Goto
  <1>5. ASSUME NEW c \in Callers, Leave(c) PROVE ClosedIsBelowLimit'
    BY <1>5 DEF Leave, Goto
  <1>6. ASSUME NEW c \in Callers, Tell(c) PROVE ClosedIsBelowLimit'
    BY <1>6 DEF Tell, Goto, GaugeOf, States
  <1>7. ASSUME NEW c \in Callers, Cancelled(c) PROVE ClosedIsBelowLimit'
    BY <1>7 DEF Cancelled, ProbeFreed, Goto
  <1>8. ASSUME NEW c \in Callers, CallUpstream(c) PROVE ClosedIsBelowLimit'
    BY <1>8 DEF CallUpstream, Goto
  <1>9. ASSUME NEW c \in Callers, FailsHalfOpen(c) PROVE ClosedIsBelowLimit'
    BY <1>9 DEF FailsHalfOpen, Report, Goto, States
  <1>10. ASSUME NEW c \in Callers, Fails(c) PROVE ClosedIsBelowLimit'
    BY <1>10, ParametersOK DEF Fails, Counted, Trips, Report, Goto, States
  <1>11. ASSUME NEW c \in Callers, Succeeds(c) PROVE ClosedIsBelowLimit'
    BY <1>11, ParametersOK DEF Succeeds, Closes, Report, Goto, States
  <1>12. ASSUME NEW c \in Callers, Panics(c) PROVE ClosedIsBelowLimit'
    BY <1>12 DEF Panics, Goto
  <1>13. CASE CoolDown \/ WindowPasses
    BY <1>13 DEF CoolDown, WindowPasses
  <1>14. CASE UNCHANGED vars
    BY <1>14 DEF vars
  <1> QED
    BY <1>1, <1>2, <1>3, <1>4, <1>5, <1>6, <1>7, <1>8, <1>9, <1>10, <1>11, <1>12, <1>13, <1>14
       DEF Next, Enter, Proceed

\* However many calls fail at once, a closed breaker has fewer failures than it
\* takes to open it.
THEOREM LimitCorrect == Spec => []ClosedIsBelowLimit
  <1>1. Init => ClosedIsBelowLimit
    BY ParametersOK DEF Init, ClosedIsBelowLimit
  <1> QED BY <1>1, LimitStep, TypeCorrect, PTL DEF Spec

\* While the breaker is half-open and the flag is set, the calls in flight include
\* one that clears it, whichever call set it.
LEMMA ProbeStep ==
  TypeOK /\ ProbeIsInFlight /\ [Next]_vars => ProbeIsInFlight' \/ \E c \in Callers : Panics(c)
  <1> SUFFICES ASSUME TypeOK, ProbeIsInFlight, [Next]_vars, ~ \E c \in Callers : Panics(c)
               PROVE  ProbeIsInFlight'
    OBVIOUS
  <1> USE DEF TypeOK, ProbeIsInFlight, InFlight, breaker, callers
  <1>1. ASSUME NEW c \in Callers, AdmitClosed(c) PROVE ProbeIsInFlight'
    BY <1>1 DEF AdmitClosed, Goto
  <1>2. ASSUME NEW c \in Callers, AdmitAfterTimeout(c) PROVE ProbeIsInFlight'
    BY <1>2 DEF AdmitAfterTimeout, Report, Goto, TimeoutOver, States
  <1>3. ASSUME NEW c \in Callers, AdmitProbe(c) PROVE ProbeIsInFlight'
    BY <1>3 DEF AdmitProbe, Goto
  <1>4. ASSUME NEW c \in Callers, Reject(c) PROVE ProbeIsInFlight'
    BY <1>4 DEF Reject, Goto
  <1>5. ASSUME NEW c \in Callers, Leave(c) PROVE ProbeIsInFlight'
    BY <1>5 DEF Leave, Goto
  <1>6. ASSUME NEW c \in Callers, Tell(c) PROVE ProbeIsInFlight'
    BY <1>6 DEF Tell, Goto, GaugeOf, States
  <1>7. ASSUME NEW c \in Callers, Cancelled(c) PROVE ProbeIsInFlight'
    BY <1>7 DEF Cancelled, ProbeFreed, Goto
  <1>8. ASSUME NEW c \in Callers, CallUpstream(c) PROVE ProbeIsInFlight'
    BY <1>8 DEF CallUpstream, Goto
  <1>9. ASSUME NEW c \in Callers, FailsHalfOpen(c) PROVE ProbeIsInFlight'
    BY <1>9 DEF FailsHalfOpen, Report, Goto, States
  <1>10. ASSUME NEW c \in Callers, Fails(c) PROVE ProbeIsInFlight'
    BY <1>10 DEF Fails, Counted, Trips, Report, Goto, States
  <1>11. ASSUME NEW c \in Callers, Succeeds(c) PROVE ProbeIsInFlight'
    BY <1>11 DEF Succeeds, Closes, Report, Goto, States
  <1>12. CASE CoolDown \/ WindowPasses
    BY <1>12 DEF CoolDown, WindowPasses
  <1>13. CASE UNCHANGED vars
    BY <1>13 DEF vars
  <1> QED
    BY <1>1, <1>2, <1>3, <1>4, <1>5, <1>6, <1>7, <1>8, <1>9, <1>10, <1>11, <1>12, <1>13
       DEF Next, Enter, Proceed

\* As long as no upstream call panics, the probe flag of a half-open breaker is
\* never left set with no call under way: the breaker does not lock itself out.
THEOREM ProbeCorrect == ASSUME ~ CanPanic PROVE Spec => []ProbeIsInFlight
  <1>1. Init => ProbeIsInFlight
    BY DEF Init, ProbeIsInFlight
  <1>2. TypeOK /\ ProbeIsInFlight /\ [Next]_vars => ProbeIsInFlight'
    BY ProbeStep DEF Panics
  <1> QED BY <1>1, <1>2, TypeCorrect, PTL DEF Spec

\* With panics, a step that leaves the flag with nobody to clear it is a panic.
THEOREM PanicCorrect == Spec => OnlyAPanicLocks
  <1> QED BY ProbeStep, TypeCorrect, PTL DEF Spec, OnlyAPanicLocks

-----------------------------------------------------------------------------
(* How many failures a breaker counts *)

Flying == {c \in Callers : InFlight(c)}

\* The failures counted when every call that could be in flight at the trip has failed.
Most == MaxFailures + Cardinality(Callers) - 1

\* Calls in flight are failures to come.  A half-open breaker has admitted one call
\* more, or its flag is free for one.
FailuresToCome ==
  /\ failures <= Most
  /\ state = "OPEN" => failures + Cardinality(Flying) <= Most
  /\ state = "HALF_OPEN" =>
        failures + Cardinality(Flying) <= IF probe THEN Most + 1 ELSE Most

\* The calls in flight are finitely many callers.
LEMMA FlyingCount ==
  /\ IsFiniteSet(Flying) /\ Cardinality(Flying) \in Nat
  /\ Cardinality(Callers) \in Nat /\ Cardinality(Flying) <= Cardinality(Callers)
  BY ParametersOK, FS_Subset, FS_CardinalityType DEF Flying

\* A call that takes off or lands changes their number by one.
LEMMA TakesOff ==
  ASSUME NEW c \in Callers, c \notin Flying, Flying' = Flying \cup {c}
  PROVE  Cardinality(Flying') = Cardinality(Flying) + 1
  BY FlyingCount, FS_AddElement

LEMMA Lands ==
  ASSUME NEW c \in Callers, c \in Flying, Flying' = Flying \ {c}
  PROVE  Cardinality(Flying') = Cardinality(Flying) - 1 /\ Cardinality(Flying) > 0
  <1>1. Cardinality(Flying') = Cardinality(Flying) - 1
    BY FlyingCount, FS_RemoveElement
  <1>2. Cardinality(Flying) # 0
    BY FlyingCount, FS_EmptySet
  <1> QED BY <1>1, <1>2, FlyingCount

\* What each step does to the calls in flight.
LEMMA FlyingStep ==
  ASSUME TypeOK, NEW c \in Callers
  PROVE  /\ AdmitClosed(c) \/ AdmitAfterTimeout(c) \/ AdmitProbe(c)
              => c \notin Flying /\ Flying' = Flying \cup {c}
         /\ Cancelled(c) \/ FailsHalfOpen(c) \/ Fails(c) \/ Succeeds(c) \/ Panics(c)
              => c \in Flying /\ Flying' = Flying \ {c}
         /\ Reject(c) \/ Leave(c) \/ Tell(c) \/ CallUpstream(c) => Flying' = Flying
  <1> USE DEF TypeOK, Flying, InFlight, Goto, Report, breaker, callers
  <1>1. AdmitClosed(c) \/ AdmitAfterTimeout(c) \/ AdmitProbe(c)
          => c \notin Flying /\ Flying' = Flying \cup {c}
    BY DEF AdmitClosed, AdmitAfterTimeout, AdmitProbe
  <1>2. Cancelled(c) \/ FailsHalfOpen(c) \/ Fails(c) \/ Succeeds(c) \/ Panics(c)
          => c \in Flying /\ Flying' = Flying \ {c}
    BY DEF Cancelled, FailsHalfOpen, Fails, Succeeds, Panics
  <1>3. Reject(c) \/ Leave(c) \/ Tell(c) \/ CallUpstream(c) => Flying' = Flying
    BY DEF Reject, Leave, Tell, CallUpstream
  <1> QED BY <1>1, <1>2, <1>3

LEMMA ToComeStep ==
  TypeOK /\ ClosedIsBelowLimit /\ FailuresToCome /\ [Next]_vars => FailuresToCome'
  <1> SUFFICES ASSUME TypeOK, ClosedIsBelowLimit, FailuresToCome, [Next]_vars
               PROVE  FailuresToCome'
    OBVIOUS
  <1> USE FlyingCount, ParametersOK DEF TypeOK, States, ClosedIsBelowLimit, FailuresToCome, Most
  <1>1. ASSUME NEW c \in Callers, AdmitClosed(c) PROVE FailuresToCome'
    BY <1>1 DEF AdmitClosed, breaker
  <1>2. ASSUME NEW c \in Callers, AdmitAfterTimeout(c) PROVE FailuresToCome'
    BY <1>2, FlyingStep, TakesOff DEF AdmitAfterTimeout
  <1>3. ASSUME NEW c \in Callers, AdmitProbe(c) PROVE FailuresToCome'
    BY <1>3, FlyingStep, TakesOff DEF AdmitProbe
  <1>4. ASSUME NEW c \in Callers, Reject(c) \/ Leave(c) \/ Tell(c) \/ CallUpstream(c)
        PROVE  FailuresToCome'
    <2>1. UNCHANGED <<state, probe, failures>>
      BY <1>4 DEF Reject, Leave, Tell, CallUpstream, breaker
    <2> QED BY <1>4, <2>1, FlyingStep
  <1>5. ASSUME NEW c \in Callers, Cancelled(c) PROVE FailuresToCome'
    BY <1>5, FlyingStep, Lands DEF Cancelled, ProbeFreed
  <1>6. ASSUME NEW c \in Callers, FailsHalfOpen(c) PROVE FailuresToCome'
    <2>1. Cardinality(Flying') = Cardinality(Flying) - 1 /\ Cardinality(Flying) > 0
      BY <1>6, FlyingStep, Lands
    <2> QED BY <1>6, <2>1 DEF FailsHalfOpen
  <1>7. ASSUME NEW c \in Callers, Fails(c) PROVE FailuresToCome'
    <2>1. Cardinality(Flying') = Cardinality(Flying) - 1 /\ Cardinality(Flying) > 0
      BY <1>7, FlyingStep, Lands
    <2>2. failures' \in Nat /\ failures' <= failures + 1
      BY <1>7 DEF Fails, Counted
    <2>3. state \in {"CLOSED", "OPEN"} /\ state' \in {state, "OPEN"}
      BY <1>7 DEF Fails
    <2>4. CASE state = "CLOSED"
      BY <2>1, <2>2, <2>3, <2>4
    <2>5. CASE state = "OPEN"
      BY <2>1, <2>2, <2>3, <2>5
    <2> QED BY <2>3, <2>4, <2>5
  <1>8. ASSUME NEW c \in Callers, Succeeds(c) PROVE FailuresToCome'
    <2>1. Cardinality(Flying') = Cardinality(Flying) - 1 /\ Cardinality(Flying) > 0
      BY <1>8, FlyingStep, Lands
    <2> QED BY <1>8, <2>1 DEF Succeeds, Closes
  <1>9. ASSUME NEW c \in Callers, Panics(c) PROVE FailuresToCome'
    BY <1>9, FlyingStep, Lands DEF Panics, breaker
  <1>10. CASE CoolDown \/ WindowPasses \/ UNCHANGED vars
    <2>1. UNCHANGED <<state, probe, failures, pc, news>>
      BY <1>10 DEF CoolDown, WindowPasses, vars, breaker, callers
    <2>2. Flying' = Flying
      BY <2>1 DEF Flying, InFlight
    <2> QED BY <2>1, <2>2
  <1> QED BY <1>1, <1>2, <1>3, <1>4, <1>5, <1>6, <1>7, <1>8, <1>9, <1>10
          DEF Next, Enter, Proceed

\* For any limit and any number of calls, failures that arrive after the trip add at
\* most one for each call that was in flight.
THEOREM FailuresCorrect == Spec => []FailuresAreBounded
  <1>1. Init => FailuresToCome
    BY FlyingCount, ParametersOK DEF Init, FailuresToCome, Most
  <1>2. TypeOK /\ FailuresToCome => failures < MaxFailures + Cardinality(Callers)
    BY FlyingCount, ParametersOK DEF TypeOK, FailuresToCome, Most
  <1>3. Spec => []FailuresToCome
    BY <1>1, ToComeStep, TypeCorrect, LimitCorrect, PTL DEF Spec
  <1> QED BY <1>2, <1>3, TypeCorrect, LimitCorrect, PTL DEF FailuresAreBounded

=============================================================================
