------------------------- MODULE OutboxRelay_proofs -------------------------
(***************************************************************************)
(* Proofs about OutboxRelay for any number of rows, replicas and workers,  *)
(* any batch size and any number of faults.                                *)
(***************************************************************************)
EXTENDS OutboxRelay, FiniteSetTheorems, TLAPS

\* Updating one entry of a function of functions.
LEMMA UpdateType ==
  ASSUME NEW A, NEW B, NEW S, NEW f \in [A -> [B -> S]],
         NEW a \in A, NEW b \in B, NEW s \in S
  PROVE  [f EXCEPT ![a][b] = s] \in [A -> [B -> S]]
  OBVIOUS

\* Counting once more.
LEMMA CountType ==
  ASSUME NEW S, NEW f \in [S -> Nat], NEW e \in S
  PROVE  [f EXCEPT ![e] = @ + 1] \in [S -> Nat]
  OBVIOUS

\* The bound on faults is kept by every action that counts one.
LEMMA FaultType ==
  ASSUME faults \in 0 .. MaxFaults, Fault \/ UNCHANGED faults
  PROVE  faults' \in 0 .. MaxFaults
  BY ParametersOK DEF Fault

\* A worker that leaves its job has the type of an idle one.
LEMMA RestType ==
  ASSUME TypeOK, NEW k \in Replicas, NEW w \in Workers, Rest(k, w)
  PROVE  /\ stage' \in [Replicas -> [Workers -> {"idle", "publish", "mark", "exited"}]]
         /\ task' \in [Replicas -> [Workers -> 0 .. NumEvents]]
  BY ParametersOK, UpdateType DEF TypeOK, Rest

\* What a receive from the channel yields.
LEMMA JobTaken ==
  ASSUME TypeOK, NEW k \in Replicas, jobs[k] # <<>>
  PROVE  /\ Head(jobs[k]) \in 0 .. NumEvents
         /\ Tail(jobs[k]) \in Seq(Events)
  <1> DEFINE q == jobs[k]
  <1>1. q \in Seq(Events) /\ q # <<>>
    BY DEF TypeOK
  <1> HIDE DEF q
  <1>2. Head(q) \in Events /\ Tail(q) \in Seq(Events)
    BY <1>1
  <1>3. Head(q) \in 0 .. NumEvents
    BY <1>2, ParametersOK DEF Events
  <1> QED BY <1>2, <1>3 DEF q

\* No replica holds anything at the start.
LEMMA TypeInit == Init => TypeOK
  BY ParametersOK DEF Init, TypeOK, Events

\* Every action of table, poller, worker and process keeps the types; a worker
\* needs to know that its task is a row.
LEMMA TypeStep == TypeOK /\ CopiesAreCommitted /\ [Next]_vars => TypeOK'
  <1> SUFFICES ASSUME TypeOK, CopiesAreCommitted, [Next]_vars PROVE TypeOK'
    OBVIOUS
  <1> USE DEF TypeOK, table, poller, workers, broker, Events
  <1>1. ASSUME NEW e \in Events, InsertEvent(e)
        PROVE  TypeOK'
    BY <1>1 DEF InsertEvent
  <1>2. ASSUME NEW e \in Events, Lapse(e)
        PROVE  TypeOK'
    BY <1>2, FaultType DEF Lapse
  <1>3. ASSUME NEW k \in Replicas, FetchUnpublished(k)
        PROVE  TypeOK'
    BY <1>3 DEF FetchUnpublished, Goto, Oldest, Claimable
  <1>4. ASSUME NEW k \in Replicas, FetchFails(k)
        PROVE  TypeOK'
    BY <1>4, FaultType DEF FetchFails, Goto, Oldest, Claimable
  <1>5. ASSUME NEW k \in Replicas, Feed(k)
        PROVE  TypeOK'
    <2>1. PICK e \in batch[k] : /\ jobs' = [jobs EXCEPT ![k] = Append(@, e)]
                                /\ batch' = [batch EXCEPT ![k] = @ \ {e}]
      BY <1>5 DEF Feed
    <2>2. batch[k] \in SUBSET Events /\ jobs[k] \in Seq(Events)
      OBVIOUS
    <2>3. Append(jobs[k], e) \in Seq(Events)
      BY <2>1, <2>2
    <2>4. jobs' \in [Replicas -> Seq(Events)]
      BY <2>1, <2>3
    <2>5. batch' \in [Replicas -> SUBSET Events]
      BY <2>1, <2>2
    <2> QED BY <1>5, <2>4, <2>5 DEF Feed
  <1>6. ASSUME NEW k \in Replicas, PollReturns(k)
        PROVE  TypeOK'
    BY <1>6 DEF PollReturns, Goto
  <1>7. ASSUME NEW k \in Replicas, Tick(k)
        PROVE  TypeOK'
    BY <1>7 DEF Tick, Goto
  <1>8. ASSUME NEW k \in Replicas, Close(k)
        PROVE  TypeOK'
    BY <1>8 DEF Close, Goto
  <1>9. ASSUME NEW k \in Replicas, RunReturns(k)
        PROVE  TypeOK'
    BY <1>9 DEF RunReturns, Goto
  <1>10. ASSUME NEW k \in Replicas, NEW w \in Workers, Take(k, w)
        PROVE  TypeOK'
    <2>1. Head(jobs[k]) \in 0 .. NumEvents /\ Tail(jobs[k]) \in Seq(Events)
      BY <1>10, JobTaken DEF Take
    <2>2. task' \in [Replicas -> [Workers -> 0 .. NumEvents]]
      BY <1>10, <2>1, UpdateType DEF Take
    <2>3. stage' \in [Replicas -> [Workers -> {"idle", "publish", "mark", "exited"}]]
      BY <1>10, UpdateType DEF Take
    <2>4. jobs' \in [Replicas -> Seq(Events)]
      BY <1>10, <2>1 DEF Take
    <2> QED BY <1>10, <2>2, <2>3, <2>4 DEF Take
  <1>11. ASSUME NEW k \in Replicas, NEW w \in Workers, WorkerExits(k, w)
        PROVE  TypeOK'
    BY <1>11 DEF WorkerExits
  <1>12. ASSUME NEW k \in Replicas, NEW w \in Workers, Publish(k, w)
        PROVE  TypeOK'
    <2>1. stage' \in [Replicas -> [Workers -> {"idle", "publish", "mark", "exited"}]]
      <3>1. stage \in [Replicas -> [Workers -> {"idle", "publish", "mark", "exited"}]]
        OBVIOUS
      <3>2. stage' = [stage EXCEPT ![k][w] = "mark"]
        BY <1>12, Zenon DEF Publish
      <3> QED BY <3>1, <3>2, UpdateType
    <2>2. task[k][w] \in Events
      BY <1>12 DEF Publish, CopiesAreCommitted
    <2>3. stored' \subseteq Events
      BY <1>12, <2>2 DEF Publish
    <2>4. handed' \in [Events -> Nat]
      <3>1. handed \in [Events -> Nat]
        OBVIOUS
      <3>2. handed' = [handed EXCEPT ![task[k][w]] = @ + 1]
        BY <1>12, Zenon DEF Publish
      <3> QED BY <2>2, <3>1, <3>2, CountType
    <2> QED BY <1>12, <2>1, <2>3, <2>4 DEF Publish
  <1>13. ASSUME NEW k \in Replicas, NEW w \in Workers, PublishFails(k, w)
        PROVE  TypeOK'
    BY <1>13, RestType DEF PublishFails, LeaveLeased
  <1>14. ASSUME NEW k \in Replicas, NEW w \in Workers, MarkPublished(k, w)
        PROVE  TypeOK'
    <2>1. published' \subseteq Events
      BY <1>14 DEF MarkPublished, CopiesAreCommitted
    <2> QED BY <1>14, <2>1, RestType DEF MarkPublished
  <1>15. ASSUME NEW k \in Replicas, NEW w \in Workers, MarkFails(k, w)
        PROVE  TypeOK'
    BY <1>15, RestType, FaultType DEF MarkFails
  <1>16. ASSUME NEW k \in Replicas, Shutdown(k)
        PROVE  TypeOK'
    BY <1>16, FaultType DEF Shutdown
  <1>17. ASSUME NEW k \in Replicas, Exit(k)
        PROVE  TypeOK'
    <2>1. faults' \in 0 .. MaxFaults
      BY <1>17, FaultType DEF Exit
    <2>2. task' \in [Replicas -> [Workers -> 0 .. NumEvents]]
      BY <1>17, ParametersOK DEF Exit
    <2>3. stage' \in [Replicas -> [Workers -> {"idle", "publish", "mark", "exited"}]]
      BY <1>17 DEF Exit
    <2>4. batch' \in [Replicas -> SUBSET Events] /\ jobs' \in [Replicas -> Seq(Events)]
      BY <1>17 DEF Exit
    <2> QED BY <1>17, <2>1, <2>2, <2>3, <2>4 DEF Exit, Goto
  <1>18. ASSUME NEW k \in Replicas, Restart(k)
        PROVE  TypeOK'
    BY <1>18 DEF Restart, Goto
  <1>19. ASSUME NEW k \in Replicas, ChannelBreaks(k)
        PROVE  TypeOK'
    BY <1>19, ParametersOK DEF ChannelBreaks
  <1>20. CASE UNCHANGED vars
    BY <1>20 DEF vars
  <1> QED
    BY <1>1, <1>2, <1>3, <1>4, <1>5, <1>6, <1>7, <1>8, <1>9, <1>10,
       <1>11, <1>12, <1>13, <1>14, <1>15, <1>16, <1>17, <1>18, <1>19, <1>20
       DEF Next, PollerStep, WorkerStep, ProcessStep

\* A copy of a row is made from the table, or from another copy.
LEMMA CopiesStep == TypeOK /\ CopiesAreCommitted /\ [Next]_vars => CopiesAreCommitted'
  <1> SUFFICES ASSUME TypeOK, CopiesAreCommitted, [Next]_vars
               PROVE  CopiesAreCommitted'
    OBVIOUS
  <1> USE DEF TypeOK, CopiesAreCommitted, table, poller, workers, broker, Events
  <1>1. ASSUME NEW e \in Events, InsertEvent(e)
        PROVE  CopiesAreCommitted'
    BY <1>1 DEF InsertEvent
  <1>2. ASSUME NEW e \in Events, Lapse(e)
        PROVE  CopiesAreCommitted'
    BY <1>2 DEF Lapse, Fault
  <1>3. ASSUME NEW k \in Replicas, FetchUnpublished(k)
        PROVE  CopiesAreCommitted'
    BY <1>3 DEF FetchUnpublished, Goto, Oldest, Claimable
  <1>4. ASSUME NEW k \in Replicas, FetchFails(k)
        PROVE  CopiesAreCommitted'
    BY <1>4 DEF FetchFails, Goto, Fault, Oldest, Claimable
  <1>5. ASSUME NEW k \in Replicas, Feed(k)
        PROVE  CopiesAreCommitted'
    BY <1>5 DEF Feed
  <1>6. ASSUME NEW k \in Replicas, PollReturns(k)
        PROVE  CopiesAreCommitted'
    BY <1>6 DEF PollReturns, Goto
  <1>7. ASSUME NEW k \in Replicas, Tick(k)
        PROVE  CopiesAreCommitted'
    BY <1>7 DEF Tick, Goto
  <1>8. ASSUME NEW k \in Replicas, Close(k)
        PROVE  CopiesAreCommitted'
    BY <1>8 DEF Close, Goto
  <1>9. ASSUME NEW k \in Replicas, RunReturns(k)
        PROVE  CopiesAreCommitted'
    BY <1>9 DEF RunReturns, Goto
  <1>10. ASSUME NEW k \in Replicas, NEW w \in Workers, Take(k, w)
        PROVE  CopiesAreCommitted'
    BY <1>10 DEF Take
  <1>11. ASSUME NEW k \in Replicas, NEW w \in Workers, WorkerExits(k, w)
        PROVE  CopiesAreCommitted'
    BY <1>11 DEF WorkerExits
  <1>12. ASSUME NEW k \in Replicas, NEW w \in Workers, Publish(k, w)
        PROVE  CopiesAreCommitted'
    BY <1>12 DEF Publish
  <1>13. ASSUME NEW k \in Replicas, NEW w \in Workers, PublishFails(k, w)
        PROVE  CopiesAreCommitted'
    BY <1>13 DEF PublishFails, Rest, LeaveLeased
  <1>14. ASSUME NEW k \in Replicas, NEW w \in Workers, MarkPublished(k, w)
        PROVE  CopiesAreCommitted'
    BY <1>14 DEF MarkPublished, Rest
  <1>15. ASSUME NEW k \in Replicas, NEW w \in Workers, MarkFails(k, w)
        PROVE  CopiesAreCommitted'
    BY <1>15 DEF MarkFails, Rest, Fault
  <1>16. ASSUME NEW k \in Replicas, Shutdown(k)
        PROVE  CopiesAreCommitted'
    BY <1>16 DEF Shutdown, Fault
  <1>17. ASSUME NEW k \in Replicas, Exit(k)
        PROVE  CopiesAreCommitted'
    BY <1>17 DEF Exit, Goto, Fault
  <1>18. ASSUME NEW k \in Replicas, Restart(k)
        PROVE  CopiesAreCommitted'
    BY <1>18 DEF Restart, Goto
  <1>19. ASSUME NEW k \in Replicas, ChannelBreaks(k)
        PROVE  CopiesAreCommitted'
    BY <1>19 DEF ChannelBreaks
  <1>20. CASE UNCHANGED vars
    BY <1>20 DEF vars
  <1> QED
    BY <1>1, <1>2, <1>3, <1>4, <1>5, <1>6, <1>7, <1>8, <1>9, <1>10,
       <1>11, <1>12, <1>13, <1>14, <1>15, <1>16, <1>17, <1>18, <1>19, <1>20
       DEF Next, PollerStep, WorkerStep, ProcessStep

\* Only four actions touch what EventRelay sees.
LEMMA TableStep ==
  ASSUME [Next]_vars
  PROVE  \/ \E e \in Events : InsertEvent(e)
         \/ \E k \in Replicas, w \in Workers : Publish(k, w)
         \/ \E k \in Replicas, w \in Workers : MarkPublished(k, w)
         \/ UNCHANGED <<outbox, published, handed>>
  BY DEF Next, PollerStep, WorkerStep, ProcessStep, vars, table, broker,
         Lapse, FetchUnpublished, FetchFails, Feed, PollReturns, Tick, Close,
         RunReturns, Take, WorkerExits, PublishFails, LeaveLeased, MarkFails,
         Shutdown, Exit, Restart, ChannelBreaks

\* Only a worker that has handed its row over marks it.
LEMMA HandedStep == Inv /\ [Next]_vars => PublishedWasHanded'
  <1> SUFFICES ASSUME Inv, [Next]_vars PROVE PublishedWasHanded' OBVIOUS
  <1> USE DEF Inv, TypeOK, CopiesAreCommitted, PublishedWasHanded, Events
  <1>1. ASSUME NEW e \in Events, InsertEvent(e)
        PROVE  PublishedWasHanded'
    BY <1>1 DEF InsertEvent, broker
  <1>2. ASSUME NEW k \in Replicas, NEW w \in Workers, Publish(k, w)
        PROVE  PublishedWasHanded'
    BY <1>2 DEF Publish, table
  <1>3. ASSUME NEW k \in Replicas, NEW w \in Workers, MarkPublished(k, w)
        PROVE  PublishedWasHanded'
    BY <1>3 DEF MarkPublished, broker
  <1>4. CASE UNCHANGED <<outbox, published, handed>>
    BY <1>4
  <1> QED BY <1>1, <1>2, <1>3, <1>4, TableStep

\* A poll leases only rows that are not published, and a mark ends the lease.
LEMMA UnleasedStep == Inv /\ [Next]_vars => PublishedIsUnleased'
  <1> SUFFICES ASSUME Inv, [Next]_vars PROVE PublishedIsUnleased' OBVIOUS
  <1> USE DEF Inv, PublishedIsUnleased
  <1>1. ASSUME NEW k \in Replicas, FetchUnpublished(k) \/ FetchFails(k)
        PROVE  PublishedIsUnleased'
    BY <1>1 DEF FetchUnpublished, FetchFails, Oldest, Claimable
  <1>2. ASSUME NEW k \in Replicas, NEW w \in Workers, MarkPublished(k, w)
        PROVE  PublishedIsUnleased'
    BY <1>2 DEF MarkPublished
  <1>3. CASE UNCHANGED published /\ leased' \subseteq leased
    BY <1>3
  <1> QED
    BY <1>1, <1>2, <1>3
       DEF Next, PollerStep, WorkerStep, ProcessStep, vars, table, InsertEvent,
           Lapse, Feed, PollReturns, Tick, Close, RunReturns, Take, WorkerExits,
           Publish, PublishFails, LeaveLeased, MarkFails,
           Shutdown, Exit, Restart, ChannelBreaks

\* Every step is one of EventRelay's, or one it does not see.
LEMMA RefinementStep == Inv /\ [Next]_vars => [Relay!Next]_(Relay!vars)
  <1> SUFFICES ASSUME Inv, [Next]_vars PROVE [Relay!Next]_(Relay!vars) OBVIOUS
  <1> USE DEF Inv, TypeOK, CopiesAreCommitted
  <1>1. ASSUME NEW e \in Events, InsertEvent(e)
        PROVE  Relay!Next
    BY <1>1 DEF InsertEvent, broker, Relay!Accept, Relay!Next
  <1>2. ASSUME NEW k \in Replicas, NEW w \in Workers, Publish(k, w)
        PROVE  Relay!Next
    <2> DEFINE t == task[k][w]
    <2>1. t \in outbox /\ t \in Events
      BY <1>2 DEF Publish
    <2>2. handed' = [handed EXCEPT ![t] = @ + 1] /\ UNCHANGED <<outbox, published>>
      BY <1>2 DEF Publish, table
    <2> HIDE DEF t
    <2>3. {e \in Events : handed'[e] > 0} = {e \in Events : handed[e] > 0} \cup {t}
      BY <2>1, <2>2
    <2> QED BY <2>1, <2>2, <2>3 DEF Relay!Next, Relay!Hand
  <1>3. ASSUME NEW k \in Replicas, NEW w \in Workers, MarkPublished(k, w)
        PROVE  Relay!Next
    <2> DEFINE t == task[k][w]
    <2>1. t \in Events /\ handed[t] > 0
      BY <1>3 DEF MarkPublished
    <2>2. published' = published \cup {t} /\ UNCHANGED <<outbox, handed>>
      BY <1>3 DEF MarkPublished, broker
    <2> HIDE DEF t
    <2>3. Relay!Settle(t)
      BY <2>1, <2>2 DEF Relay!Settle
    <2> QED BY <2>1, <2>3 DEF Relay!Next
  <1>4. CASE UNCHANGED <<outbox, published, handed>>
    BY <1>4 DEF Relay!vars
  <1> QED BY <1>1, <1>2, <1>3, <1>4, TableStep

\* The invariant at the start, ...
LEMMA InvInit == Init => Inv
  <1> SUFFICES ASSUME Init PROVE Inv OBVIOUS
  <1>1. TypeOK
    BY TypeInit
  <1>2. CopiesAreCommitted
    BY DEF Init, CopiesAreCommitted
  <1>3. PublishedWasHanded /\ PublishedIsUnleased
    BY DEF Init, PublishedWasHanded, PublishedIsUnleased
  <1> QED BY <1>1, <1>2, <1>3 DEF Inv

\* ... over a step, ...
LEMMA InvInductive == Inv /\ [Next]_vars => Inv'
  <1> SUFFICES ASSUME Inv, [Next]_vars PROVE Inv' OBVIOUS
  <1>1. TypeOK' /\ CopiesAreCommitted'
    BY TypeStep, CopiesStep DEF Inv
  <1>2. PublishedWasHanded' /\ PublishedIsUnleased'
    BY HandedStep, UnleasedStep
  <1> QED BY <1>1, <1>2 DEF Inv

\* ... and always.
LEMMA InvCorrect == Spec => []Inv
  <1> QED BY InvInit, InvInductive, PTL DEF Spec

\* Every variable keeps its type.
THEOREM TypeCorrect == Spec => []TypeOK
  <1>1. Inv => TypeOK
    BY DEF Inv
  <1> QED BY <1>1, InvCorrect, PTL

\* Whatever crashes, lapses and shutdowns do, a row with published_at set has been
\* handed to the broker.
THEOREM HandedCorrect == Spec => []PublishedWasHanded
  <1>1. Inv => PublishedWasHanded
    BY DEF Inv
  <1> QED BY <1>1, InvCorrect, PTL

\* A published row is never leased again.
THEOREM UnleasedCorrect == Spec => []PublishedIsUnleased
  <1>1. Inv => PublishedIsUnleased
    BY DEF Inv
  <1> QED BY <1>1, InvCorrect, PTL

\* Empty tables are an empty list.
LEMMA RefinementInit == Init => Relay!Init
  BY DEF Init, Relay!Init

\* Any number of replicas, with leases, channels and workers, implements the one
\* list of EventRelay.
THEOREM RelayCorrect == Spec => RelayIsSafe
  <1>1. Spec => Relay!Spec
    BY RefinementInit, RefinementStep, InvCorrect, PTL DEF Spec, Relay!Spec
  <1> QED BY <1>1 DEF RelayIsSafe

-----------------------------------------------------------------------------
(* Duplicates: the copies of a row, counted *)

\* What the proof shows of one row.
Paid(e) ==
  /\ IsFiniteSet(Batched(e)) /\ IsFiniteSet(Queued(e)) /\ IsFiniteSet(Publishing(e))
  /\ handed[e] + Pending(e) + (IF Due(e) THEN 1 ELSE 0) <= 1 + faults

LEMMA PaidAll == CopiesAreFinite /\ CopiesCostFaults <=> \A e \in Events : Paid(e)
  BY DEF CopiesAreFinite, CopiesCostFaults, Paid

\* Where a row is in the channels.
LEMMA QueuedPlaces ==
  ASSUME NEW e, NEW p
  PROVE  p \in Queued(e) <=>
         \E k \in Replicas : \E i \in 1 .. Len(jobs[k]) : p = <<k, i>> /\ jobs[k][i] = e
  BY DEF Queued, Places

LEMMA QueuedPlacesNext ==
  ASSUME NEW e, NEW p
  PROVE  p \in Queued(e)' <=>
         \E k \in Replicas : \E i \in 1 .. Len(jobs'[k]) : p = <<k, i>> /\ jobs'[k][i] = e
  BY DEF Queued, Places

\* One element more makes a set larger by one at most.
LEMMA OneMore ==
  ASSUME NEW S, IsFiniteSet(S), NEW x
  PROVE  /\ IsFiniteSet(S \cup {x})
         /\ Cardinality(S) \in Nat /\ Cardinality(S \cup {x}) \in Nat
         /\ Cardinality(S \cup {x}) <= Cardinality(S) + 1
  <1>1. /\ IsFiniteSet(S \cup {x})
        /\ Cardinality(S \cup {x}) = IF x \in S THEN Cardinality(S) ELSE Cardinality(S) + 1
    BY FS_AddElement
  <1>2. Cardinality(S) \in Nat
    BY FS_CardinalityType
  <1> QED BY <1>1, <1>2

\* Fewer copies of each kind are fewer copies.
LEMMA PendingShrinks ==
  ASSUME NEW e, Paid(e),
         Batched(e)' \subseteq Batched(e), Queued(e)' \subseteq Queued(e),
         Publishing(e)' \subseteq Publishing(e)
  PROVE  /\ IsFiniteSet(Batched(e)') /\ IsFiniteSet(Queued(e)') /\ IsFiniteSet(Publishing(e)')
         /\ Pending(e) \in Nat /\ Pending(e)' \in Nat /\ Pending(e)' <= Pending(e)
  <1>1. /\ IsFiniteSet(Batched(e)') /\ Cardinality(Batched(e)') <= Cardinality(Batched(e))
        /\ Cardinality(Batched(e)) \in Nat /\ Cardinality(Batched(e)') \in Nat
    BY FS_Subset, FS_CardinalityType DEF Paid
  <1>2. /\ IsFiniteSet(Queued(e)') /\ Cardinality(Queued(e)') <= Cardinality(Queued(e))
        /\ Cardinality(Queued(e)) \in Nat /\ Cardinality(Queued(e)') \in Nat
    BY FS_Subset, FS_CardinalityType DEF Paid
  <1>3. /\ IsFiniteSet(Publishing(e)')
        /\ Cardinality(Publishing(e)') <= Cardinality(Publishing(e))
        /\ Cardinality(Publishing(e)) \in Nat /\ Cardinality(Publishing(e)') \in Nat
    BY FS_Subset, FS_CardinalityType DEF Paid
  <1> QED BY <1>1, <1>2, <1>3 DEF Pending

\* A worker that stops publishing a row leaves one copy less.
LEMMA PublishingShrinks ==
  ASSUME NEW e, Paid(e), NEW x \in Publishing(e),
         Batched(e)' = Batched(e), Queued(e)' = Queued(e),
         Publishing(e)' \subseteq Publishing(e) \ {x}
  PROVE  /\ IsFiniteSet(Batched(e)') /\ IsFiniteSet(Queued(e)') /\ IsFiniteSet(Publishing(e)')
         /\ Pending(e) \in Nat /\ Pending(e)' \in Nat /\ Pending(e)' + 1 <= Pending(e)
  <1>1. /\ IsFiniteSet(Publishing(e) \ {x})
        /\ Cardinality(Publishing(e) \ {x}) = Cardinality(Publishing(e)) - 1
    BY FS_RemoveElement DEF Paid
  <1>2. /\ IsFiniteSet(Publishing(e)')
        /\ Cardinality(Publishing(e)') <= Cardinality(Publishing(e) \ {x})
    BY <1>1, FS_Subset
  <1>3. /\ Cardinality(Publishing(e)) \in Nat /\ Cardinality(Publishing(e)') \in Nat
        /\ Cardinality(Batched(e)) \in Nat /\ Cardinality(Queued(e)) \in Nat
    BY <1>2, FS_CardinalityType DEF Paid
  <1> QED BY <1>1, <1>2, <1>3 DEF Pending, Paid

\* A step that hands nothing over, makes no copy, and makes a row due again only at
\* the price of a fault.
LEMMA QuietStep ==
  ASSUME Inv, NEW e \in Events, Paid(e),
         Batched(e)' \subseteq Batched(e), Queued(e)' \subseteq Queued(e),
         Publishing(e)' \subseteq Publishing(e),
         handed'[e] = handed[e],
         (faults' = faults /\ (Due(e)' => Due(e))) \/ faults' = faults + 1
  PROVE  Paid(e)'
  <1>1. handed[e] \in Nat /\ faults \in Nat
    BY ParametersOK DEF Inv, TypeOK
  <1> QED BY <1>1, PendingShrinks DEF Paid

\* A row does not fall due while the replicas that back its lease keep it.
LEMMA DueStep ==
  ASSUME NEW e, published \subseteq published',
         e \in leased => e \in leased' \/ e \in published',
         \A k \in Replicas \ stopping :
            HeldBy(k, e) => (k \notin stopping' /\ HeldBy(k, e)') \/ e \in published'
  PROVE  Due(e)' => Due(e)
  BY DEF Due

\* Copies stay where they are in a step that leaves the channels and workers alone.
LEMMA StillStep ==
  ASSUME NEW e, UNCHANGED <<batch, jobs, stage, task>>
  PROVE  /\ Batched(e)' = Batched(e) /\ Queued(e)' = Queued(e)
         /\ Publishing(e)' = Publishing(e)
         /\ \A k : HeldBy(k, e)' = HeldBy(k, e)
  BY DEF Batched, Queued, Places, Publishing, HeldBy

\* A claim pays for its copy with the copy that was due.
LEMMA ClaimStep ==
  ASSUME CountInv, NEW e \in Events, Paid(e), NEW k \in Replicas, FetchUnpublished(k)
  PROVE  Paid(e)'
  <1> DEFINE claimed == Oldest(Claimable, BatchSize)
  <1>1. /\ claimed \subseteq Claimable
        /\ leased' = leased \cup claimed /\ batch' = [batch EXCEPT ![k] = claimed]
        /\ UNCHANGED <<jobs, stage, task, published, stopping, handed, faults>>
        /\ k \notin stopping /\ batch[k] = {}
    BY DEF FetchUnpublished, Oldest, CountInv, IdleHoldNothing, workers, broker
  <1>2. batch \in [Replicas -> SUBSET Events] /\ handed[e] \in Nat /\ faults \in Nat
    BY ParametersOK DEF CountInv, Inv, TypeOK
  <1>3. Queued(e)' = Queued(e) /\ Publishing(e)' = Publishing(e)
    BY <1>1 DEF Queued, Places, Publishing
  <1> HIDE DEF claimed
  <1>4. CASE e \notin claimed
    <2>1. Batched(e)' = Batched(e)
      BY <1>1, <1>2, <1>4 DEF Batched
    <2>2. \A q \in Replicas : HeldBy(q, e)' = HeldBy(q, e)
      BY <1>1, <1>2, <1>4 DEF HeldBy
    <2>3. Due(e)' => Due(e)
      BY <1>1, <2>2, DueStep
    <2> QED BY <1>1, <1>3, <2>1, <2>3, QuietStep DEF CountInv
  <1>5. CASE e \in claimed
    <2>1. Due(e)
      BY <1>1, <1>5 DEF Due, Claimable
    <2>2. e \in leased' /\ HeldBy(k, e)' /\ k \notin stopping'
      BY <1>1, <1>2, <1>5 DEF HeldBy
    <2>3. ~ Due(e)'
      BY <2>2 DEF Due
    <2>4. Batched(e)' = Batched(e) \cup {k}
      BY <1>1, <1>2, <1>5 DEF Batched
    <2>5. /\ IsFiniteSet(Batched(e)')
          /\ Cardinality(Batched(e)') <= Cardinality(Batched(e)) + 1
      BY <2>4, OneMore DEF Paid
    <2>6. /\ Cardinality(Batched(e)) \in Nat /\ Cardinality(Batched(e)') \in Nat
          /\ Cardinality(Queued(e)) \in Nat /\ Cardinality(Publishing(e)) \in Nat
      BY <2>5, FS_CardinalityType DEF Paid
    <2>7. Pending(e)' <= Pending(e) + 1 /\ Pending(e) \in Nat /\ Pending(e)' \in Nat
      BY <1>3, <2>5, <2>6 DEF Pending
    <2> QED BY <1>1, <1>2, <1>3, <2>1, <2>3, <2>5, <2>7 DEF Paid
  <1> QED BY <1>4, <1>5

\* From the batch to the channel a copy stays one copy.
LEMMA FeedStep ==
  ASSUME CountInv, NEW e \in Events, Paid(e), NEW k \in Replicas, Feed(k)
  PROVE  Paid(e)'
  <1>1. PICK d \in batch[k] : /\ jobs' = [jobs EXCEPT ![k] = Append(@, d)]
                              /\ batch' = [batch EXCEPT ![k] = @ \ {d}]
    BY DEF Feed
  <1>2. /\ batch \in [Replicas -> SUBSET Events] /\ jobs \in [Replicas -> Seq(Events)]
        /\ handed[e] \in Nat /\ faults \in Nat
    BY ParametersOK DEF CountInv, Inv, TypeOK
  <1>3. UNCHANGED <<leased, published, stage, task, stopping, handed, faults>>
    BY DEF Feed, table, workers, broker
  <1> DEFINE n == Len(jobs[k])
  <1>4. /\ n \in Nat /\ Len(jobs'[k]) = n + 1 /\ jobs'[k][n + 1] = d
        /\ \A i \in 1 .. n : jobs'[k][i] = jobs[k][i]
    <2>1. d \in Events /\ jobs[k] \in Seq(Events) /\ jobs'[k] = Append(jobs[k], d)
      BY <1>1, <1>2
    <2> QED BY <2>1
  <1>5. \A q \in Replicas \ {k} : jobs'[q] = jobs[q] /\ batch'[q] = batch[q]
    BY <1>1, <1>2
  <1>6. batch'[k] = batch[k] \ {d}
    BY <1>1, <1>2
  <1> HIDE DEF n
  <1>7. Publishing(e)' = Publishing(e)
    BY <1>3 DEF Publishing
  <1>8. \A q \in Replicas : HeldBy(q, e) => HeldBy(q, e)'
    <2>1. ASSUME NEW q \in Replicas \ {k} PROVE HeldBy(q, e)' = HeldBy(q, e)
      BY <1>3, <1>5 DEF HeldBy
    <2>2. HeldBy(k, e) => HeldBy(k, e)'
      <3>1. CASE e = d
        <4>1. n + 1 \in 1 .. Len(jobs'[k])
          BY <1>4
        <4> QED BY <1>4, <3>1, <4>1 DEF HeldBy
      <3>2. CASE e # d
        BY <1>3, <1>4, <1>6, <3>2 DEF HeldBy, n
      <3> QED BY <3>1, <3>2
    <2> QED BY <2>1, <2>2
  <1>9. Due(e)' => Due(e)
    BY <1>3, <1>8, DueStep
  <1>10. CASE e # d
    <2>1. Batched(e)' = Batched(e)
      BY <1>5, <1>6, <1>10 DEF Batched
    <2>2. ASSUME NEW p \in Queued(e)' PROVE p \in Queued(e)
      <3>0. PICK q \in Replicas : \E i \in 1 .. Len(jobs'[q]) : p = <<q, i>> /\ jobs'[q][i] = e
        BY QueuedPlacesNext
      <3>1. PICK i \in 1 .. Len(jobs'[q]) : p = <<q, i>> /\ jobs'[q][i] = e
        BY <3>0
      <3>2. CASE q # k
        BY <1>5, <3>1, <3>2, QueuedPlaces
      <3>3. CASE q = k
        <4>1. i \in 1 .. n + 1 /\ i # n + 1
          BY <1>4, <1>10, <3>1, <3>3
        <4>2. i \in 1 .. n
          BY <1>4, <4>1
        <4>3. i \in 1 .. Len(jobs[q]) /\ jobs[q][i] = e
          BY <1>4, <3>1, <3>3, <4>2 DEF n
        <4> QED BY <3>1, <4>3, QueuedPlaces
      <3> QED BY <3>2, <3>3
    <2> QED BY <1>3, <1>7, <1>9, <2>1, <2>2, QuietStep DEF CountInv
  <1>11. CASE e = d
    <2>1. Batched(e)' = Batched(e) \ {k} /\ k \in Batched(e)
      BY <1>5, <1>6, <1>11 DEF Batched
    <2>2. Queued(e)' \subseteq Queued(e) \cup {<<k, n + 1>>}
      <3> SUFFICES ASSUME NEW p \in Queued(e)', p # <<k, n + 1>> PROVE p \in Queued(e)
        OBVIOUS
      <3>0. PICK q \in Replicas : \E i \in 1 .. Len(jobs'[q]) : p = <<q, i>> /\ jobs'[q][i] = e
        BY QueuedPlacesNext
      <3>1. PICK i \in 1 .. Len(jobs'[q]) : p = <<q, i>> /\ jobs'[q][i] = e
        BY <3>0
      <3>2. i \in 1 .. Len(jobs[q]) /\ jobs[q][i] = e
        BY <1>4, <1>5, <3>1 DEF n
      <3> QED BY <3>1, <3>2, QueuedPlaces
    <2>3. /\ IsFiniteSet(Batched(e)')
          /\ Cardinality(Batched(e)') = Cardinality(Batched(e)) - 1
      BY <2>1, FS_RemoveElement DEF Paid
    <2>4. /\ IsFiniteSet(Queued(e) \cup {<<k, n + 1>>})
          /\ Cardinality(Queued(e) \cup {<<k, n + 1>>}) <= Cardinality(Queued(e)) + 1
      BY OneMore DEF Paid
    <2>5. /\ IsFiniteSet(Queued(e)')
          /\ Cardinality(Queued(e)') <= Cardinality(Queued(e) \cup {<<k, n + 1>>})
      BY <2>2, <2>4, FS_Subset
    <2>6. /\ Cardinality(Batched(e)) \in Nat /\ Cardinality(Batched(e)') \in Nat
          /\ Cardinality(Queued(e)) \in Nat /\ Cardinality(Queued(e)') \in Nat
          /\ Cardinality(Queued(e) \cup {<<k, n + 1>>}) \in Nat
          /\ Cardinality(Publishing(e)) \in Nat
      BY <2>3, <2>4, <2>5, FS_CardinalityType DEF Paid
    <2>7. Pending(e)' <= Pending(e) /\ Pending(e) \in Nat /\ Pending(e)' \in Nat
      BY <1>7, <2>3, <2>4, <2>5, <2>6 DEF Pending
    <2> QED BY <1>2, <1>3, <1>7, <1>9, <2>3, <2>5, <2>7 DEF Paid
  <1> QED BY <1>10, <1>11

\* What a worker takes from the channel leaves it; the rest moves up.
LEMMA QueueMovesUp ==
  ASSUME TypeOK, NEW e, NEW k \in Replicas, jobs[k] # <<>>,
         jobs' = [jobs EXCEPT ![k] = Tail(@)], IsFiniteSet(Queued(e))
  PROVE  /\ IsFiniteSet(Queued(e)')
         /\ Cardinality(Queued(e)') <= Cardinality(Queued(e) \ {<<k, 1>>})
  <1>1. /\ jobs[k] \in Seq(Events) /\ Len(jobs[k]) \in Nat \ {0}
        /\ Len(jobs'[k]) = Len(jobs[k]) - 1
        /\ \A i \in 1 .. Len(jobs'[k]) : jobs'[k][i] = jobs[k][i + 1]
    <2> DEFINE q == jobs[k]
    <2>1. q \in Seq(Events) /\ q # <<>> /\ jobs'[k] = Tail(q)
      BY DEF TypeOK
    <2> HIDE DEF q
    <2>2. Len(q) \in Nat \ {0} /\ Len(Tail(q)) = Len(q) - 1
      BY <2>1
    <2>3. \A i \in 1 .. Len(Tail(q)) : Tail(q)[i] = q[i + 1]
      BY <2>1, <2>2
    <2> QED BY <2>1, <2>2, <2>3 DEF q
  <1>2. \A q \in Replicas \ {k} : jobs'[q] = jobs[q]
    BY DEF TypeOK
  <1> DEFINE S == Queued(e)'
             T == Queued(e) \ {<<k, 1>>}
             up == [p \in S |-> IF p[1] = k THEN <<k, p[2] + 1>> ELSE p]
  <1>3. ASSUME NEW p \in S
        PROVE  \E q \in Replicas : \E i \in Nat \ {0} :
                  p = <<q, i>> /\ up[p] = (IF q = k THEN <<k, i + 1>> ELSE <<q, i>>) /\ up[p] \in T
    <2>1. PICK q \in Replicas : \E i \in 1 .. Len(jobs'[q]) : p = <<q, i>> /\ jobs'[q][i] = e
      BY QueuedPlacesNext
    <2>2. PICK i \in 1 .. Len(jobs'[q]) : p = <<q, i>> /\ jobs'[q][i] = e
      BY <2>1
    <2>3. i \in Nat \ {0}
      BY <2>2
    <2>4. CASE q = k
      <3>1. up[p] = <<k, i + 1>>
        BY <2>2, <2>4
      <3>2. i + 1 \in 1 .. Len(jobs[k]) /\ jobs[k][i + 1] = e
        BY <1>1, <2>2, <2>4
      <3>3. up[p] \in Queued(e)
        BY <3>1, <3>2, QueuedPlaces
      <3>4. up[p] # <<k, 1>>
        BY <3>1, <2>3
      <3> QED BY <2>2, <2>3, <2>4, <3>1, <3>3, <3>4
    <2>5. CASE q # k
      <3>1. up[p] = <<q, i>>
        BY <2>2, <2>5
      <3>2. up[p] \in Queued(e)
        BY <1>2, <2>2, <2>5, <3>1, QueuedPlaces
      <3>3. up[p] # <<k, 1>>
        BY <3>1, <2>5
      <3> QED BY <2>2, <2>3, <2>5, <3>1, <3>2, <3>3
    <2> QED BY <2>4, <2>5
  <1>4. up \in [S -> T]
    BY <1>3
  <1>5. ASSUME NEW a \in S, NEW b \in S, up[a] = up[b] PROVE a = b
    <2> HIDE DEF up, S, T
    <2>1. PICK q \in Replicas, i \in Nat \ {0} :
             a = <<q, i>> /\ up[a] = (IF q = k THEN <<k, i + 1>> ELSE <<q, i>>)
      BY <1>3
    <2>2. PICK r \in Replicas, j \in Nat \ {0} :
             b = <<r, j>> /\ up[b] = (IF r = k THEN <<k, j + 1>> ELSE <<r, j>>)
      BY <1>3
    <2>3. q = r /\ i = j
      BY <2>1, <2>2, <1>5
    <2> QED BY <2>1, <2>2, <2>3
  <1>6. up \in Injection(S, T)
    BY <1>4, <1>5 DEF Injection, IsInjective
  <1>7. IsFiniteSet(T)
    BY FS_RemoveElement
  <1> HIDE DEF S, T, up
  <1>8. IsFiniteSet(S) /\ Cardinality(S) <= Cardinality(T)
    BY <1>6, <1>7, FS_Injection
  <1> QED BY <1>8 DEF S, T

\* From the channel to a worker a copy stays one copy.
LEMMA TakeStep ==
  ASSUME CountInv, NEW e \in Events, Paid(e), NEW k \in Replicas, NEW w \in Workers, Take(k, w)
  PROVE  Paid(e)'
  <1>0. /\ TypeOK /\ handed[e] \in Nat /\ faults \in Nat
    BY ParametersOK DEF CountInv, Inv, TypeOK
  <1>1. /\ jobs[k] # <<>> /\ stage[k][w] = "idle" /\ task[k][w] = 0
        /\ stage' = [stage EXCEPT ![k][w] = "publish"]
        /\ task' = [task EXCEPT ![k][w] = Head(jobs[k])]
        /\ jobs' = [jobs EXCEPT ![k] = Tail(@)]
        /\ UNCHANGED <<batch, leased, published, stopping, handed, faults>>
    BY DEF Take, CountInv, IdleHoldNothing, table, poller, broker
  <1>2. /\ jobs[k] \in Seq(Events) /\ Head(jobs[k]) = jobs[k][1] /\ 1 \in 1 .. Len(jobs[k])
        /\ Len(jobs'[k]) = Len(jobs[k]) - 1
        /\ \A i \in 1 .. Len(jobs[k]) : i = 1 \/ (i - 1 \in 1 .. Len(jobs'[k]) /\ jobs'[k][i - 1] = jobs[k][i])
    <2>1. jobs[k] \in Seq(Events) /\ jobs'[k] = Tail(jobs[k])
      BY <1>0, <1>1 DEF TypeOK
    <2> QED BY <2>1, <1>1
  <1>3. /\ stage'[k][w] = "publish" /\ task'[k][w] = jobs[k][1]
        /\ \A v \in Workers \ {w} : stage'[k][v] = stage[k][v] /\ task'[k][v] = task[k][v]
        /\ \A q \in Replicas \ {k} : stage'[q] = stage[q] /\ task'[q] = task[q] /\ jobs'[q] = jobs[q]
    BY <1>0, <1>1, <1>2 DEF TypeOK
  <1>4. Batched(e)' = Batched(e)
    BY <1>1 DEF Batched
  <1>5. /\ IsFiniteSet(Queued(e)')
        /\ Cardinality(Queued(e)') <= Cardinality(Queued(e) \ {<<k, 1>>})
        /\ IsFiniteSet(Queued(e) \ {<<k, 1>>})
        /\ Cardinality(Queued(e) \ {<<k, 1>>}) =
              IF <<k, 1>> \in Queued(e) THEN Cardinality(Queued(e)) - 1 ELSE Cardinality(Queued(e))
    BY <1>0, <1>1, QueueMovesUp, FS_RemoveElement DEF Paid
  <1>6. e # 0
    BY DEF Events
  <1>7. \A q \in Replicas : HeldBy(q, e) => HeldBy(q, e)'
    <2>1. ASSUME NEW q \in Replicas \ {k} PROVE HeldBy(q, e)' = HeldBy(q, e)
      BY <1>1, <1>3 DEF HeldBy
    <2>2. HeldBy(k, e) => HeldBy(k, e)'
      BY <1>1, <1>2, <1>3, <1>6 DEF HeldBy
    <2> QED BY <2>1, <2>2
  <1>8. Due(e)' => Due(e)
    BY <1>1, <1>7, DueStep
  <1>9. /\ Cardinality(Batched(e)) \in Nat
        /\ Cardinality(Queued(e)) \in Nat /\ Cardinality(Queued(e)') \in Nat
        /\ Cardinality(Queued(e) \ {<<k, 1>>}) \in Nat
        /\ Cardinality(Publishing(e)) \in Nat
    BY <1>5, FS_CardinalityType DEF Paid
  <1>10. /\ IsFiniteSet(Publishing(e)') /\ Pending(e) \in Nat /\ Pending(e)' \in Nat
         /\ Pending(e)' <= Pending(e)
    <2>1. CASE jobs[k][1] # e
      <3>1. Publishing(e)' = Publishing(e)
        BY <1>1, <1>3, <2>1 DEF Publishing
      <3>2. Cardinality(Queued(e)') <= Cardinality(Queued(e))
        BY <1>5, <1>9
      <3> QED BY <1>4, <1>9, <3>1, <3>2 DEF Pending, Paid
    <2>2. CASE jobs[k][1] = e
      <3>1. <<k, 1>> \in Queued(e)
        BY <1>2, <2>2, QueuedPlaces
      <3>2. Publishing(e)' \subseteq Publishing(e) \cup {<<k, w>>}
        BY <1>1, <1>3 DEF Publishing
      <3>3. /\ IsFiniteSet(Publishing(e) \cup {<<k, w>>})
            /\ Cardinality(Publishing(e) \cup {<<k, w>>}) \in Nat
            /\ Cardinality(Publishing(e) \cup {<<k, w>>}) <= Cardinality(Publishing(e)) + 1
        BY OneMore DEF Paid
      <3>4. /\ IsFiniteSet(Publishing(e)')
            /\ Cardinality(Publishing(e)') <= Cardinality(Publishing(e) \cup {<<k, w>>})
        BY <3>2, <3>3, FS_Subset
      <3>5. Cardinality(Publishing(e)') \in Nat
        BY <3>4, FS_CardinalityType
      <3> QED BY <1>4, <1>5, <1>9, <3>1, <3>3, <3>4, <3>5 DEF Pending
    <2> QED BY <2>1, <2>2
  <1> QED BY <1>0, <1>1, <1>4, <1>5, <1>8, <1>10 DEF Paid

\* The row a worker has in hand, and no other, is affected when it is done with it.
LEMMA RestStep ==
  ASSUME TypeOK, NEW e \in Events, NEW k \in Replicas, NEW w \in Workers,
         Rest(k, w), UNCHANGED <<batch, jobs>>
  PROVE  /\ Batched(e)' = Batched(e) /\ Queued(e)' = Queued(e)
         /\ Publishing(e)' \subseteq Publishing(e) \ {<<k, w>>}
         /\ \A q \in Replicas : HeldBy(q, e) => HeldBy(q, e)' \/ (q = k /\ task[k][w] = e)
  <1>1. /\ stage'[k][w] = "idle"
        /\ \A q \in Replicas, v \in Workers :
              q # k \/ v # w => stage'[q][v] = stage[q][v] /\ task'[q][v] = task[q][v]
    BY DEF Rest, TypeOK
  <1>2. Batched(e)' = Batched(e) /\ Queued(e)' = Queued(e)
    BY DEF Batched, Queued, Places
  <1>3. Publishing(e)' \subseteq Publishing(e) \ {<<k, w>>}
    BY <1>1 DEF Publishing
  <1>4. ASSUME NEW q \in Replicas, HeldBy(q, e), q # k \/ task[k][w] # e
        PROVE  HeldBy(q, e)'
    BY <1>1, <1>4 DEF HeldBy
  <1> QED BY <1>2, <1>3, <1>4

\* A publication turns a pending copy into one handed over.
LEMMA PublishStep ==
  ASSUME CountInv, NEW e \in Events, Paid(e), NEW k \in Replicas, NEW w \in Workers, Publish(k, w)
  PROVE  Paid(e)'
  <1>0. TypeOK /\ handed[e] \in Nat /\ faults \in Nat
    BY ParametersOK DEF CountInv, Inv, TypeOK
  <1>1. /\ stage[k][w] = "publish" /\ task[k][w] \in Events
        /\ stage' = [stage EXCEPT ![k][w] = "mark"]
        /\ handed' = [handed EXCEPT ![task[k][w]] = @ + 1]
        /\ UNCHANGED <<batch, jobs, task, leased, published, stopping, faults>>
    BY DEF Publish, CountInv, Inv, CopiesAreCommitted, TypeOK, table, poller
  <1>2. Batched(e)' = Batched(e) /\ Queued(e)' = Queued(e)
    BY <1>1 DEF Batched, Queued, Places
  <1>3. \A q \in Replicas : HeldBy(q, e)' = HeldBy(q, e)
    BY <1>1 DEF HeldBy
  <1>4. Due(e)' => Due(e)
    BY <1>1, <1>3, DueStep
  <1>5. Publishing(e)' \subseteq Publishing(e) \ {<<k, w>>}
    BY <1>0, <1>1 DEF Publishing, TypeOK
  <1>6. CASE task[k][w] # e
    BY <1>0, <1>1, <1>2, <1>4, <1>5, <1>6, QuietStep DEF CountInv, TypeOK
  <1>7. CASE task[k][w] = e
    <2>1. <<k, w>> \in Publishing(e)
      BY <1>1, <1>7 DEF Publishing
    <2>2. handed'[e] = handed[e] + 1
      BY <1>0, <1>1, <1>7 DEF TypeOK
    <2> QED BY <1>0, <1>1, <1>2, <1>4, <1>5, <2>1, <2>2, PublishingShrinks DEF Paid
  <1> QED BY <1>6, <1>7

\* A failed publication may make the row due again, and gives up its own copy.
LEMMA PublishFailsStep ==
  ASSUME CountInv, NEW e \in Events, Paid(e), NEW k \in Replicas, NEW w \in Workers, PublishFails(k, w)
  PROVE  Paid(e)'
  <1>0. TypeOK /\ handed[e] \in Nat /\ faults \in Nat
    BY ParametersOK DEF CountInv, Inv, TypeOK
  <1>1. /\ stage[k][w] = "publish" /\ Rest(k, w)
        /\ UNCHANGED <<batch, jobs, leased, published, stopping, handed, faults>>
    BY DEF PublishFails, LeaveLeased, poller, broker
  <1>2. /\ Batched(e)' = Batched(e) /\ Queued(e)' = Queued(e)
        /\ Publishing(e)' \subseteq Publishing(e) \ {<<k, w>>}
        /\ \A q \in Replicas : HeldBy(q, e) => HeldBy(q, e)' \/ (q = k /\ task[k][w] = e)
    BY <1>0, <1>1, RestStep
  <1>3. CASE task[k][w] # e
    <2>1. Due(e)' => Due(e)
      BY <1>1, <1>2, <1>3, DueStep
    <2> QED BY <1>1, <1>2, <2>1, QuietStep DEF CountInv
  <1>4. CASE task[k][w] = e
    <2>1. <<k, w>> \in Publishing(e)
      BY <1>1, <1>4 DEF Publishing
    <2> QED BY <1>0, <1>1, <1>2, <2>1, PublishingShrinks DEF Paid
  <1> QED BY <1>3, <1>4

\* A marked row is never due again; a mark that failed costs a fault, or its replica
\* was counted out before.
LEMMA MarkStep ==
  ASSUME CountInv, NEW e \in Events, Paid(e), NEW k \in Replicas, NEW w \in Workers,
         MarkPublished(k, w) \/ MarkFails(k, w)
  PROVE  Paid(e)'
  <1>0. TypeOK /\ faults \in Nat
    BY ParametersOK DEF CountInv, Inv, TypeOK
  <1>1. Rest(k, w) /\ UNCHANGED <<batch, jobs, stopping, handed>>
    BY DEF MarkPublished, MarkFails, poller, broker
  <1>2. /\ Batched(e)' = Batched(e) /\ Queued(e)' = Queued(e)
        /\ Publishing(e)' \subseteq Publishing(e) \ {<<k, w>>}
        /\ \A q \in Replicas : HeldBy(q, e) => HeldBy(q, e)' \/ (q = k /\ task[k][w] = e)
    BY <1>0, <1>1, RestStep
  <1>3. CASE MarkPublished(k, w)
    <2>1. /\ published' = published \cup {task[k][w]} /\ faults' = faults
          /\ e \in leased => e \in leased' \/ e = task[k][w]
      BY <1>3 DEF MarkPublished
    <2>2. Due(e)' => Due(e)
      BY <1>1, <1>2, <2>1, DueStep
    <2> QED BY <1>1, <1>2, <2>1, <2>2, QuietStep DEF CountInv
  <1>4. CASE MarkFails(k, w) /\ k \in stopping
    <2>1. UNCHANGED <<published, leased, faults>>
      BY <1>4 DEF MarkFails, table
    <2>2. Due(e)' => Due(e)
      BY <1>1, <1>2, <1>4, <2>1, DueStep
    <2> QED BY <1>1, <1>2, <2>1, <2>2, QuietStep DEF CountInv
  <1>5. CASE MarkFails(k, w) /\ k \notin stopping
    <2>1. faults' = faults + 1
      BY <1>5 DEF MarkFails, Fault
    <2> QED BY <1>1, <1>2, <2>1, QuietStep DEF CountInv
  <1> QED BY <1>3, <1>4, <1>5

\* Steps that leave channels and workers alone: only a lapse under somebody's hands
\* and a shutdown can make a row due, and both are faults.
LEMMA AsideStep ==
  ASSUME CountInv, NEW e \in Events, Paid(e), UNCHANGED <<batch, jobs, stage, task>>,
         \/ \E d \in Events : InsertEvent(d) \/ Lapse(d)
         \/ \E k \in Replicas : \/ FetchFails(k) \/ Tick(k) \/ Close(k)
                                \/ Shutdown(k) \/ Restart(k) \/ ChannelBreaks(k)
  PROVE  Paid(e)'
  <1>1. /\ Batched(e)' = Batched(e) /\ Queued(e)' = Queued(e)
        /\ Publishing(e)' = Publishing(e) /\ \A k : HeldBy(k, e)' = HeldBy(k, e)
    BY StillStep
  <1>2. handed' = handed /\ published' = published
    BY DEF InsertEvent, Lapse, FetchFails, Tick, Close, Shutdown, Restart, ChannelBreaks,
           table, broker
  <1>3. ASSUME NEW d \in Events, InsertEvent(d) PROVE faults' = faults /\ (Due(e)' => Due(e))
    BY <1>1, <1>3, DueStep DEF InsertEvent
  <1>4. ASSUME NEW d \in Events, Lapse(d)
        PROVE  (faults' = faults /\ (Due(e)' => Due(e))) \/ faults' = faults + 1
    <2>1. /\ leased' = leased \ {d} /\ stopping' = stopping
          /\ (Held(d) /\ faults' = faults + 1) \/ (~ Held(d) /\ faults' = faults)
      <3>1. leased' = leased \ {d} /\ stopping' = stopping
        BY <1>4 DEF Lapse
      <3>2. CASE Held(d)
        BY <1>4, <3>1, <3>2 DEF Lapse, Fault
      <3>3. CASE ~ Held(d)
        BY <1>4, <3>1, <3>3 DEF Lapse
      <3> QED BY <3>2, <3>3
    <2>2. CASE d = e /\ ~ Held(d)
      BY <1>2, <2>1, <2>2 DEF Due, Held
    <2>3. CASE d # e
      <3>1. Due(e)' => Due(e)
        BY <1>1, <1>2, <2>1, <2>3, DueStep
      <3> QED BY <2>1, <3>1
    <2> QED BY <2>1, <2>2, <2>3
  <1>5. ASSUME NEW k \in Replicas, FetchFails(k)
        PROVE  (faults' = faults /\ (Due(e)' => Due(e))) \/ faults' = faults + 1
    <2>1. leased \subseteq leased' /\ stopping' = stopping
          /\ (faults' = faults \/ faults' = faults + 1)
      BY <1>5 DEF FetchFails, Fault
    <2>2. Due(e)' => Due(e)
      BY <1>1, <1>2, <2>1, DueStep
    <2> QED BY <2>1, <2>2
  <1>6. ASSUME NEW k \in Replicas, Tick(k) \/ Close(k) \/ ChannelBreaks(k)
        PROVE  faults' = faults /\ (Due(e)' => Due(e))
    <2>1. UNCHANGED <<leased, stopping, faults>>
      BY <1>6 DEF Tick, Close, ChannelBreaks, table
    <2> QED BY <1>1, <1>2, <2>1, DueStep
  <1>7. ASSUME NEW k \in Replicas, Shutdown(k) PROVE faults' = faults + 1
    BY <1>7 DEF Shutdown, Fault
  <1>8. ASSUME NEW k \in Replicas, Restart(k) PROVE faults' = faults /\ (Due(e)' => Due(e))
    <2>1. leased' = leased /\ faults' = faults /\ stopping' = stopping \ {k}
      BY <1>8 DEF Restart, table
    <2> QED BY <1>1, <1>2, <2>1, DueStep
  <1>9. (faults' = faults /\ (Due(e)' => Due(e))) \/ faults' = faults + 1
    BY <1>3, <1>4, <1>5, <1>6, <1>7, <1>8
  <1> QED BY <1>1, <1>2, <1>9, QuietStep DEF CountInv

\* Steps that forget copies: those of a replica that was counted out, or is now.
LEMMA ForgetStep ==
  ASSUME CountInv, NEW e \in Events, Paid(e), NEW k \in Replicas,
         \/ PollReturns(k) \/ RunReturns(k) \/ Exit(k)
         \/ \E w \in Workers : WorkerExits(k, w)
  PROVE  Paid(e)'
  <1>0. TypeOK /\ IdleHoldNothing
    BY DEF CountInv, Inv
  <1> USE DEF TypeOK
  <1>1. UNCHANGED <<leased, published, stopping, handed>>
    BY DEF PollReturns, RunReturns, Exit, WorkerExits, table, broker
  <1>2. \A q \in Replicas \ {k} : /\ batch'[q] = batch[q] /\ jobs'[q] = jobs[q]
                                  /\ stage'[q] = stage[q] /\ task'[q] = task[q]
    BY <1>0 DEF PollReturns, RunReturns, Exit, WorkerExits, poller, workers
  <1>3. \A q \in Replicas \ {k} : HeldBy(q, e) => HeldBy(q, e)'
    BY <1>2 DEF HeldBy
  <1>4. /\ batch'[k] \in {batch[k], {}} /\ jobs'[k] \in {jobs[k], <<>>}
        /\ \A w \in Workers : /\ stage'[k][w] = "publish" => stage[k][w] = "publish"
                              /\ task'[k][w] \in {task[k][w], 0}
    BY <1>0 DEF PollReturns, RunReturns, Exit, WorkerExits, poller, workers
  <1>5. Batched(e)' \subseteq Batched(e)
    BY <1>2, <1>4 DEF Batched
  <1>6. Queued(e)' \subseteq Queued(e)
    <2> SUFFICES ASSUME NEW p \in Queued(e)' PROVE p \in Queued(e)
      OBVIOUS
    <2>1. PICK q \in Replicas : \E i \in 1 .. Len(jobs'[q]) : p = <<q, i>> /\ jobs'[q][i] = e
      BY QueuedPlacesNext
    <2>2. jobs'[q] = jobs[q]
      BY <1>2, <1>4, <2>1
    <2> QED BY <2>1, <2>2, QueuedPlaces
  <1>7. Publishing(e)' \subseteq Publishing(e)
    <2>1. e # 0
      BY DEF Events
    <2> QED BY <1>2, <1>4, <2>1 DEF Publishing
  <1>8. CASE k \in stopping
    <2>1. faults' = faults
      BY <1>8 DEF PollReturns, RunReturns, Exit, WorkerExits
    <2>2. Due(e)' => Due(e)
      BY <1>1, <1>3, <1>8, DueStep
    <2> QED BY <1>1, <1>5, <1>6, <1>7, <2>1, <2>2, QuietStep DEF CountInv
  <1>9. CASE k \notin stopping /\ Exit(k)
    <2>1. faults' = faults + 1
      BY <1>9 DEF Exit, Fault
    <2> QED BY <1>1, <1>5, <1>6, <1>7, <2>1, QuietStep DEF CountInv
  <1>10. CASE k \notin stopping /\ ~ Exit(k)
    <2>1. PollReturns(k) /\ batch[k] = {}
      BY <1>0, <1>10 DEF PollReturns, Fed, RunReturns, WorkerExits, IdleHoldNothing
    <2>2. UNCHANGED <<jobs, task, faults>> /\ batch'[k] = batch[k]
      BY <1>0, <2>1 DEF PollReturns, workers
    <2>3. HeldBy(k, e)' = HeldBy(k, e)
      BY <2>2 DEF HeldBy
    <2>4. Due(e)' => Due(e)
      BY <1>1, <1>3, <2>3, DueStep
    <2> QED BY <1>1, <1>5, <1>6, <1>7, <2>2, <2>4, QuietStep DEF CountInv
  <1> QED BY <1>8, <1>9, <1>10

\* Every step pays for the copies it makes, row by row.
LEMMA PaidStep ==
  ASSUME CountInv, [Next]_vars, NEW e \in Events, Paid(e)
  PROVE  Paid(e)'
  <1>1. ASSUME NEW k \in Replicas, NEW w \in Workers, WorkerStep(k, w) PROVE Paid(e)'
    BY <1>1, TakeStep, ForgetStep, PublishStep, PublishFailsStep, MarkStep DEF WorkerStep
  <1>2. ASSUME NEW k \in Replicas, PollerStep(k) PROVE Paid(e)'
    <2>1. CASE FetchFails(k) \/ Tick(k) \/ Close(k)
      <3>1. UNCHANGED <<batch, jobs, stage, task>>
        BY <2>1 DEF FetchFails, Tick, Close, workers
      <3> QED BY <2>1, <3>1, AsideStep
    <2> QED BY <1>2, <2>1, ClaimStep, FeedStep, ForgetStep DEF PollerStep
  <1>3. ASSUME NEW k \in Replicas, ProcessStep(k) PROVE Paid(e)'
    <2>1. CASE Shutdown(k) \/ Restart(k) \/ ChannelBreaks(k)
      <3>1. UNCHANGED <<batch, jobs, stage, task>>
        BY <2>1 DEF Shutdown, Restart, ChannelBreaks, poller, workers
      <3> QED BY <2>1, <3>1, AsideStep
    <2> QED BY <1>3, <2>1, ForgetStep DEF ProcessStep
  <1>4. ASSUME NEW d \in Events, InsertEvent(d) \/ Lapse(d) PROVE Paid(e)'
    <2>1. UNCHANGED <<batch, jobs, stage, task>>
      BY <1>4 DEF InsertEvent, Lapse, poller, workers
    <2> QED BY <1>4, <2>1, AsideStep
  <1>5. CASE UNCHANGED vars
    <2>1. UNCHANGED <<batch, jobs, stage, task, leased, published, stopping, handed, faults>>
      BY <1>5 DEF vars, table, poller, workers, broker
    <2>2. /\ Batched(e)' = Batched(e) /\ Queued(e)' = Queued(e)
          /\ Publishing(e)' = Publishing(e) /\ \A k : HeldBy(k, e)' = HeldBy(k, e)
      BY <2>1, StillStep
    <2>3. Due(e)' => Due(e)
      BY <2>1, <2>2, DueStep
    <2> QED BY <2>1, <2>2, <2>3, QuietStep DEF CountInv
  <1> QED BY <1>1, <1>2, <1>3, <1>4, <1>5 DEF Next

\* Who leaves a row leaves nothing of it behind.
LEMMA IdleStep == TypeOK /\ IdleHoldNothing /\ [Next]_vars => IdleHoldNothing'
  <1> SUFFICES ASSUME TypeOK, IdleHoldNothing, [Next]_vars PROVE IdleHoldNothing'
    OBVIOUS
  <1> USE DEF TypeOK, IdleHoldNothing, table, poller, workers, Goto
  <1>1. ASSUME NEW k \in Replicas, \/ FetchUnpublished(k) \/ FetchFails(k) \/ Feed(k)
                                   \/ PollReturns(k) \/ Tick(k) \/ Close(k) \/ RunReturns(k)
        PROVE  IdleHoldNothing'
    <2>1. CASE FetchUnpublished(k)
      BY <2>1 DEF FetchUnpublished
    <2>2. CASE FetchFails(k)
      BY <2>2 DEF FetchFails
    <2>3. CASE Feed(k)
      BY <2>3 DEF Feed
    <2>4. CASE PollReturns(k)
      BY <2>4 DEF PollReturns
    <2>5. CASE Tick(k)
      BY <2>5 DEF Tick
    <2>6. CASE Close(k)
      BY <2>6 DEF Close
    <2>7. CASE RunReturns(k)
      BY <2>7 DEF RunReturns
    <2> QED BY <1>1, <2>1, <2>2, <2>3, <2>4, <2>5, <2>6, <2>7
  <1>2. ASSUME NEW k \in Replicas, NEW w \in Workers, Take(k, w) PROVE IdleHoldNothing'
    BY <1>2 DEF Take, Running
  <1>3. ASSUME NEW k \in Replicas, NEW w \in Workers, WorkerExits(k, w) PROVE IdleHoldNothing'
    BY <1>3 DEF WorkerExits, Running
  <1>4. ASSUME NEW k \in Replicas, NEW w \in Workers, Publish(k, w) PROVE IdleHoldNothing'
    BY <1>4 DEF Publish
  <1>5. ASSUME NEW k \in Replicas, NEW w \in Workers,
               PublishFails(k, w) \/ MarkPublished(k, w) \/ MarkFails(k, w)
        PROVE  IdleHoldNothing'
    <2>1. Rest(k, w) /\ UNCHANGED <<pc, batch, jobs, stopping>>
      BY <1>5 DEF PublishFails, MarkPublished, MarkFails
    <2>2. stage'[k][w] = "idle" /\ task'[k][w] = 0
      BY <2>1 DEF Rest
    <2>3. \A q \in Replicas, v \in Workers :
             q # k \/ v # w => stage'[q][v] = stage[q][v] /\ task'[q][v] = task[q][v]
      BY <2>1 DEF Rest
    <2>4. \A q \in Replicas, v \in Workers :
             /\ pc[q] = "down" => stage'[q][v] = "idle"
             /\ stage'[q][v] \in {"idle", "exited"} => task'[q][v] = 0
      <3> SUFFICES ASSUME NEW q \in Replicas, NEW v \in Workers
                   PROVE  /\ pc[q] = "down" => stage'[q][v] = "idle"
                          /\ stage'[q][v] \in {"idle", "exited"} => task'[q][v] = 0
        OBVIOUS
      <3>1. CASE q = k /\ v = w
        BY <2>2, <3>1
      <3>2. CASE q # k \/ v # w
        BY <2>3, <3>2
      <3> QED BY <3>1, <3>2
    <2> HIDE DEF TypeOK
    <2> QED BY <2>1, <2>4
  <1>6. ASSUME NEW k \in Replicas, Shutdown(k) \/ Restart(k) \/ ChannelBreaks(k)
        PROVE  IdleHoldNothing'
    BY <1>6 DEF Shutdown, Restart, ChannelBreaks
  <1>7. ASSUME NEW k \in Replicas, Exit(k) PROVE IdleHoldNothing'
    BY <1>7 DEF Exit
  <1>8. ASSUME NEW e \in Events, InsertEvent(e) \/ Lapse(e) PROVE IdleHoldNothing'
    BY <1>8 DEF InsertEvent, Lapse
  <1>9. CASE UNCHANGED vars
    BY <1>9 DEF vars
  <1> QED BY <1>1, <1>2, <1>3, <1>4, <1>5, <1>6, <1>7, <1>8, <1>9
          DEF Next, PollerStep, WorkerStep, ProcessStep

\* No row has a copy at the start, and one is due of each.
LEMMA CountInit == Init => CountInv
  <1> SUFFICES ASSUME Init PROVE CountInv
    OBVIOUS
  <1>1. Inv
    BY InvInit
  <1>2. IdleHoldNothing
    BY DEF Init, IdleHoldNothing
  <1>3. ASSUME NEW e \in Events PROVE Paid(e)
    <2>1. Batched(e) = {} /\ Publishing(e) = {}
      BY DEF Init, Batched, Publishing
    <2>2. Queued(e) = {}
      BY DEF Init, Queued, Places
    <2>3. Pending(e) = 0
      BY <2>1, <2>2, FS_EmptySet DEF Pending
    <2>4. handed[e] = 0 /\ faults = 0
      BY DEF Init
    <2> QED BY <2>1, <2>2, <2>3, <2>4, FS_EmptySet DEF Paid
  <1> QED BY <1>1, <1>2, <1>3, PaidAll DEF CountInv

LEMMA CountStep == CountInv /\ [Next]_vars => CountInv'
  <1> SUFFICES ASSUME CountInv, [Next]_vars PROVE CountInv'
    OBVIOUS
  <1>1. Inv' /\ IdleHoldNothing'
    BY InvInductive, IdleStep DEF CountInv, Inv
  <1>2. \A e \in Events : Paid(e)'
    BY PaidAll, PaidStep DEF CountInv
  <1>3. CopiesAreFinite' /\ CopiesCostFaults'
    BY <1>2 DEF Paid, CopiesAreFinite, CopiesCostFaults
  <1> QED BY <1>1, <1>3 DEF CountInv

\* For any number of rows, replicas and workers, and any batch size: a row is handed to
\* the broker once, and once more for each fault.
THEOREM DuplicatesCorrect == Spec => []DuplicatesCostFaults
  <1>1. CountInv => DuplicatesCostFaults
    <2> SUFFICES ASSUME CountInv, NEW e \in Events PROVE handed[e] <= 1 + faults
      BY DEF DuplicatesCostFaults
    <2>1. Paid(e)
      BY PaidAll DEF CountInv
    <2>2. /\ Cardinality(Batched(e)) \in Nat /\ Cardinality(Queued(e)) \in Nat
          /\ Cardinality(Publishing(e)) \in Nat
      BY <2>1, FS_CardinalityType DEF Paid
    <2>3. handed[e] \in Nat /\ faults \in Nat
      BY ParametersOK DEF CountInv, Inv, TypeOK
    <2> QED BY <2>1, <2>2, <2>3 DEF Paid, Pending
  <1> QED BY <1>1, CountInit, CountStep, PTL DEF Spec

-----------------------------------------------------------------------------
(* A context that is done. *)

\* A worker that goes from one label to another is one less here and one more there.
LEMMA WorkerMoves ==
  ASSUME TypeOK, IsFiniteSet(Workers), NEW k \in Replicas, NEW w \in Workers,
         NEW b \in {"idle", "publish", "mark", "exited"}, stage[k][w] # b,
         stage' = [stage EXCEPT ![k][w] = b]
  PROVE  \A label \in {"idle", "publish", "mark", "exited"} :
            /\ Cardinality(Doing(k, label)) \in Nat
            /\ Cardinality(Doing(k, label)') =
                 IF label = b THEN Cardinality(Doing(k, label)) + 1
                 ELSE IF label = stage[k][w] THEN Cardinality(Doing(k, label)) - 1
                 ELSE Cardinality(Doing(k, label))
  <1> TAKE label \in {"idle", "publish", "mark", "exited"}
  <1>1. \A v \in Workers : stage'[k][v] = IF v = w THEN b ELSE stage[k][v]
    BY DEF TypeOK
  <1>2. IsFiniteSet(Doing(k, label)) /\ Cardinality(Doing(k, label)) \in Nat
    BY FS_Subset, FS_CardinalityType DEF Doing
  <1>3. CASE label = b
    <2>1. \A v \in Workers : v \in Doing(k, label)' <=> v \in Doing(k, label) \/ v = w
      BY <1>1, <1>3 DEF Doing
    <2>2. Doing(k, label)' = Doing(k, label) \cup {w}
      BY <2>1 DEF Doing
    <2>3. w \notin Doing(k, label)
      BY <1>3 DEF Doing
    <2>4. Cardinality(Doing(k, label) \cup {w}) = Cardinality(Doing(k, label)) + 1
      BY <1>2, <2>3, FS_AddElement
    <2> QED BY <1>2, <1>3, <2>2, <2>4
  <1>4. CASE label # b /\ label = stage[k][w]
    <2>1. Doing(k, label)' = Doing(k, label) \ {w} /\ w \in Doing(k, label)
      BY <1>1, <1>4 DEF Doing
    <2>2. Cardinality(Doing(k, label) \ {w}) = Cardinality(Doing(k, label)) - 1
      BY <1>2, <2>1, FS_RemoveElement
    <2> QED BY <1>2, <1>4, <2>1, <2>2
  <1>5. CASE label # b /\ label # stage[k][w]
    <2>1. Doing(k, label)' = Doing(k, label)
      BY <1>1, <1>5 DEF Doing
    <2> QED BY <1>2, <1>5, <2>1
  <1> QED BY <1>3, <1>4, <1>5

\* Whichever step a job of a worker makes, the sum has one less, or two.
LEMMA Lighter ==
  ASSUME NEW l \in Nat, NEW p \in Nat, NEW m \in Nat, NEW i \in Nat
  PROVE  /\ 3 * (l - 1) + 3 * (p + 1) + 2 * m + (i - 1) < 3 * l + 3 * p + 2 * m + i
         /\ 3 * l + 3 * p + 2 * m + (i - 1) < 3 * l + 3 * p + 2 * m + i
         /\ 3 * l + 3 * (p - 1) + 2 * (m + 1) + i < 3 * l + 3 * p + 2 * m + i
         /\ 3 * l + 3 * (p - 1) + 2 * m + (i + 1) < 3 * l + 3 * p + 2 * m + i
         /\ 3 * l + 3 * p + 2 * (m - 1) + (i + 1) < 3 * l + 3 * p + 2 * m + i
  <1> QED OBVIOUS

\* What a worker does takes at least one off the work that is left.
LEMMA WorkShrinks ==
  ASSUME TypeOK, IsFiniteSet(Workers), NEW k \in Replicas, NEW w \in Workers,
         WorkerStep(k, w)
  PROVE  WorkLeft(k)' < WorkLeft(k)
  <1> DEFINE N(label) == Cardinality(Doing(k, label))
             n(label) == Cardinality(Doing(k, label)')
             Labels == {"idle", "publish", "mark", "exited"}
  <1>1. jobs[k] \in Seq(Events) /\ Len(jobs[k]) \in Nat
    BY DEF TypeOK
  <1>2. /\ WorkLeft(k) = 3 * Len(jobs[k]) + 3 * N("publish") + 2 * N("mark") + N("idle")
        /\ WorkLeft(k)' = 3 * Len(jobs'[k]) + 3 * n("publish") + 2 * n("mark") + n("idle")
    BY DEF WorkLeft
  <1>3. ASSUME NEW b \in Labels, stage[k][w] # b, stage' = [stage EXCEPT ![k][w] = b]
        PROVE  \A label \in Labels :
                  /\ N(label) \in Nat
                  /\ n(label) = IF label = b THEN N(label) + 1
                                ELSE IF label = stage[k][w] THEN N(label) - 1 ELSE N(label)
    BY <1>3, WorkerMoves
  <1> HIDE DEF N, n
  <1>4. CASE Take(k, w)
    <2>1. /\ stage[k][w] = "idle" /\ stage' = [stage EXCEPT ![k][w] = "publish"]
          /\ jobs[k] # <<>> /\ jobs'[k] = Tail(jobs[k])
      BY <1>4 DEF Take, TypeOK
    <2>2. Len(jobs'[k]) = Len(jobs[k]) - 1
      BY <1>1, <2>1
    <2>3. /\ N("idle") \in Nat /\ N("publish") \in Nat /\ N("mark") \in Nat
          /\ n("idle") = N("idle") - 1 /\ n("publish") = N("publish") + 1 /\ n("mark") = N("mark")
      BY <1>3, <2>1
    <2>4. WorkLeft(k)' = 3 * (Len(jobs[k]) - 1) + 3 * (N("publish") + 1) + 2 * N("mark") + (N("idle") - 1)
      BY <1>2, <2>2, <2>3
    <2>5. 3 * (Len(jobs[k]) - 1) + 3 * (N("publish") + 1) + 2 * N("mark") + (N("idle") - 1)
           < 3 * Len(jobs[k]) + 3 * N("publish") + 2 * N("mark") + N("idle")
      BY <1>1, <2>3, Lighter
    <2> QED BY <1>2, <2>4, <2>5
  <1>5. CASE WorkerExits(k, w)
    <2>1. /\ stage[k][w] = "idle" /\ stage' = [stage EXCEPT ![k][w] = "exited"]
          /\ jobs' = jobs
      BY <1>5 DEF WorkerExits
    <2>2. /\ N("idle") \in Nat /\ N("publish") \in Nat /\ N("mark") \in Nat
          /\ n("idle") = N("idle") - 1 /\ n("publish") = N("publish") /\ n("mark") = N("mark")
      BY <1>3, <2>1
    <2>3. WorkLeft(k)' = 3 * Len(jobs[k]) + 3 * N("publish") + 2 * N("mark") + (N("idle") - 1)
      BY <1>2, <2>1, <2>2
    <2>4. 3 * Len(jobs[k]) + 3 * N("publish") + 2 * N("mark") + (N("idle") - 1)
           < 3 * Len(jobs[k]) + 3 * N("publish") + 2 * N("mark") + N("idle")
      BY <1>1, <2>2, Lighter
    <2> QED BY <1>2, <2>3, <2>4
  <1>6. CASE Publish(k, w)
    <2>1. /\ stage[k][w] = "publish" /\ stage' = [stage EXCEPT ![k][w] = "mark"]
          /\ jobs' = jobs
      BY <1>6 DEF Publish
    <2>2. /\ N("idle") \in Nat /\ N("publish") \in Nat /\ N("mark") \in Nat
          /\ n("idle") = N("idle") /\ n("publish") = N("publish") - 1 /\ n("mark") = N("mark") + 1
      BY <1>3, <2>1
    <2>3. WorkLeft(k)' = 3 * Len(jobs[k]) + 3 * (N("publish") - 1) + 2 * (N("mark") + 1) + N("idle")
      BY <1>2, <2>1, <2>2
    <2>4. 3 * Len(jobs[k]) + 3 * (N("publish") - 1) + 2 * (N("mark") + 1) + N("idle")
           < 3 * Len(jobs[k]) + 3 * N("publish") + 2 * N("mark") + N("idle")
      BY <1>1, <2>2, Lighter
    <2> QED BY <1>2, <2>3, <2>4
  <1>7. CASE PublishFails(k, w)
    <2>1. /\ stage[k][w] = "publish" /\ stage' = [stage EXCEPT ![k][w] = "idle"]
          /\ jobs' = jobs
      BY <1>7 DEF PublishFails, Rest
    <2>2. /\ N("idle") \in Nat /\ N("publish") \in Nat /\ N("mark") \in Nat
          /\ n("idle") = N("idle") + 1 /\ n("publish") = N("publish") - 1 /\ n("mark") = N("mark")
      BY <1>3, <2>1
    <2>3. WorkLeft(k)' = 3 * Len(jobs[k]) + 3 * (N("publish") - 1) + 2 * N("mark") + (N("idle") + 1)
      BY <1>2, <2>1, <2>2
    <2>4. 3 * Len(jobs[k]) + 3 * (N("publish") - 1) + 2 * N("mark") + (N("idle") + 1)
           < 3 * Len(jobs[k]) + 3 * N("publish") + 2 * N("mark") + N("idle")
      BY <1>1, <2>2, Lighter
    <2> QED BY <1>2, <2>3, <2>4
  <1>8. CASE MarkPublished(k, w) \/ MarkFails(k, w)
    <2>1. /\ stage[k][w] = "mark" /\ stage' = [stage EXCEPT ![k][w] = "idle"]
          /\ jobs' = jobs
      BY <1>8 DEF MarkPublished, MarkFails, Rest
    <2>2. /\ N("idle") \in Nat /\ N("publish") \in Nat /\ N("mark") \in Nat
          /\ n("idle") = N("idle") + 1 /\ n("publish") = N("publish") /\ n("mark") = N("mark") - 1
      BY <1>3, <2>1
    <2>3. WorkLeft(k)' = 3 * Len(jobs[k]) + 3 * N("publish") + 2 * (N("mark") - 1) + (N("idle") + 1)
      BY <1>2, <2>1, <2>2
    <2>4. 3 * Len(jobs[k]) + 3 * N("publish") + 2 * (N("mark") - 1) + (N("idle") + 1)
           < 3 * Len(jobs[k]) + 3 * N("publish") + 2 * N("mark") + N("idle")
      BY <1>1, <2>2, Lighter
    <2> QED BY <1>2, <2>3, <2>4
  <1> QED BY <1>4, <1>5, <1>6, <1>7, <1>8 DEF WorkerStep

\* A step of another replica or of the table leaves a replica alone.
LEMMA OthersStand ==
  ASSUME TypeOK, NEW k \in Replicas,
         \/ \E e \in Events : InsertEvent(e) \/ Lapse(e)
         \/ \E q \in Replicas \ {k} : PollerStep(q) \/ ProcessStep(q)
         \/ \E q \in Replicas \ {k}, w \in Workers : WorkerStep(q, w)
         \/ UNCHANGED vars
  PROVE  Stands(k)
  <1> USE DEF TypeOK, Stands, table, poller, workers, broker, Goto
  <1>1. ASSUME NEW e \in Events, InsertEvent(e) \/ Lapse(e) PROVE Stands(k)
    BY <1>1 DEF InsertEvent, Lapse
  <1>2. ASSUME NEW q \in Replicas \ {k}, PollerStep(q) PROVE Stands(k)
    BY <1>2 DEF PollerStep, FetchUnpublished, FetchFails, Feed, PollReturns, Tick, Close,
                RunReturns
  <1>3. ASSUME NEW q \in Replicas \ {k}, ProcessStep(q) PROVE Stands(k)
    BY <1>3 DEF ProcessStep, Shutdown, Exit, Restart, ChannelBreaks
  <1>4. ASSUME NEW q \in Replicas \ {k}, NEW w \in Workers, WorkerStep(q, w) PROVE Stands(k)
    BY <1>4 DEF WorkerStep, Take, WorkerExits, Publish, PublishFails, MarkPublished, MarkFails,
                Rest
  <1>5. CASE UNCHANGED vars
    BY <1>5 DEF vars
  <1> QED BY <1>1, <1>2, <1>3, <1>4, <1>5

\* What is left to do, and what is claimed, are numbers.
LEMMA OwingType ==
  ASSUME TypeOK, IsFiniteSet(Workers), NEW k \in Replicas
  PROVE  /\ WorkLeft(k) \in Nat
         /\ IsFiniteSet(batch[k]) /\ Cardinality(batch[k]) \in Nat
   <1>1. \A label : Cardinality(Doing(k, label)) \in Nat
    BY FS_Subset, FS_CardinalityType DEF Doing
  <1>2. Len(jobs[k]) \in Nat
    <2>1. jobs[k] \in Seq(Events)
      BY DEF TypeOK
    <2> QED BY <2>1
  <1>3. IsFiniteSet(batch[k])
    <2>1. batch[k] \subseteq Events
      BY DEF TypeOK
    <2>2. IsFiniteSet(Events)
      BY ParametersOK, FS_Interval DEF Events
    <2> QED BY <2>1, <2>2, FS_Subset
  <1>4. Cardinality(batch[k]) \in Nat
    BY <1>3, FS_CardinalityType
  <1>5. WorkLeft(k) \in Nat
    BY <1>1, <1>2 DEF WorkLeft
  <1> QED BY <1>3, <1>4, <1>5

\* A row that is fed goes from the batch, where it counts four, to the channel.
LEMMA FeedShrinks ==
  ASSUME TypeOK, IsFiniteSet(Workers), NEW k \in Replicas, Feed(k)
  PROVE  Owing(k)' < Owing(k)
  <1>1. PICK e \in batch[k] : /\ jobs'[k] = Append(jobs[k], e)
                              /\ batch'[k] = batch[k] \ {e} /\ stage' = stage
    BY DEF Feed, TypeOK, workers
  <1>2. Len(jobs'[k]) = Len(jobs[k]) + 1 /\ Len(jobs[k]) \in Nat
    <2>1. jobs[k] \in Seq(Events)
      BY DEF TypeOK
    <2> QED BY <1>1, <2>1
  <1>3. \A label : /\ Doing(k, label)' = Doing(k, label)
                   /\ Cardinality(Doing(k, label)) \in Nat
    BY <1>1, FS_Subset, FS_CardinalityType DEF Doing
  <1>4. WorkLeft(k)' = WorkLeft(k) + 3
    BY <1>2, <1>3 DEF WorkLeft
  <1>5. /\ Cardinality(batch'[k]) = Cardinality(batch[k]) - 1
        /\ Cardinality(batch[k]) \in Nat /\ WorkLeft(k) \in Nat
    BY <1>1, OwingType, FS_RemoveElement
  <1>6. /\ Owing(k) = WorkLeft(k) + 4 * Cardinality(batch[k])
        /\ Owing(k)' = (WorkLeft(k) + 3) + 4 * (Cardinality(batch[k]) - 1)
    BY <1>4, <1>5 DEF Owing
  <1> QED BY <1>5, <1>6

\* The other steps of a poller whose context is done take nothing new.
LEMMA PollerStands ==
  ASSUME TypeOK, IsFiniteSet(Workers), NEW k \in Replicas, k \in stopping,
         FetchFails(k) \/ PollReturns(k) \/ Tick(k) \/ Close(k)
  PROVE  PollsInVain(k)
  <1>1. /\ pc[k] # "closing" /\ pc'[k] \in {"polling", "waiting", "closing"}
        /\ batch'[k] \in {batch[k], {}} /\ jobs' = jobs /\ stage' = stage
    BY DEF FetchFails, PollReturns, Tick, Close, TypeOK, Goto, workers, poller
  <1>2. WorkLeft(k)' = WorkLeft(k)
    BY <1>1 DEF WorkLeft, Doing
  <1>3. WorkLeft(k) \in Nat /\ Cardinality(batch[k]) \in Nat
    BY OwingType
  <1>4. Cardinality(batch'[k]) \in {0, Cardinality(batch[k])}
    BY <1>1, FS_EmptySet
  <1>5. Owing(k)' <= Owing(k)
    BY <1>2, <1>3, <1>4 DEF Owing
  <1> QED BY <1>1, <1>5 DEF PollsInVain

\* The batch is the poller's alone.
LEMMA WorkersOwe ==
  ASSUME TypeOK, IsFiniteSet(Workers), NEW k \in Replicas, NEW w \in Workers,
         WorkerStep(k, w)
  PROVE  pc'[k] = pc[k] /\ Owing(k)' < Owing(k)
  <1>1. pc' = pc /\ batch' = batch
    BY DEF WorkerStep, Take, WorkerExits, Publish, PublishFails, MarkPublished, MarkFails, poller
  <1>2. WorkLeft(k)' < WorkLeft(k) /\ WorkLeft(k) \in Nat /\ Cardinality(batch[k]) \in Nat
    BY WorkShrinks, OwingType
  <1>3. WorkLeft(k)' \in Nat
    <2>1. \A label : Cardinality(Doing(k, label)') \in Nat
      BY FS_Subset, FS_CardinalityType DEF Doing
    <2>2. Len(jobs'[k]) \in Nat
      <3>1. jobs[k] \in Seq(Events)
        BY DEF TypeOK
      <3>2. jobs'[k] = jobs[k] \/ (jobs[k] # <<>> /\ jobs'[k] = Tail(jobs[k]))
        BY DEF WorkerStep, Take, WorkerExits, Publish, PublishFails, MarkPublished, MarkFails,
               TypeOK
      <3> QED BY <3>1, <3>2
    <2> QED BY <2>1, <2>2 DEF WorkLeft
  <1> QED BY <1>1, <1>2, <1>3 DEF Owing

\* From the moment its context is done, a coordinator is owed less and less, whatever its
\* workers and its poller do, and returns only when all its workers have exited.
THEOREM DrainCorrect ==
  ASSUME IsFiniteSet(Workers)
  PROVE  Spec => CoordinatorsDrain
  <1>1. TypeOK /\ [Next]_vars => [Drains]_vars
    <2> SUFFICES ASSUME TypeOK, Next, NEW k \in Replicas, k \in stopping, Running(k), ~ Stands(k)
                 PROVE  \/ pc'[k] = pc[k] /\ Owing(k)' < Owing(k)
                        \/ PollsInVain(k)
                        \/ /\ pc[k] = "closing" /\ pc'[k] = "returned"
                           /\ \A w \in Workers : stage[k][w] = "exited"
                        \/ pc'[k] = "down"
      BY DEF Drains, TypeOK
    <2>1. PollerStep(k) \/ ProcessStep(k) \/ \E w \in Workers : WorkerStep(k, w)
      BY OthersStand DEF Next
    <2>2. CASE FetchUnpublished(k)
      BY <2>2 DEF FetchUnpublished
    <2>3. CASE Feed(k)
      BY <2>3, FeedShrinks DEF Feed
    <2>4. CASE FetchFails(k) \/ PollReturns(k) \/ Tick(k) \/ Close(k)
      BY <2>4, PollerStands
    <2>5. CASE RunReturns(k)
      BY <2>5 DEF RunReturns, Goto, TypeOK
    <2>6. CASE ProcessStep(k)
      BY <2>6 DEF ProcessStep, Shutdown, Exit, Restart, ChannelBreaks, Stands, poller, workers,
                  Goto, TypeOK, Running
    <2>7. CASE \E w \in Workers : WorkerStep(k, w)
      BY <2>7, WorkersOwe
    <2> QED BY <2>1, <2>2, <2>3, <2>4, <2>5, <2>6, <2>7 DEF PollerStep
  <1> QED BY <1>1, TypeCorrect, PTL DEF Spec, CoordinatorsDrain

=============================================================================
