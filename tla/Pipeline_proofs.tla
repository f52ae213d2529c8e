---------------------------- MODULE Pipeline_proofs ----------------------------
(***************************************************************************)
(* Proofs about ClickConsumer, which Pipeline extends, and then about the  *)
(* Pipeline of both services, for any number of events, replicas,          *)
(* thresholds and faults.                                                  *)
(***************************************************************************)
EXTENDS Pipeline, FiniteSetTheorems, WellFoundedInduction, TLAPS

USE DEF broker, transaction, tables, bounds

Counting == {"new", "click", "check", "insert", "publish"}

\* What a consumer works on, and what it still owes to the broker.
Held ==
  \A c \in Consumers :
    /\ pc[c] \in {"idle", "down"} => unacked[c] = Nothing
    /\ pc[c] \in {"received", "ack", "nack"} => holding[c] \in Events
    /\ pc[c] \in Counting => holding[c] \in Valid
    /\ pc[c] \in {"insert", "publish"} => at[c] \in due[c]

TypeInv == TypeOK /\ Held

-----------------------------------------------------------------------------
(* Types *)

LEMMA TypeInit == Init => TypeInv
  <1> SUFFICES ASSUME Init PROVE TypeInv
    OBVIOUS
  <1>1. clicks \in Seq(Valid)
    BY DEF Init
  <1>2. announced \in [Thresholds -> Nat] /\ arrived \in [Events -> Nat] /\ queue \in [Events -> Nat]
    BY DEF Init
  <1>3. due \in [Consumers -> SUBSET Thresholds] /\ own \in [Consumers -> SUBSET Thresholds]
    BY DEF Init
  <1> QED BY <1>1, <1>2, <1>3 DEF Init, TypeInv, TypeOK, Held, Labels, Counting

\* A counter of a function of counters goes up by one.
LEMMA CountUp ==
  ASSUME NEW S, NEW f \in [S -> Nat], NEW x \in S
  PROVE  [f EXCEPT ![x] = @ + 1] \in [S -> Nat]
  <1> QED OBVIOUS

LEMMA RequeueType ==
  ASSUME TypeOK, NEW c \in Consumers, Requeue(c)
  PROVE  queue' \in [Events -> Nat] /\ unacked' \in [Consumers -> Events \cup {Nothing}]
  <1>1. \A e \in Events : queue[e] + (IF unacked[c] = e THEN 1 ELSE 0) \in Nat
    BY DEF TypeOK
  <1> QED BY <1>1 DEF Requeue, TypeOK

LEMMA TypeStep == TypeInv /\ [Next]_vars => TypeInv'
  <1> SUFFICES ASSUME TypeInv, [Next]_vars PROVE TypeInv'
    OBVIOUS
  <1> USE DEF TypeInv, TypeOK, Held, Goto, Labels, Counting
  <1>1. ASSUME NEW e \in Events, Arrive(e) PROVE TypeInv'
    BY <1>1, CountUp DEF Arrive
  <1>2. ASSUME NEW c \in Consumers, NEW e \in Events, Deliver(c, e) PROVE TypeInv'
    <2>1. queue' \in [Events -> Nat]
      BY <1>2 DEF Deliver
    <2> QED BY <1>2, <2>1 DEF Deliver
  <1>3. ASSUME NEW c \in Consumers, Discard(c) \/ Exists(c) PROVE TypeInv'
    BY <1>3 DEF Discard, Exists, Parses
  <1>4. ASSUME NEW c \in Consumers, InsertProcessed(c) PROVE TypeInv'
    BY <1>4 DEF InsertProcessed
  <1>5. ASSUME NEW c \in Consumers, InsertClick(c) PROVE TypeInv'
    <2>1. Reached \in SUBSET Thresholds
      BY DEF Reached
    <2> QED BY <1>5, <2>1 DEF InsertClick
  <1>6. ASSUME NEW c \in Consumers, NEW t \in Thresholds, HasMilestone(c, t) PROVE TypeInv'
    BY <1>6 DEF HasMilestone
  <1>7. ASSUME NEW c \in Consumers, NEW t \in Thresholds, NoMilestone(c, t) PROVE TypeInv'
    BY <1>7 DEF NoMilestone, InTurn
  <1>8. ASSUME NEW c \in Consumers, InsertMilestone(c) PROVE TypeInv'
    BY <1>8 DEF InsertMilestone
  <1>9. ASSUME NEW c \in Consumers, PublishMilestone(c) PROVE TypeInv'
    <2>1. announced' \in [Thresholds -> Nat]
      BY <1>9, CountUp DEF PublishMilestone
    <2> QED BY <1>9, <2>1 DEF PublishMilestone, NextThreshold
  <1>10. ASSUME NEW c \in Consumers, PublishFails(c) PROVE TypeInv'
    BY <1>10 DEF PublishFails, NextThreshold, Fault
  <1>11. ASSUME NEW c \in Consumers, Committed(c) \/ CommitUnknown(c) PROVE TypeInv'
    <2>1. holding[c] \in Valid /\ Commit(c) /\ pc[c] = "check"
      BY <1>11 DEF Committed, CommitUnknown, Commit
    <2>2. clicks' \in Seq(Valid)
      BY <2>1 DEF Commit
    <2>3. processed' \subseteq Valid /\ milestones' \subseteq Thresholds
      BY <2>1 DEF Commit
    <2>4. faults' \in Nat /\ drops' \in Nat
      BY <1>11 DEF Committed, CommitUnknown, Fault
    <2>5. \E label \in {"ack", "nack"} : pc' = [pc EXCEPT ![c] = label]
      BY <1>11 DEF Committed, CommitUnknown
    <2> QED BY <2>1, <2>2, <2>3, <2>4, <2>5 DEF Commit, Forget, Valid
  <1>12. ASSUME NEW c \in Consumers, Fail(c) PROVE TypeInv'
    BY <1>12 DEF Fail, Forget, Fault, AfterFailure, Valid
  <1>13. ASSUME NEW c \in Consumers, Ack(c) PROVE TypeInv'
    BY <1>13 DEF Ack, Answered
  <1>14. ASSUME NEW c \in Consumers, Nack(c) PROVE TypeInv'
    <2>1. queue' \in [Events -> Nat]
      BY <1>14, RequeueType DEF Nack
    <2> QED BY <1>14, <2>1 DEF Nack, Answered
  <1>15. ASSUME NEW c \in Consumers, CloseChannel(c) PROVE TypeInv'
    <2>1. queue' \in [Events -> Nat]
      BY <1>15, RequeueType DEF CloseChannel
    <2> QED BY <1>15, <2>1 DEF CloseChannel, Requeue
  <1>16. ASSUME NEW c \in Consumers, Crash(c) PROVE TypeInv'
    <2>1. queue' \in [Events -> Nat]
      BY <1>16, RequeueType DEF Crash
    <2> QED BY <1>16, <2>1 DEF Crash, Requeue, Forget, Fault
  <1>17. ASSUME NEW c \in Consumers, Restart(c) PROVE TypeInv'
    BY <1>17 DEF Restart
  <1>18. CASE UNCHANGED vars
    BY <1>18 DEF vars
  <1> QED
    BY <1>1, <1>2, <1>3, <1>4, <1>5, <1>6, <1>7, <1>8, <1>9, <1>10, <1>11, <1>12, <1>13,
       <1>14, <1>15, <1>16, <1>17, <1>18
    DEF Next, Proceed, Transact

LEMMA TypeInvCorrect == Spec => []TypeInv
  <1> QED BY TypeInit, TypeStep, PTL DEF Spec

\* Every variable keeps its type.
THEOREM TypeCorrect == Spec => []TypeOK
  <1> QED BY TypeInvCorrect, PTL DEF TypeInv

-----------------------------------------------------------------------------
(* Counting *)

\* Only COMMIT writes the tables, the click and the processed row together.
LEMMA TablesTouched ==
  ASSUME [Next]_vars
  PROVE  UNCHANGED tables \/ \E c \in Consumers : Commit(c) /\ (Committed(c) \/ CommitUnknown(c))
  <1>1. ASSUME NEW c \in Consumers, Transact(c), ~ Committed(c), ~ CommitUnknown(c)
        PROVE  UNCHANGED tables
    BY <1>1 DEF Transact, Exists, InsertProcessed, InsertClick, HasMilestone, NoMilestone,
                InsertMilestone, PublishMilestone, PublishFails, NextThreshold, Fail
  <1>2. ASSUME NEW c \in Consumers, Proceed(c), ~ Transact(c)
        PROVE  UNCHANGED tables
    BY <1>2 DEF Proceed, Discard, Ack, Nack, Answered, Restart
  <1>3. ASSUME NEW c \in Consumers, CloseChannel(c) \/ Crash(c)
        PROVE  UNCHANGED tables
    BY <1>3 DEF CloseChannel, Crash
  <1>4. ASSUME NEW e \in Events, Arrive(e) \/ \E c \in Consumers : Deliver(c, e)
        PROVE  UNCHANGED tables
    BY <1>4 DEF Arrive, Deliver
  <1>5. ASSUME NEW c \in Consumers, Committed(c) \/ CommitUnknown(c)
        PROVE  Commit(c)
    BY <1>5 DEF Committed, CommitUnknown
  <1> QED BY <1>1, <1>2, <1>3, <1>4, <1>5 DEF Next, vars

\* The rows of an event after a click was appended.
LEMMA RowsAppended ==
  ASSUME TypeOK, NEW e \in Events, NEW h \in Valid, clicks' = Append(clicks, h)
  PROVE  (Rows(e) # {})' <=> Rows(e) # {} \/ e = h
  <1>1. /\ Len(clicks) \in Nat /\ Len(clicks') = Len(clicks) + 1
        /\ clicks'[Len(clicks) + 1] = h
        /\ \A i \in 1 .. Len(clicks) : clicks'[i] = clicks[i]
    BY DEF TypeOK
  <1>2. \A i \in 1 .. Len(clicks) + 1 : i \in 1 .. Len(clicks) \/ i = Len(clicks) + 1
    BY <1>1
  <1>3. Len(clicks) + 1 \in 1 .. Len(clicks) + 1
        /\ \A i \in 1 .. Len(clicks) : i \in 1 .. Len(clicks) + 1
    BY <1>1
  <1>4. Rows(e)' = {i \in 1 .. Len(clicks) + 1 : clicks'[i] = e}
    BY <1>1 DEF Rows
  <1>5. Rows(e) = {i \in 1 .. Len(clicks) : clicks[i] = e}
    BY DEF Rows
  <1> QED BY <1>1, <1>2, <1>3, <1>4, <1>5

LEMMA ProcessedStep == TypeInv /\ ProcessedIsCounted /\ [Next]_vars => ProcessedIsCounted'
  <1> SUFFICES ASSUME TypeInv, ProcessedIsCounted, [Next]_vars PROVE ProcessedIsCounted'
    OBVIOUS
  <1>1. CASE UNCHANGED tables
    BY <1>1 DEF ProcessedIsCounted, Rows
  <1>2. ASSUME NEW c \in Consumers, Commit(c) PROVE ProcessedIsCounted'
    <2>1. holding[c] \in Valid
      BY <1>2 DEF Commit, TypeInv, Held, Counting
    <2>2. processed' = processed \cup {holding[c]} /\ clicks' = Append(clicks, holding[c])
      BY <1>2 DEF Commit
    <2> SUFFICES ASSUME NEW e \in Events PROVE e \in processed' <=> (Rows(e) # {})'
      BY DEF ProcessedIsCounted
    <2> QED BY <2>1, <2>2, RowsAppended DEF ProcessedIsCounted, TypeInv
  <1> QED BY <1>1, <1>2, TablesTouched

\* The row of processed_events and the click of an event appear together.
THEOREM ProcessedCorrect == Spec => []ProcessedIsCounted
  <1>1. Init => ProcessedIsCounted
    BY DEF Init, ProcessedIsCounted, Rows
  <1> QED BY <1>1, ProcessedStep, TypeInvCorrect, PTL DEF Spec

-----------------------------------------------------------------------------
(* Replicas that race *)

One(condition) == IF condition THEN 1 ELSE 0

\* Two sets of consumers that differ in one consumer at most.
LEMMA Differ ==
  ASSUME NEW c \in Consumers, NEW S \in SUBSET Consumers, NEW T \in SUBSET Consumers,
         S \ {c} = T \ {c}
  PROVE  /\ Cardinality(S) \in Nat /\ Cardinality(T) \in Nat
         /\ Cardinality(T) + One(c \in S) = Cardinality(S) + One(c \in T)
  <1>1. IsFiniteSet(S) /\ IsFiniteSet(T)
    BY FS_Subset, ParametersOK
  <1>2. Cardinality(S) \in Nat /\ Cardinality(T) \in Nat /\ Cardinality(S \ {c}) \in Nat
    BY <1>1, FS_RemoveElement, FS_CardinalityType
  <1>3. /\ Cardinality(S \ {c}) = IF c \in S THEN Cardinality(S) - 1 ELSE Cardinality(S)
        /\ Cardinality(T \ {c}) = IF c \in T THEN Cardinality(T) - 1 ELSE Cardinality(T)
    BY <1>1, FS_RemoveElement
  <1>4. Cardinality(S \ {c}) = Cardinality(T \ {c})
    OBVIOUS
  <1> QED BY <1>2, <1>3, <1>4 DEF One

LEMMA Within ==
  ASSUME NEW T \in SUBSET Consumers, NEW S \in SUBSET T
  PROVE  /\ Cardinality(S) \in Nat /\ Cardinality(T) \in Nat /\ Cardinality(Consumers) \in Nat
         /\ Cardinality(S) <= Cardinality(T) /\ Cardinality(T) <= Cardinality(Consumers)
  <1>1. IsFiniteSet(Consumers) /\ IsFiniteSet(T)
    BY FS_Subset, ParametersOK
  <1>2. IsFiniteSet(S)
    BY <1>1, FS_Subset
  <1> QED BY <1>1, <1>2, FS_Subset, FS_CardinalityType

\* Replicas whose transaction will count an event.  They passed the look into
\* processed_events before the first of them committed.
Racing(e) == {c \in Consumers : pc[c] \in Counting /\ holding[c] = e}

RaceInv ==
  \A e \in Events : Cardinality(Rows(e)) + Cardinality(Racing(e)) <= Cardinality(Consumers)

LEMMA RowsFinite ==
  ASSUME TypeOK, NEW e
  PROVE  IsFiniteSet(Rows(e)) /\ Cardinality(Rows(e)) \in Nat
  <1>1. Rows(e) \in SUBSET (1 .. Len(clicks)) /\ Len(clicks) \in Nat
    BY DEF Rows, TypeOK
  <1>2. IsFiniteSet(1 .. Len(clicks))
    BY <1>1, FS_Interval
  <1> QED BY <1>1, <1>2, FS_Subset, FS_CardinalityType

\* An event has one click more when it was the one appended.
LEMMA RowsCounted ==
  ASSUME TypeOK, NEW e \in Events, NEW h \in Valid, clicks' = Append(clicks, h)
  PROVE  /\ Cardinality(Rows(e)) \in Nat
         /\ Cardinality(Rows(e)') = Cardinality(Rows(e)) + One(e = h)
  <1>1. /\ Len(clicks) \in Nat /\ Len(clicks') = Len(clicks) + 1
        /\ clicks'[Len(clicks) + 1] = h
        /\ \A i \in 1 .. Len(clicks) : clicks'[i] = clicks[i]
    BY DEF TypeOK
  <1>2. IsFiniteSet(Rows(e)) /\ Len(clicks) + 1 \notin Rows(e)
    <2>1. Len(clicks) + 1 \notin 1 .. Len(clicks)
      BY <1>1
    <2> QED BY <2>1, RowsFinite DEF Rows
  <1>3. 1 .. Len(clicks') = (1 .. Len(clicks)) \cup {Len(clicks) + 1}
    BY <1>1
  <1>4. Rows(e)' = IF e = h THEN Rows(e) \cup {Len(clicks) + 1} ELSE Rows(e)
    <2>1. Rows(e)' = {i \in 1 .. Len(clicks') : clicks'[i] = e}
      BY DEF Rows
    <2> QED BY <1>1, <1>3, <2>1 DEF Rows
  <1>5. Cardinality(Rows(e) \cup {Len(clicks) + 1}) = Cardinality(Rows(e)) + 1
    BY <1>2, FS_AddElement
  <1> QED BY <1>2, <1>4, <1>5, FS_CardinalityType DEF One

\* A COMMIT takes its consumer out of the race.
LEMMA RaceCommitted ==
  ASSUME TypeInv, RaceInv, NEW c \in Consumers, Committed(c) \/ CommitUnknown(c)
  PROVE  RaceInv'
  <1> SUFFICES ASSUME NEW e \in Events
               PROVE  Cardinality(Rows(e)') + Cardinality(Racing(e)') <= Cardinality(Consumers)
    BY DEF RaceInv
  <1>1. /\ holding[c] \in Valid /\ clicks' = Append(clicks, holding[c])
        /\ pc[c] \in Counting /\ holding' = holding
        /\ \E label \in {"ack", "nack"} : pc' = [pc EXCEPT ![c] = label]
    BY DEF Committed, CommitUnknown, Commit, Goto, TypeInv, Held, Counting
  <1>2. /\ Racing(e) \ {c} = Racing(e)' \ {c} /\ c \notin Racing(e)'
        /\ (c \in Racing(e) <=> e = holding[c])
    BY <1>1 DEF Racing, Counting, TypeInv, TypeOK
  <1>3. /\ Cardinality(Racing(e)) \in Nat /\ Cardinality(Racing(e)') \in Nat
        /\ Cardinality(Racing(e)') + One(e = holding[c]) = Cardinality(Racing(e))
    <2>1. Racing(e) \in SUBSET Consumers /\ Racing(e)' \in SUBSET Consumers
      BY DEF Racing
    <2> QED BY <1>2, <2>1, Differ DEF One
  <1>4. Cardinality(Consumers) \in Nat
    BY ParametersOK, FS_CardinalityType
  <1> QED BY <1>1, <1>3, <1>4, RowsCounted DEF RaceInv, One, TypeInv

\* Only a consumer that does not find the event enters the race, and then nobody has
\* finished yet.
LEMMA RaceEntered ==
  ASSUME TypeInv, ProcessedIsCounted, RaceInv, NEW c \in Consumers, Exists(c)
  PROVE  RaceInv'
  <1> SUFFICES ASSUME NEW e \in Events
               PROVE  Cardinality(Rows(e)') + Cardinality(Racing(e)') <= Cardinality(Consumers)
    BY DEF RaceInv
  <1>1. Rows(e)' = Rows(e)
    BY DEF Exists, Rows
  <1>2. CASE e \in processed
    <2>1. Racing(e)' = Racing(e)
      BY <1>2 DEF Exists, Seen, Goto, Racing, Counting, TypeInv, TypeOK
    <2> QED BY <1>1, <2>1 DEF RaceInv
  <1>3. CASE e \notin processed
    <2>1. Cardinality(Rows(e)) = 0
      BY <1>3, FS_EmptySet DEF ProcessedIsCounted
    <2>2. Racing(e)' \in SUBSET Consumers
      BY DEF Racing
    <2>3. Cardinality(Racing(e)') \in Nat /\ Cardinality(Racing(e)') <= Cardinality(Consumers)
      BY <2>2, Within
    <2> QED BY <1>1, <2>1, <2>3
  <1> QED BY <1>2, <1>3

\* The race goes on with those that were in it.
LEMMA RaceLeft ==
  ASSUME TypeOK, RaceInv, UNCHANGED tables,
         \A c \in Consumers :
            pc'[c] \in Counting => pc[c] \in Counting /\ holding'[c] = holding[c]
  PROVE  RaceInv'
  <1> SUFFICES ASSUME NEW e \in Events
               PROVE  Cardinality(Rows(e)') + Cardinality(Racing(e)') <= Cardinality(Consumers)
    BY DEF RaceInv
  <1>1. Rows(e)' = Rows(e)
    BY DEF Rows
  <1>2. Racing(e)' \in SUBSET Racing(e) /\ Racing(e) \in SUBSET Consumers
    BY DEF Racing
  <1>3. Cardinality(Rows(e)) \in Nat
    BY RowsFinite
  <1> QED BY <1>1, <1>2, <1>3, Within DEF RaceInv

LEMMA RaceStep == TypeInv /\ ProcessedIsCounted /\ RaceInv /\ [Next]_vars => RaceInv'
  <1> SUFFICES ASSUME TypeInv, ProcessedIsCounted, RaceInv, [Next]_vars PROVE RaceInv'
    OBVIOUS
  <1>t. pc \in [Consumers -> Labels] /\ holding \in [Consumers -> Events \cup {Nothing}] /\ TypeOK
    BY DEF TypeInv, TypeOK
  <1> DEFINE Left == /\ UNCHANGED tables
                     /\ \A d \in Consumers :
                          pc'[d] \in Counting => pc[d] \in Counting /\ holding'[d] = holding[d]
  <1>1. CASE UNCHANGED <<pc, holding, tables>>
    BY <1>1, <1>t, RaceLeft
  <1>2. ASSUME NEW c \in Consumers, Exists(c) PROVE RaceInv'
    BY <1>2, RaceEntered
  <1>3. ASSUME NEW c \in Consumers, Committed(c) \/ CommitUnknown(c) PROVE RaceInv'
    BY <1>3, RaceCommitted
  <1>4. ASSUME NEW c \in Consumers,
               InsertProcessed(c) \/ InsertClick(c) \/ InsertMilestone(c) \/ PublishMilestone(c)
                 \/ PublishFails(c) \/ \E t \in Thresholds : NoMilestone(c, t)
        PROVE  RaceInv'
    <2>1. UNCHANGED <<tables, holding>>
      BY <1>4 DEF InsertProcessed, InsertClick, InsertMilestone, NoMilestone,
                  PublishMilestone, PublishFails, NextThreshold
    <2>2. pc[c] \in Counting /\ \E label \in Counting : pc' = [pc EXCEPT ![c] = label]
      BY <1>4 DEF InsertProcessed, InsertClick, InsertMilestone, NoMilestone,
                  PublishMilestone, PublishFails, NextThreshold, Goto, Counting
    <2>3. Left
      BY <1>t, <2>1, <2>2
    <2> QED BY <1>t, <2>3, RaceLeft
  <1>5. ASSUME NEW c \in Consumers,
               Discard(c) \/ Fail(c) \/ Ack(c) \/ Nack(c) \/ Crash(c) \/ Restart(c)
                 \/ \E e \in Events : Deliver(c, e)
        PROVE  RaceInv'
    <2>1. UNCHANGED tables
      BY <1>5 DEF Discard, Fail, Ack, Nack, Answered, Crash, Restart, Deliver
    <2>2. /\ \E label \in Labels \ Counting : pc' = [pc EXCEPT ![c] = label]
          /\ \A d \in Consumers \ {c} : holding'[d] = holding[d]
      BY <1>5, <1>t DEF Discard, Fail, AfterFailure, Ack, Nack, Answered, Crash, Restart, Deliver,
                  Goto, Counting, Labels
    <2>3. Left
      BY <1>t, <2>1, <2>2
    <2> QED BY <1>t, <2>3, RaceLeft
  <1>6. ASSUME NEW c \in Consumers,
               CloseChannel(c) \/ (\E t \in Thresholds : HasMilestone(c, t)) \/ \E e \in Events : Arrive(e)
        PROVE  UNCHANGED <<pc, holding, tables>>
    BY <1>6 DEF CloseChannel, HasMilestone, Arrive
  <1>7. ASSUME NEW e \in Events, Arrive(e) PROVE UNCHANGED <<pc, holding, tables>>
    BY <1>7 DEF Arrive
  <1> QED BY <1>1, <1>2, <1>3, <1>4, <1>5, <1>6, <1>7 DEF Next, Proceed, Transact, vars

LEMMA RaceInit == Init => RaceInv
  <1> SUFFICES ASSUME Init, NEW e \in Events
               PROVE  Cardinality(Rows(e)) + Cardinality(Racing(e)) <= Cardinality(Consumers)
    BY DEF RaceInv
  <1>1. Rows(e) = {} /\ Racing(e) = {}
    BY DEF Init, Rows, Racing, Counting
  <1> QED BY <1>1, FS_EmptySet, Within

LEMMA RaceCounts == TypeInv /\ RaceInv => CountedOncePerConsumer
  <1> SUFFICES ASSUME TypeInv, RaceInv, NEW e \in Events
               PROVE  Cardinality(Rows(e)) <= Cardinality(Consumers)
    BY DEF CountedOncePerConsumer
  <1>1. Racing(e) \in SUBSET Consumers
    BY DEF Racing
  <1> QED BY <1>1, Within, RowsFinite DEF RaceInv, TypeInv

\* For any number of replicas, redeliveries, failures and crashes: an event is counted
\* at most as often as there are replicas.
THEOREM RaceCorrect == Spec => []CountedOncePerConsumer
  <1> QED BY RaceInit, RaceCounts, RaceStep, ProcessedCorrect, TypeInvCorrect, PTL DEF Spec

-----------------------------------------------------------------------------
(* Deliveries *)

\* What the broker waits for is what the consumer works on, and only what was counted,
\* or is malformed, is acknowledged.
Owed ==
  \A c \in Consumers :
    /\ unacked[c] # Nothing => unacked[c] = holding[c]
    /\ pc[c] = "ack" /\ holding[c] \in Valid => holding[c] \in processed

Kept(e) == queue[e] > 0 \/ \E c \in Consumers : unacked[c] = e

\* A requeue keeps every copy.
LEMMA RequeueKeeps ==
  ASSUME TypeOK, NEW c \in Consumers, Requeue(c), NEW e \in Events, Kept(e)
  PROVE  Kept(e)'
  <1>1. queue[e] \in Nat /\ queue'[e] = queue[e] + (IF unacked[c] = e THEN 1 ELSE 0)
    BY DEF TypeOK, Requeue
  <1>2. \A d \in Consumers \ {c} : unacked'[d] = unacked[d]
    BY DEF TypeOK, Requeue
  <1> QED BY <1>1, <1>2 DEF Kept

LEMMA OwedStep == TypeInv /\ Owed /\ [Next]_vars => Owed'
  <1> SUFFICES ASSUME TypeInv, Owed, [Next]_vars PROVE Owed'
    OBVIOUS
  <1> USE DEF TypeInv, TypeOK, Owed, Goto
  <1>0. processed \subseteq processed'
    BY TablesTouched DEF Commit
  <1>1. ASSUME NEW e \in Events, Arrive(e) PROVE Owed'
    BY <1>1 DEF Arrive
  <1>2. ASSUME NEW c \in Consumers, NEW e \in Events, Deliver(c, e) PROVE Owed'
    BY <1>2 DEF Deliver
  <1>3. ASSUME NEW c \in Consumers, Discard(c) \/ Exists(c) PROVE Owed'
    BY <1>3 DEF Discard, Exists, Parses, Seen
  <1>4. ASSUME NEW c \in Consumers, InsertProcessed(c) \/ InsertClick(c) \/ InsertMilestone(c)
        PROVE Owed'
    BY <1>4 DEF InsertProcessed, InsertClick, InsertMilestone
  <1>5. ASSUME NEW c \in Consumers, NEW t \in Thresholds, HasMilestone(c, t) \/ NoMilestone(c, t)
        PROVE Owed'
    BY <1>5 DEF HasMilestone, NoMilestone
  <1>6. ASSUME NEW c \in Consumers, PublishMilestone(c) \/ PublishFails(c) PROVE Owed'
    BY <1>6 DEF PublishMilestone, PublishFails, NextThreshold
  <1>7. ASSUME NEW c \in Consumers, Committed(c) \/ CommitUnknown(c) PROVE Owed'
    <2>1. UNCHANGED <<unacked, holding>> /\ holding[c] \in processed'
      BY <1>7 DEF Committed, CommitUnknown, Commit
    <2>2. \E label \in {"ack", "nack"} : pc' = [pc EXCEPT ![c] = label]
      BY <1>7 DEF Committed, CommitUnknown
    <2> QED BY <1>0, <2>1, <2>2
  <1>8. ASSUME NEW c \in Consumers, Fail(c) PROVE Owed'
    BY <1>8 DEF Fail, AfterFailure
  <1>9. ASSUME NEW c \in Consumers, Ack(c) \/ Nack(c) PROVE Owed'
    BY <1>9 DEF Ack, Nack, Answered
  <1>10. ASSUME NEW c \in Consumers, CloseChannel(c) \/ Crash(c) PROVE Owed'
    BY <1>10 DEF CloseChannel, Crash, Requeue
  <1>11. ASSUME NEW c \in Consumers, Restart(c) PROVE Owed'
    BY <1>11 DEF Restart
  <1>12. CASE UNCHANGED vars
    BY <1>12 DEF vars
  <1> QED
    BY <1>1, <1>2, <1>3, <1>4, <1>5, <1>6, <1>7, <1>8, <1>9, <1>10, <1>11, <1>12
    DEF Next, Proceed, Transact

LEMMA LostStep == TypeInv /\ Owed /\ NothingIsLost /\ [Next]_vars => NothingIsLost'
  <1> SUFFICES ASSUME TypeInv, Owed, NothingIsLost, [Next]_vars,
                      NEW e \in Valid, arrived'[e] > 0, e \notin processed'
               PROVE  Kept(e)'
    BY DEF NothingIsLost, Kept
  <1>0. e \in Events /\ e # Nothing /\ queue[e] \in Nat /\ arrived[e] \in Nat
    BY ParametersOK DEF Valid, TypeInv, TypeOK
  <1>1. e \notin processed
    BY TablesTouched DEF Commit
  <1>2. arrived[e] > 0 => Kept(e)
    BY <1>1 DEF NothingIsLost, Kept
  <1>t. /\ arrived \in [Events -> Nat] /\ queue \in [Events -> Nat]
        /\ unacked \in [Consumers -> Events \cup {Nothing}]
    BY DEF TypeInv, TypeOK
  <1>3. ASSUME NEW x \in Events, Arrive(x) PROVE Kept(e)'
    <2>1. CASE x = e
      BY <1>0, <1>3, <1>t, <2>1 DEF Arrive, Kept
    <2>2. CASE x # e
      BY <1>0, <1>2, <1>3, <1>t, <2>2 DEF Arrive, Kept
    <2> QED BY <2>1, <2>2
  <1>4. ASSUME NEW c \in Consumers, NEW x \in Events, Deliver(c, x) PROVE Kept(e)'
    <2>1. /\ unacked[c] = Nothing /\ unacked' = [unacked EXCEPT ![c] = x]
          /\ queue' = [queue EXCEPT ![x] = @ - 1] /\ UNCHANGED arrived
      BY <1>4 DEF Deliver, TypeInv, Held
    <2>2. CASE x = e
      BY <1>t, <2>1, <2>2 DEF Kept
    <2>3. CASE x # e
      BY <1>0, <1>2, <1>t, <2>1, <2>3 DEF Kept
    <2> QED BY <2>2, <2>3
  <1>5. ASSUME NEW c \in Consumers, Ack(c) PROVE Kept(e)'
    <2>1. unacked[c] # e
      BY <1>0, <1>1, <1>5 DEF Ack, Owed
    <2>2. unacked' = [unacked EXCEPT ![c] = Nothing] /\ UNCHANGED <<queue, arrived>>
      BY <1>5 DEF Ack, Answered
    <2> QED BY <1>2, <1>t, <2>1, <2>2 DEF Kept
  <1>6. ASSUME NEW c \in Consumers, Nack(c) \/ CloseChannel(c) \/ Crash(c) PROVE Kept(e)'
    <2>1. Requeue(c) /\ UNCHANGED arrived
      BY <1>6 DEF Nack, CloseChannel, Crash, Answered
    <2> QED BY <1>0, <1>2, <2>1, RequeueKeeps DEF TypeInv
  <1>7. CASE UNCHANGED <<arrived, queue, unacked>>
    BY <1>2, <1>7 DEF Kept
  <1>8. ASSUME NEW c \in Consumers, Transact(c) \/ Discard(c) \/ Restart(c)
        PROVE  UNCHANGED <<arrived, queue, unacked>>
    BY <1>8 DEF Transact, Discard, Restart, Exists, InsertProcessed, InsertClick, HasMilestone,
        NoMilestone, InsertMilestone, PublishMilestone, PublishFails, NextThreshold,
        Committed, CommitUnknown, Commit, Fail
  <1> QED BY <1>3, <1>4, <1>5, <1>6, <1>7, <1>8 DEF Next, Proceed, vars

\* For any number of replicas, failures, closed channels and crashes: a click event that
\* is not counted is in the queue or owed to it.
THEOREM KeptCorrect == Spec => []NothingIsLost
  <1>1. Init => Owed /\ NothingIsLost
    BY DEF Init, Owed, NothingIsLost, Valid
  <1> QED BY <1>1, OwedStep, LostStep, TypeInvCorrect, PTL DEF Spec

-----------------------------------------------------------------------------
(* Milestones *)

\* What a transaction looks at, or records, is reached by its own click at the latest.
OwnAreReached ==
  \A c \in Consumers : \A t \in due[c] \cup own[c] : t <= Len(clicks) + 1

RecordedAreReached == \A t \in milestones : t <= Len(clicks)

ReachedInv == OwnAreReached /\ RecordedAreReached

LEMMA ReachedStep == TypeInv /\ ReachedInv /\ [Next]_vars => ReachedInv'
  <1> SUFFICES ASSUME TypeInv, ReachedInv, [Next]_vars PROVE ReachedInv'
    OBVIOUS
  <1>t. /\ due \in [Consumers -> SUBSET Thresholds] /\ own \in [Consumers -> SUBSET Thresholds]
        /\ Thresholds \subseteq Nat /\ milestones \subseteq Thresholds /\ Len(clicks) \in Nat
    BY ParametersOK DEF TypeInv, TypeOK
  <1> USE DEF ReachedInv, OwnAreReached, RecordedAreReached
  <1>1. ASSUME NEW c \in Consumers, Commit(c) PROVE ReachedInv'
    <2>1. Len(clicks') = Len(clicks) + 1
      BY <1>1 DEF Commit, TypeInv, TypeOK, Held, Counting
    <2>2. /\ milestones' = milestones \cup own[c]
          /\ due' = [due EXCEPT ![c] = {}] /\ own' = [own EXCEPT ![c] = {}]
      BY <1>1 DEF Commit, Forget
    <2>3. RecordedAreReached'
      BY <1>t, <2>1, <2>2
    <2>4. OwnAreReached'
      BY <1>t, <2>1, <2>2
    <2> QED BY <2>3, <2>4
  <1>2. ASSUME NEW c \in Consumers, InsertClick(c) PROVE ReachedInv'
    <2>1. /\ UNCHANGED <<own, clicks, milestones>> /\ due' = [due EXCEPT ![c] = Reached]
      BY <1>2 DEF InsertClick
    <2> QED BY <1>t, <2>1 DEF Reached
  <1>3. ASSUME NEW c \in Consumers, InsertMilestone(c) PROVE ReachedInv'
    <2>1. /\ UNCHANGED <<due, clicks, milestones>> /\ at[c] \in due[c]
          /\ own' = [own EXCEPT ![c] = @ \cup ({at[c]} \ milestones)]
      BY <1>3 DEF InsertMilestone, TypeInv, Held
    <2> QED BY <1>t, <2>1
  <1>4. CASE /\ UNCHANGED tables
             /\ \A c \in Consumers : due'[c] \subseteq due[c] /\ own'[c] \subseteq own[c]
    BY <1>t, <1>4
  <1>5. ASSUME NEW c \in Consumers,
               Fail(c) \/ Crash(c) \/ PublishMilestone(c) \/ PublishFails(c)
                 \/ \E t \in Thresholds : HasMilestone(c, t)
        PROVE  /\ UNCHANGED tables
               /\ \A d \in Consumers : due'[d] \subseteq due[d] /\ own'[d] \subseteq own[d]
    BY <1>5, <1>t DEF Fail, Crash, Forget, PublishMilestone, PublishFails, NextThreshold, HasMilestone
  <1>6. CASE UNCHANGED <<due, own, tables>>
    BY <1>6
  <1>7. ASSUME NEW c \in Consumers,
               Discard(c) \/ Exists(c) \/ InsertProcessed(c) \/ Ack(c) \/ Nack(c)
                 \/ Restart(c) \/ CloseChannel(c)
                 \/ (\E t \in Thresholds : NoMilestone(c, t)) \/ \E e \in Events : Deliver(c, e)
        PROVE  UNCHANGED <<due, own, tables>>
    BY <1>7 DEF Discard, Exists, InsertProcessed, NoMilestone, Deliver, Ack, Nack, Answered,
        Restart, CloseChannel
  <1>8. ASSUME NEW e \in Events, Arrive(e) PROVE UNCHANGED <<due, own, tables>>
    BY <1>8 DEF Arrive
  <1>9. ASSUME NEW c \in Consumers, Committed(c) \/ CommitUnknown(c) PROVE ReachedInv'
    BY <1>1, <1>9 DEF Committed, CommitUnknown
  <1> QED BY <1>2, <1>3, <1>4, <1>5, <1>6, <1>7, <1>8, <1>9 DEF Next, Proceed, Transact, vars

\* Replicas whose transaction counted too few clicks for a threshold.
Blind(t) ==
  {c \in Consumers : pc[c] \in {"check", "insert", "publish"} /\ t \notin due[c] \cup own[c]}

\* A click that has reached a threshold without recording it came from a replica that
\* had counted before the one before the threshold was committed, and there were no
\* more of those left then than there are replicas but one.
KeepsUp(t) ==
  \/ t \in milestones
  \/ Len(clicks) + 1 < t
  \/ Len(clicks) + 2 + Cardinality(Blind(t)) <= t + Cardinality(Consumers)

\* A transaction that goes on from a threshold has recorded it, or found it recorded.
SettledIsRecorded ==
  \A c \in Consumers : pc[c] = "publish" => at[c] \in own[c] \cup milestones

LagInv == SettledIsRecorded /\ \A t \in Thresholds : KeepsUp(t)

LEMMA SettledStep == TypeInv /\ SettledIsRecorded /\ [Next]_vars => SettledIsRecorded'
  <1> SUFFICES ASSUME TypeInv, SettledIsRecorded, [Next]_vars PROVE SettledIsRecorded'
    OBVIOUS
  <1>t. /\ own \in [Consumers -> SUBSET Thresholds] /\ at \in [Consumers -> Thresholds \cup {0}]
        /\ pc \in [Consumers -> Labels] /\ due \in [Consumers -> SUBSET Thresholds]
    BY DEF TypeInv, TypeOK
  <1> USE DEF SettledIsRecorded, Goto
  <1>1. ASSUME NEW c \in Consumers, InsertMilestone(c) PROVE SettledIsRecorded'
    BY <1>1, <1>t DEF InsertMilestone
  <1>2. ASSUME NEW c \in Consumers, Commit(c), pc'[c] # "publish",
               \A d \in Consumers \ {c} : pc'[d] = pc[d]
        PROVE  SettledIsRecorded'
    <2>1. /\ milestones \subseteq milestones'
          /\ \A d \in Consumers \ {c} : own'[d] = own[d] /\ at'[d] = at[d]
      BY <1>2, <1>t DEF Commit, Forget
    <2> QED BY <1>2, <2>1
  <1>3. ASSUME NEW c \in Consumers, Committed(c) \/ CommitUnknown(c) PROVE SettledIsRecorded'
    <2>1. Commit(c) /\ pc'[c] # "publish" /\ \A d \in Consumers \ {c} : pc'[d] = pc[d]
      BY <1>3, <1>t DEF Committed, CommitUnknown
    <2> QED BY <1>2, <2>1
  <1>4. ASSUME NEW c \in Consumers, pc'[c] # "publish", milestones' = milestones,
               \A d \in Consumers \ {c} : pc'[d] = pc[d] /\ own'[d] = own[d] /\ at'[d] = at[d]
        PROVE  SettledIsRecorded'
    BY <1>4
  <1>5. ASSUME NEW c \in Consumers,
               \/ InsertClick(c) \/ PublishMilestone(c) \/ PublishFails(c) \/ Fail(c) \/ Crash(c)
               \/ \E t \in Thresholds : NoMilestone(c, t)
        PROVE  /\ pc'[c] # "publish" /\ milestones' = milestones
               /\ \A d \in Consumers \ {c} : pc'[d] = pc[d] /\ own'[d] = own[d] /\ at'[d] = at[d]
    BY <1>5, <1>t DEF InsertClick, PublishMilestone, PublishFails, NextThreshold, Fail,
       AfterFailure, Crash, Forget, NoMilestone
  <1>6. ASSUME NEW c \in Consumers,
               \/ Discard(c) \/ Exists(c) \/ InsertProcessed(c) \/ Ack(c) \/ Nack(c)
               \/ Restart(c) \/ \E e \in Events : Deliver(c, e)
        PROVE  /\ pc'[c] # "publish" /\ milestones' = milestones
               /\ \A d \in Consumers \ {c} : pc'[d] = pc[d] /\ own'[d] = own[d] /\ at'[d] = at[d]
    BY <1>6, <1>t DEF Discard, Exists, InsertProcessed, Ack, Nack, Answered, Restart, Deliver
  <1>7. CASE UNCHANGED <<pc, own, at, milestones>>
    BY <1>7
  <1>8. ASSUME NEW c \in Consumers, CloseChannel(c) \/ \E t \in Thresholds : HasMilestone(c, t)
        PROVE  UNCHANGED <<pc, own, at, milestones>>
    BY <1>8 DEF CloseChannel, HasMilestone
  <1>9. ASSUME NEW e \in Events, Arrive(e) PROVE UNCHANGED <<pc, own, at, milestones>>
    BY <1>9 DEF Arrive
  <1> QED BY <1>1, <1>3, <1>4, <1>5, <1>6, <1>7, <1>8, <1>9 DEF Next, Proceed, Transact, vars

\* Whoever leaves the blind, or does not join them, brings no threshold further behind.
LEMMA LagShrinks ==
  ASSUME TypeInv, NEW t \in Thresholds, KeepsUp(t),
         clicks' = clicks, milestones' = milestones, Blind(t)' \subseteq Blind(t)
  PROVE  KeepsUp(t)'
  <1>1. /\ Cardinality(Blind(t)') \in Nat /\ Cardinality(Blind(t)) \in Nat
        /\ Cardinality(Blind(t)') <= Cardinality(Blind(t)) /\ Cardinality(Consumers) \in Nat
    BY Within DEF Blind
  <1>2. Len(clicks) \in Nat /\ t \in Nat
    BY ParametersOK DEF TypeInv, TypeOK
  <1> QED BY <1>1, <1>2 DEF KeepsUp

\* A commit that does not record the threshold is one of the blind, who are one less.
LEMMA LagCommitted ==
  ASSUME TypeInv, NEW t \in Thresholds, KeepsUp(t), NEW c \in Consumers, Commit(c),
         pc'[c] \notin {"check", "insert", "publish"},
         \A d \in Consumers \ {c} : pc'[d] = pc[d]
  PROVE  KeepsUp(t)'
  <1> SUFFICES ASSUME t \notin milestones' PROVE KeepsUp(t)'
    BY DEF KeepsUp
  <1>1. /\ pc[c] = "check" /\ due[c] = {} /\ t \notin own[c] /\ t \notin milestones
        /\ Len(clicks') = Len(clicks) + 1 /\ Len(clicks) \in Nat /\ t \in Nat
        /\ \A d \in Consumers \ {c} : due'[d] = due[d] /\ own'[d] = own[d]
    <2>1. holding[c] \in Valid /\ clicks \in Seq(Valid)
      BY DEF TypeInv, TypeOK, Held, Commit, Counting
    <2> QED BY <2>1, ParametersOK DEF Commit, Forget, TypeInv, TypeOK
  <1>2. c \in Blind(t) /\ Blind(t)' = Blind(t) \ {c}
    BY <1>1 DEF Blind
  <1>3. Blind(t) \in SUBSET Consumers /\ IsFiniteSet(Blind(t)) /\ IsFiniteSet(Consumers)
    BY FS_Subset, ParametersOK DEF Blind
  <1>4. /\ Cardinality(Blind(t)') = Cardinality(Blind(t)) - 1 /\ Cardinality(Blind(t)) \in Nat
        /\ Cardinality(Consumers) \in Nat /\ Cardinality(Blind(t)) <= Cardinality(Consumers)
    BY <1>2, <1>3, FS_RemoveElement, FS_CardinalityType, FS_Subset
  <1> DEFINE b == Cardinality(Blind(t))
             k == Cardinality(Consumers)
             n == Len(clicks)
  <1>5. /\ n + 1 < t \/ n + 2 + b <= t + k
        /\ b \in Nat /\ k \in Nat /\ n \in Nat /\ t \in Nat /\ b <= k
    BY <1>1, <1>4 DEF KeepsUp
  <1>6. n + 2 < t \/ n + 3 + (b - 1) <= t + k
    <2> HIDE DEF b, k, n
    <2> QED BY <1>5
  <1> QED BY <1>1, <1>4, <1>6 DEF KeepsUp

LEMMA LagStep == TypeInv /\ LagInv /\ [Next]_vars => LagInv'
  <1> SUFFICES ASSUME TypeInv, LagInv, [Next]_vars, NEW t \in Thresholds PROVE KeepsUp(t)'
    BY SettledStep DEF LagInv
  <1>t. /\ due \in [Consumers -> SUBSET Thresholds] /\ own \in [Consumers -> SUBSET Thresholds]
        /\ pc \in [Consumers -> Labels] /\ at \in [Consumers -> Thresholds \cup {0}]
        /\ KeepsUp(t) /\ SettledIsRecorded
    BY DEF TypeInv, TypeOK, LagInv
  <1> USE DEF Goto
  <1>1. ASSUME NEW c \in Consumers, InsertClick(c) PROVE KeepsUp(t)'
    <2>0. UNCHANGED <<clicks, milestones>>
      BY <1>1 DEF InsertClick
    <2>1. CASE t \in Reached
      <3>1. Blind(t)' \subseteq Blind(t)
        BY <1>1, <1>t, <2>1 DEF InsertClick, Blind
      <3> QED BY <1>t, <2>0, <3>1, LagShrinks
    <2>2. CASE t \notin Reached
      <3>1. Len(clicks) + 1 < t
        BY <2>2, ParametersOK DEF Reached, TypeInv, TypeOK
      <3> QED BY <2>0, <3>1 DEF KeepsUp
    <2> QED BY <2>1, <2>2
  <1>2. ASSUME NEW c \in Consumers, Committed(c) \/ CommitUnknown(c) PROVE KeepsUp(t)'
    <2>1. /\ Commit(c) /\ pc'[c] \notin {"check", "insert", "publish"}
          /\ \A d \in Consumers \ {c} : pc'[d] = pc[d]
      BY <1>2, <1>t DEF Committed, CommitUnknown
    <2> QED BY <1>t, <2>1, LagCommitted
  <1>3. ASSUME NEW c \in Consumers, NEW u \in Thresholds, HasMilestone(c, u) PROVE KeepsUp(t)'
    <2>1. CASE t = u
      BY <1>3, <2>1 DEF HasMilestone, Recorded, KeepsUp
    <2>2. CASE t # u
      <3>1. Blind(t)' \subseteq Blind(t) /\ UNCHANGED <<clicks, milestones>>
        BY <1>3, <1>t, <2>2 DEF HasMilestone, Blind
      <3> QED BY <1>t, <3>1, LagShrinks
    <2> QED BY <2>1, <2>2
  <1>4. ASSUME NEW c \in Consumers, PublishMilestone(c) \/ PublishFails(c) PROVE KeepsUp(t)'
    <2>1. /\ UNCHANGED <<clicks, milestones, own>> /\ pc[c] = "publish"
          /\ due' = [due EXCEPT ![c] = @ \ {at[c]}] /\ pc' = [pc EXCEPT ![c] = "check"]
      BY <1>4 DEF PublishMilestone, PublishFails, NextThreshold
    <2>2. CASE t \in milestones
      BY <2>1, <2>2 DEF KeepsUp
    <2>3. CASE t \notin milestones
      <3>1. t = at[c] => t \in own[c]
        BY <1>t, <2>1, <2>3 DEF SettledIsRecorded
      <3>2. Blind(t)' \subseteq Blind(t)
        BY <1>t, <2>1, <3>1 DEF Blind
      <3> QED BY <1>t, <2>1, <3>2, LagShrinks
    <2> QED BY <2>2, <2>3
  <1>5. CASE Blind(t)' \subseteq Blind(t) /\ UNCHANGED <<clicks, milestones>>
    BY <1>5, <1>t, LagShrinks
  <1>6. ASSUME NEW c \in Consumers,
               InsertMilestone(c) \/ \E u \in Thresholds : NoMilestone(c, u)
        PROVE  Blind(t)' \subseteq Blind(t) /\ UNCHANGED <<clicks, milestones>>
    BY <1>6, <1>t DEF InsertMilestone, NoMilestone, Blind
  <1>7. ASSUME NEW c \in Consumers, Fail(c) \/ Crash(c)
        PROVE  Blind(t)' \subseteq Blind(t) /\ UNCHANGED <<clicks, milestones>>
    BY <1>7, <1>t DEF Fail, AfterFailure, Crash, Forget, Blind
  <1>8. ASSUME NEW c \in Consumers,
               \/ Discard(c) \/ Exists(c) \/ InsertProcessed(c) \/ Ack(c) \/ Nack(c)
               \/ Restart(c) \/ CloseChannel(c) \/ \E e \in Events : Deliver(c, e)
        PROVE  Blind(t)' \subseteq Blind(t) /\ UNCHANGED <<clicks, milestones>>
    BY <1>8, <1>t DEF Discard, Exists, InsertProcessed, Ack, Nack, Answered, Restart, CloseChannel,
       Deliver, Blind
  <1>9. ASSUME NEW e \in Events, Arrive(e)
        PROVE  Blind(t)' \subseteq Blind(t) /\ UNCHANGED <<clicks, milestones>>
    BY <1>9 DEF Arrive, Blind
  <1>10. CASE UNCHANGED vars
    <2>1. Blind(t)' \subseteq Blind(t) /\ UNCHANGED <<clicks, milestones>>
      BY <1>10 DEF vars, Blind
    <2> QED BY <1>5, <2>1
  <1> QED BY <1>1, <1>2, <1>3, <1>4, <1>5, <1>6, <1>7, <1>8, <1>9, <1>10
          DEF Next, Proceed, Transact

\* Nobody counts at the start, and there is a replica.
LEMMA LagInit == Init => LagInv
  <1> SUFFICES ASSUME Init PROVE LagInv
    OBVIOUS
  <1>1. SettledIsRecorded
    BY DEF Init, SettledIsRecorded
  <1>2. ASSUME NEW t \in Thresholds PROVE KeepsUp(t)
    <2>1. Blind(t) = {} /\ Len(clicks) = 0 /\ t \in Nat /\ t >= 1
      BY ParametersOK DEF Init, Blind
    <2>2. Cardinality(Consumers) \in Nat /\ Cardinality(Consumers) >= 1
      BY ParametersOK, FS_CardinalityType, FS_EmptySet
    <2> QED BY <2>1, <2>2, FS_EmptySet DEF KeepsUp
  <1> QED BY <1>1, <1>2 DEF LagInv

LEMMA LagKeepsUp == TypeInv /\ ReachedInv /\ LagInv => MilestonesKeepUp
  <1> SUFFICES ASSUME TypeInv, RecordedAreReached, LagInv,
                      NEW t \in Thresholds \ milestones, t <= Len(clicks)
               PROVE  Len(clicks) - t + 1 < Cardinality(Consumers)
    BY DEF MilestonesKeepUp, ReachedInv, RecordedAreReached
  <1>1. Len(clicks) \in Nat /\ t \in Nat
    BY ParametersOK DEF TypeInv, TypeOK
  <1>2. Cardinality(Blind(t)) \in Nat /\ Cardinality(Consumers) \in Nat
    BY Within DEF Blind
  <1>3. Len(clicks) + 2 + Cardinality(Blind(t)) <= t + Cardinality(Consumers)
    BY <1>1 DEF LagInv, KeepsUp
  <1> QED BY <1>1, <1>2, <1>3

\* For any thresholds and any number of replicas: a recorded milestone was reached, and
\* one that was reached is recorded before as many clicks as there are replicas
\* have reached it.
THEOREM MilestonesCorrect == Spec => []MilestonesKeepUp
  <1>1. Init => ReachedInv
    BY DEF Init, ReachedInv, OwnAreReached, RecordedAreReached
  <1> QED BY <1>1, LagInit, ReachedStep, LagStep, LagKeepsUp, TypeInvCorrect, PTL DEF Spec

-----------------------------------------------------------------------------
(* Nobody waits in a circle *)

\* A transaction holds rows only while it runs, and goes through the thresholds in
\* ascending order: those it holds are below those it has still to look at.
Ordered ==
  \A c \in Consumers :
    /\ own[c] # {} => pc[c] \in {"check", "insert", "publish"}
    /\ marked[c] => pc[c] \in {"click", "check", "insert", "publish"}
    /\ pc[c] \in {"insert", "publish"} => at[c] \in due[c] /\ \A u \in due[c] : at[c] <= u
    /\ pc[c] \in {"check", "insert"} => \A t \in own[c], u \in due[c] : t < u
    /\ pc[c] = "publish" => \A t \in own[c] : t <= at[c]

LEMMA OrderedStep == TypeInv /\ Ordered /\ [Next]_vars => Ordered'
  <1> SUFFICES ASSUME TypeInv, Ordered, [Next]_vars PROVE Ordered'
    OBVIOUS
  <1>t. /\ due \in [Consumers -> SUBSET Thresholds] /\ own \in [Consumers -> SUBSET Thresholds]
        /\ at \in [Consumers -> Thresholds \cup {0}] /\ marked \in [Consumers -> BOOLEAN]
        /\ pc \in [Consumers -> Labels] /\ Thresholds \subseteq Nat
    BY ParametersOK DEF TypeInv, TypeOK
  <1> USE DEF Ordered, Goto, Forget
  <1>1. ASSUME NEW c \in Consumers, NEW e \in Events, Deliver(c, e) PROVE Ordered'
    BY <1>1, <1>t DEF Deliver
  <1>2. ASSUME NEW c \in Consumers, Discard(c) \/ Exists(c) PROVE Ordered'
    BY <1>2, <1>t DEF Discard, Exists
  <1>3. ASSUME NEW c \in Consumers, InsertProcessed(c) PROVE Ordered'
    BY <1>3, <1>t DEF InsertProcessed
  <1>4. ASSUME NEW c \in Consumers, InsertClick(c) PROVE Ordered'
    BY <1>4, <1>t DEF InsertClick
  <1>5. ASSUME NEW c \in Consumers, NEW t \in Thresholds, HasMilestone(c, t) PROVE Ordered'
    BY <1>5, <1>t DEF HasMilestone
  <1>6. ASSUME NEW c \in Consumers, NEW t \in Thresholds, NoMilestone(c, t) PROVE Ordered'
    BY <1>6, <1>t DEF NoMilestone, InTurn
  <1>7. ASSUME NEW c \in Consumers, InsertMilestone(c) PROVE Ordered'
    <2>1. /\ own' = [own EXCEPT ![c] = @ \cup ({at[c]} \ milestones)]
          /\ pc[c] = "insert" /\ pc' = [pc EXCEPT ![c] = "publish"] /\ UNCHANGED <<due, at, marked>>
      BY <1>7 DEF InsertMilestone
    <2>2. at[c] \in due[c] /\ at[c] \in Nat
      BY <1>t, <2>1
    <2>3. \A t \in own'[c] : t <= at[c]
      <3> SUFFICES ASSUME NEW t \in own'[c] PROVE t <= at[c]
        OBVIOUS
      <3>1. t \in own[c] \/ t = at[c]
        BY <1>t, <2>1
      <3>2. t \in own[c] => t \in Nat /\ t < at[c]
        BY <1>t, <2>1, <2>2
      <3> QED BY <2>2, <3>1, <3>2
    <2> QED BY <1>t, <2>1, <2>2, <2>3
  <1>8. ASSUME NEW c \in Consumers, PublishMilestone(c) \/ PublishFails(c) PROVE Ordered'
    <2>1. /\ due' = [due EXCEPT ![c] = @ \ {at[c]}] /\ at' = [at EXCEPT ![c] = 0]
          /\ pc[c] = "publish" /\ pc' = [pc EXCEPT ![c] = "check"] /\ UNCHANGED <<own, marked>>
      BY <1>8 DEF PublishMilestone, PublishFails, NextThreshold
    <2>2. \A t \in own[c], u \in due'[c] : t < u
      <3> SUFFICES ASSUME NEW t \in own[c], NEW u \in due'[c] PROVE t < u
        OBVIOUS
      <3>1. t <= at[c] /\ at[c] <= u /\ u # at[c]
        BY <1>t, <2>1
      <3>2. t \in Nat /\ u \in Nat /\ at[c] \in Nat
        BY <1>t, <2>1
      <3> QED BY <3>1, <3>2
    <2> QED BY <1>t, <2>1, <2>2
  <1>9. ASSUME NEW c \in Consumers, Committed(c) \/ CommitUnknown(c) \/ Fail(c) \/ Crash(c)
        PROVE Ordered'
    <2>1. \E label \in {"ack", "nack", "down"} : pc' = [pc EXCEPT ![c] = label]
      BY <1>9 DEF Committed, CommitUnknown, Fail, AfterFailure, Crash
    <2>2. Forget(c)
      BY <1>9 DEF Committed, CommitUnknown, Commit, Fail, Crash
    <2> QED BY <1>t, <2>1, <2>2
  <1>10. ASSUME NEW c \in Consumers, Ack(c) \/ Nack(c) \/ Restart(c) PROVE Ordered'
    BY <1>10, <1>t DEF Ack, Nack, Answered, Restart
  <1>11. CASE UNCHANGED <<pc, transaction>>
    BY <1>11
  <1>12. ASSUME NEW e \in Events, Arrive(e) PROVE UNCHANGED <<pc, transaction>>
    BY <1>12 DEF Arrive
  <1>13. ASSUME NEW c \in Consumers, CloseChannel(c) PROVE UNCHANGED <<pc, transaction>>
    BY <1>13 DEF CloseChannel
  <1> QED
    BY <1>1, <1>2, <1>3, <1>4, <1>5, <1>6, <1>7, <1>8, <1>9, <1>10, <1>11, <1>12, <1>13
    DEF Next, Proceed, Transact, vars

\* Of finitely many things with a number, one has the greatest.
LEMMA Highest ==
  ASSUME NEW W, IsFiniteSet(W), W # {}, NEW f \in [W -> Nat]
  PROVE  \E c \in W : \A d \in W : ~ (f[c] < f[d])
  <1> DEFINE M(c) == Cardinality({x \in W : f[c] < f[x]})
             T == {M(c) : c \in W}
  <1>1. ASSUME NEW c \in W
        PROVE  IsFiniteSet({x \in W : f[c] < f[x]}) /\ M(c) \in Nat
    BY FS_Subset, FS_CardinalityType
  <1>2. T \in SUBSET Nat /\ T # {}
    BY <1>1
  <1>3. PICK n \in T : \A k \in T : ~ (<<k, n>> \in OpToRel(<, Nat))
    <2> HIDE DEF T
    <2> QED BY <1>2, NatLessThanWellFounded, WFMin
  <1>4. PICK c \in W : n = M(c)
    BY <1>3
  <1>5. ASSUME NEW d \in W, f[c] < f[d] PROVE FALSE
    <2>1. {x \in W : f[d] < f[x]} \in SUBSET {x \in W : f[c] < f[x]}
      BY <1>5
    <2>2. d \in {x \in W : f[c] < f[x]} /\ d \notin {x \in W : f[d] < f[x]}
      BY <1>5
    <2>3. M(d) < M(c)
      <3>1. Cardinality({x \in W : f[d] < f[x]}) \in Nat
            /\ Cardinality({x \in W : f[c] < f[x]}) \in Nat
            /\ IsFiniteSet({x \in W : f[c] < f[x]})
        BY <1>1
      <3>2. Cardinality({x \in W : f[d] < f[x]}) < Cardinality({x \in W : f[c] < f[x]})
        BY <2>1, <2>2, <3>1, FS_Subset
      <3> QED BY <3>2
    <2>4. M(d) \in T /\ M(c) \in T
      OBVIOUS
    <2>5. ~ (M(d) < M(c))
      <3> HIDE DEF M
      <3>1. ~ (<<M(d), M(c)>> \in OpToRel(<, Nat))
        BY <1>3, <1>4, <2>4
      <3> QED BY <1>2, <2>4, <3>1 DEF OpToRel
    <2> QED BY <2>3, <2>5
  <1> QED BY <1>5

LEMMA OrderedRuns == TypeInv /\ Ordered => SomeoneRuns
  <1> SUFFICES ASSUME TypeInv, Ordered, NEW c0 \in Consumers, InTransaction(c0),
                      \A c \in Consumers : InTransaction(c) => Waits(c)
               PROVE  FALSE
    BY DEF SomeoneRuns
  <1> DEFINE W == {c \in Consumers : pc[c] = "insert"}
             f == [c \in W |-> at[c]]
  <1>1. ASSUME NEW c \in W PROVE \E d \in W : at[c] < at[d]
    <2>1. PICK d \in Consumers : at[c] \in own[d]
      BY DEF Waits, InTransaction
    <2>2. pc[d] \in {"check", "insert", "publish"}
      BY <2>1 DEF Ordered
    <2>3. pc[d] = "insert"
      BY <2>2 DEF Waits, InTransaction
    <2>4. at[c] < at[d]
      BY <2>1, <2>3 DEF Ordered
    <2> QED BY <2>3, <2>4
  <1>2. W # {}
    <2>1. CASE pc[c0] = "insert"
      BY <2>1
    <2>2. CASE pc[c0] # "insert"
      <3>1. PICK d \in Consumers : marked[d]
        BY <2>2 DEF Waits
      <3>2. pc[d] \in {"click", "check", "insert", "publish"}
        BY <3>1 DEF Ordered
      <3>3. pc[d] = "insert"
        BY <3>2 DEF Waits, InTransaction
      <3> QED BY <3>3
    <2> QED BY <2>1, <2>2
  <1>3. IsFiniteSet(W)
    BY ParametersOK, FS_Subset
  <1>4. f \in [W -> Nat]
    <2>1. \A c \in Consumers : at[c] \in Nat
      <3>1. Thresholds \cup {0} \subseteq Nat
        BY ParametersOK
      <3>2. \A c \in Consumers : at[c] \in Thresholds \cup {0}
        BY DEF TypeInv, TypeOK
      <3> QED BY <3>1, <3>2
    <2> QED BY <2>1
  <1>5. PICK c \in W : \A d \in W : ~ (f[c] < f[d])
    <2> HIDE DEF W, f
    <2> QED BY <1>2, <1>3, <1>4, Highest
  <1> QED BY <1>1, <1>5

LEMMA OrderedCorrect == Spec => []Ordered
  <1>1. Init => Ordered
    BY DEF Init, Ordered
  <1> QED BY <1>1, OrderedStep, TypeInvCorrect, PTL DEF Spec

\* For any thresholds and any number of replicas, some transaction can always go on.
THEOREM RunsCorrect == Spec => []SomeoneRuns
  <1> QED BY OrderedCorrect, OrderedRuns, TypeInvCorrect, PTL

-----------------------------------------------------------------------------
(* Announcements *)

\* The transactions that went past a threshold they recorded themselves, and those that
\* did not find it recorded and have not gone past it.
Passed(t) == {c \in Consumers : t \in own[c] \ due[c]}
Passing(t) == {c \in Consumers : pc[c] \in {"insert", "publish"} /\ at[c] = t}

\* Until a threshold is recorded, each announcement is one of an open transaction or of
\* one that failed.  Then only those that looked before may add one each.  A threshold
\* that was passed in silence cost a fault or a closed channel.
Announces(t) ==
  /\ t \notin milestones => announced[t] <= Cardinality(Passed(t)) + faults
  /\ t \in milestones => announced[t] + Cardinality(Passing(t)) <= Cardinality(Consumers) + faults
  /\ t \in milestones \/ Passed(t) # {} => announced[t] > 0 \/ faults + drops > 0

\* Faults only add up, and what they allowed is allowed.
LEMMA Grown ==
  ASSUME NEW f \in Nat, NEW g \in Nat, f <= g, NEW d \in Nat, NEW e \in Nat, d <= e
  PROVE  /\ f + d > 0 => g + e > 0
         /\ \A n, m \in Nat : n <= m + f => n <= m + g
  <1> QED OBVIOUS

\* A channel that is closed was closed by something, and a threshold is published only
\* when its row is there.
Founded ==
  \A c \in Consumers :
    /\ ~ subscribed[c] => faults + drops > 0
    /\ pc[c] = "publish" => at[c] \in own[c] \cup milestones

AnnounceInv == Founded /\ \A t \in Thresholds : Announces(t)

LEMMA FoundedStep == TypeInv /\ Founded /\ [Next]_vars => Founded'
  <1> SUFFICES ASSUME TypeInv, Founded, [Next]_vars PROVE Founded'
    OBVIOUS
  <1>t. /\ pc \in [Consumers -> Labels] /\ own \in [Consumers -> SUBSET Thresholds]
        /\ at \in [Consumers -> Thresholds \cup {0}] /\ subscribed \in [Consumers -> BOOLEAN]
        /\ due \in [Consumers -> SUBSET Thresholds] /\ faults \in Nat /\ drops \in Nat
    BY DEF TypeInv, TypeOK
  <1> USE DEF Founded, Goto
  <1>1. ASSUME NEW e \in Events, Arrive(e) PROVE Founded'
    BY <1>1 DEF Arrive
  <1>2. ASSUME NEW c \in Consumers, NEW e \in Events, Deliver(c, e) PROVE Founded'
    BY <1>2, <1>t DEF Deliver
  <1>3. ASSUME NEW c \in Consumers, Discard(c) \/ Exists(c) \/ InsertProcessed(c) \/ InsertClick(c)
        PROVE Founded'
    BY <1>3, <1>t DEF Discard, Exists, InsertProcessed, InsertClick
  <1>4. ASSUME NEW c \in Consumers, NEW t \in Thresholds, HasMilestone(c, t) \/ NoMilestone(c, t)
        PROVE Founded'
    BY <1>4, <1>t DEF HasMilestone, NoMilestone
  <1>5. ASSUME NEW c \in Consumers, InsertMilestone(c) PROVE Founded'
    BY <1>5, <1>t DEF InsertMilestone
  <1>6. ASSUME NEW c \in Consumers, PublishMilestone(c) \/ PublishFails(c) PROVE Founded'
    BY <1>6, <1>t DEF PublishMilestone, PublishFails, NextThreshold, Fault
  <1>7. ASSUME NEW c \in Consumers, Committed(c) \/ CommitUnknown(c) PROVE Founded'
    <2>1. /\ \E label \in {"ack", "nack"} : pc' = [pc EXCEPT ![c] = label]
          /\ subscribed' = subscribed /\ faults <= faults' /\ drops <= drops' /\ drops' \in Nat
          /\ own' = [own EXCEPT ![c] = {}] /\ at' = [at EXCEPT ![c] = 0]
          /\ milestones \subseteq milestones' /\ faults' \in Nat
      BY <1>7, <1>t DEF Committed, CommitUnknown, Commit, Forget, Fault
    <2>2. faults + drops > 0 => faults' + drops' > 0
      BY <1>t, <2>1, Grown
    <2>3. \A d \in Consumers : pc'[d] = "publish" =>
             pc[d] = "publish" /\ at'[d] = at[d] /\ own'[d] = own[d]
      BY <1>t, <2>1
    <2> QED BY <2>1, <2>2, <2>3
  <1>8. ASSUME NEW c \in Consumers, Fail(c) PROVE Founded'
    BY <1>8, <1>t DEF Fail, AfterFailure, Forget, Fault
  <1>9. ASSUME NEW c \in Consumers, Ack(c) \/ Nack(c) \/ Restart(c) PROVE Founded'
    BY <1>9, <1>t DEF Ack, Nack, Answered, Restart
  <1>10. ASSUME NEW c \in Consumers, CloseChannel(c) PROVE Founded'
    BY <1>10, <1>t DEF CloseChannel
  <1>11. ASSUME NEW c \in Consumers, Crash(c) PROVE Founded'
    BY <1>11, <1>t DEF Crash, Forget, Fault
  <1>12. CASE UNCHANGED vars
    BY <1>12 DEF vars
  <1> QED
    BY <1>1, <1>2, <1>3, <1>4, <1>5, <1>6, <1>7, <1>8, <1>9, <1>10, <1>11, <1>12
    DEF Next, Proceed, Transact

\* Nobody has gone past a threshold that it is still working on.
LEMMA PassedOrPassing ==
  ASSUME TypeInv, NEW t \in Thresholds
  PROVE  /\ Cardinality(Passed(t)) \in Nat /\ Cardinality(Passing(t)) \in Nat
         /\ Cardinality(Consumers) \in Nat
         /\ Cardinality(Passed(t)) + Cardinality(Passing(t)) <= Cardinality(Consumers)
  <1>1. /\ Passed(t) \in SUBSET Consumers /\ Passing(t) \in SUBSET Consumers
        /\ Passed(t) \cap Passing(t) = {}
    BY DEF Passed, Passing, TypeInv, Held
  <1>2. IsFiniteSet(Passed(t)) /\ IsFiniteSet(Passing(t)) /\ IsFiniteSet(Consumers)
    BY <1>1, FS_Subset, ParametersOK
  <1>3. /\ Cardinality(Passed(t)) \in Nat /\ Cardinality(Passing(t)) \in Nat
        /\ Cardinality(Consumers) \in Nat
    BY <1>2, FS_CardinalityType
  <1>4. Cardinality(Passed(t) \cup Passing(t)) = Cardinality(Passed(t)) + Cardinality(Passing(t))
    <2>1. Cardinality(Passed(t) \cup Passing(t))
            = Cardinality(Passed(t)) + Cardinality(Passing(t)) - Cardinality(Passed(t) \cap Passing(t))
      BY <1>2, FS_Union
    <2>2. Cardinality(Passed(t) \cap Passing(t)) = 0
      BY <1>1, FS_EmptySet
    <2> QED BY <1>3, <2>1, <2>2
  <1>5. Cardinality(Passed(t) \cup Passing(t)) <= Cardinality(Consumers)
    <2>1. Passed(t) \cup Passing(t) \in SUBSET Consumers
      BY <1>1
    <2> QED BY <1>2, <2>1, FS_Subset
  <1> QED BY <1>3, <1>4, <1>5

\* One consumer moves.
LEMMA PassersMove ==
  ASSUME NEW c \in Consumers, NEW t \in Thresholds,
         \A d \in Consumers \ {c} :
            pc'[d] = pc[d] /\ at'[d] = at[d] /\ own'[d] = own[d] /\ due'[d] = due[d]
  PROVE  /\ Cardinality(Passed(t)) \in Nat /\ Cardinality(Passed(t)') \in Nat
         /\ Cardinality(Passing(t)) \in Nat /\ Cardinality(Passing(t)') \in Nat
         /\ Cardinality(Passed(t)') + One(c \in Passed(t)) = Cardinality(Passed(t)) + One(c \in Passed(t)')
         /\ Cardinality(Passing(t)') + One(c \in Passing(t))
              = Cardinality(Passing(t)) + One(c \in Passing(t)')
         /\ \A d \in Consumers \ {c} : d \in Passed(t)' <=> d \in Passed(t)
  <1>1. Passed(t) \ {c} = Passed(t)' \ {c} /\ Passing(t) \ {c} = Passing(t)' \ {c}
    BY DEF Passed, Passing
  <1>2. /\ Passed(t) \in SUBSET Consumers /\ Passed(t)' \in SUBSET Consumers
        /\ Passing(t) \in SUBSET Consumers /\ Passing(t)' \in SUBSET Consumers
    BY DEF Passed, Passing
  <1> QED BY <1>1, <1>2, Differ

\* A step that records and announces nothing and costs what it costs.
LEMMA AnnounceQuiet ==
  ASSUME TypeInv, NEW t \in Thresholds, Announces(t), UNCHANGED <<milestones, announced>>,
         faults' \in Nat, drops' \in Nat, faults <= faults', drops <= drops',
         UNCHANGED <<Passed(t), Passing(t)>>
  PROVE  Announces(t)'
  <1>1. faults \in Nat /\ drops \in Nat /\ announced[t] \in Nat
    BY DEF TypeInv, TypeOK
  <1>2. /\ Cardinality(Passed(t)) \in Nat /\ Cardinality(Consumers) \in Nat
        /\ announced[t] + Cardinality(Passing(t)) \in Nat
    BY <1>1, PassedOrPassing
  <1>3. /\ t \notin milestones => announced[t] <= Cardinality(Passed(t)) + faults'
        /\ t \in milestones =>
             announced[t] + Cardinality(Passing(t)) <= Cardinality(Consumers) + faults'
        /\ t \in milestones \/ Passed(t) # {} => announced[t] > 0 \/ faults' + drops' > 0
    BY <1>1, <1>2, Grown DEF Announces
  <1> QED BY <1>3 DEF Announces

\* A transaction that fails takes its announcements with it, for one fault.
LEMMA AnnounceFailed ==
  ASSUME TypeInv, NEW t \in Thresholds, Announces(t), NEW c \in Consumers, Fail(c) \/ Crash(c)
  PROVE  Announces(t)'
  <1>1. /\ \A d \in Consumers \ {c} :
              pc'[d] = pc[d] /\ at'[d] = at[d] /\ own'[d] = own[d] /\ due'[d] = due[d]
        /\ c \notin Passed(t)' /\ c \notin Passing(t)'
    BY DEF Fail, Crash, Forget, AfterFailure, Goto, Passed, Passing, TypeInv, TypeOK
  <1>2. UNCHANGED <<milestones, announced, drops>> /\ faults' = faults + 1
    BY DEF Fail, Crash, Fault
  <1>3. faults \in Nat /\ drops \in Nat /\ announced[t] \in Nat
    BY DEF TypeInv, TypeOK
  <1>4. One(c \in Passed(t)) \in {0, 1} /\ One(c \in Passing(t)) \in {0, 1}
        /\ One(c \in Passed(t)') = 0 /\ One(c \in Passing(t)') = 0
    BY <1>1 DEF One
  <1> QED BY <1>1, <1>2, <1>3, <1>4, PassersMove, PassedOrPassing DEF Announces

\* Going past a threshold, with an announcement or without.
LEMMA AnnouncePassed ==
  ASSUME TypeInv, Founded, NEW t \in Thresholds, Announces(t), NEW c \in Consumers,
         PublishMilestone(c) \/ PublishFails(c)
  PROVE  Announces(t)'
  <1>t. /\ faults \in Nat /\ drops \in Nat /\ announced \in [Thresholds -> Nat]
        /\ due \in [Consumers -> SUBSET Thresholds] /\ at \in [Consumers -> Thresholds \cup {0}]
        /\ own \in [Consumers -> SUBSET Thresholds] /\ pc \in [Consumers -> Labels]
        /\ t # 0
    BY ParametersOK DEF TypeInv, TypeOK
  <1>1. /\ pc[c] = "publish" /\ pc' = [pc EXCEPT ![c] = "check"]
        /\ due' = [due EXCEPT ![c] = @ \ {at[c]}] /\ at' = [at EXCEPT ![c] = 0]
        /\ UNCHANGED <<own, milestones>>
    BY DEF PublishMilestone, PublishFails, NextThreshold, Goto
  <1>2. at[c] \in due[c] /\ at[c] \in own[c] \cup milestones
    BY <1>1 DEF Founded, TypeInv, Held
  <1>3. /\ \A d \in Consumers \ {c} :
              pc'[d] = pc[d] /\ at'[d] = at[d] /\ own'[d] = own[d] /\ due'[d] = due[d]
    BY <1>1, <1>t
  <1>4. CASE at[c] # t
    <2>1. UNCHANGED <<Passed(t), Passing(t)>>
      BY <1>1, <1>4, <1>t DEF Passed, Passing
    <2>2. announced'[t] = announced[t]
      BY <1>4, <1>t DEF PublishMilestone, PublishFails
    <2>3. faults' \in Nat /\ drops' \in Nat /\ faults <= faults' /\ drops <= drops'
      BY <1>t DEF PublishMilestone, PublishFails, Fault
    <2>4. /\ Cardinality(Passed(t)) \in Nat /\ Cardinality(Consumers) \in Nat
          /\ announced[t] \in Nat /\ announced[t] + Cardinality(Passing(t)) \in Nat
      BY <1>t, PassedOrPassing
    <2>5. /\ t \notin milestones => announced[t] <= Cardinality(Passed(t)) + faults'
          /\ t \in milestones =>
               announced[t] + Cardinality(Passing(t)) <= Cardinality(Consumers) + faults'
          /\ t \in milestones \/ Passed(t) # {} => announced[t] > 0 \/ faults' + drops' > 0
      BY <1>t, <2>3, <2>4, Grown DEF Announces
    <2> QED BY <1>1, <2>1, <2>2, <2>5 DEF Announces
  <1>5. CASE at[c] = t
    <2>1. /\ One(c \in Passed(t)) = 0 /\ One(c \in Passing(t)) = 1 /\ One(c \in Passing(t)') = 0
          /\ One(c \in Passed(t)') \in {0, 1}
          /\ t \notin milestones => One(c \in Passed(t)') = 1
      BY <1>1, <1>2, <1>5, <1>t DEF One, Passed, Passing
    <2>2. \/ announced'[t] = announced[t] + 1 /\ UNCHANGED <<faults, drops>>
          \/ announced'[t] = announced[t] /\ faults' + drops' > 0
             /\ faults' \in Nat /\ faults <= faults' /\ drops' = drops
      BY <1>5, <1>t DEF PublishMilestone, PublishFails, Fault, Founded
    <2>3. announced[t] \in Nat /\ announced'[t] \in Nat
      BY <1>t, <2>2
    <2> QED BY <1>1, <1>3, <1>t, <2>1, <2>2, <2>3, PassersMove, PassedOrPassing DEF Announces
  <1> QED BY <1>4, <1>5

\* COMMIT records what its transaction went past; the others that went past it, or may
\* yet announce it, are other replicas.
LEMMA AnnounceCommitted ==
  ASSUME TypeInv, Ordered, NEW t \in Thresholds, Announces(t), NEW c \in Consumers,
         Committed(c) \/ CommitUnknown(c)
  PROVE  Announces(t)'
  <1>t. /\ faults \in Nat /\ drops \in Nat /\ announced[t] \in Nat
        /\ due \in [Consumers -> SUBSET Thresholds] /\ at \in [Consumers -> Thresholds \cup {0}]
        /\ own \in [Consumers -> SUBSET Thresholds] /\ pc \in [Consumers -> Labels]
    BY DEF TypeInv, TypeOK
  <1>1. /\ pc[c] = "check" /\ due[c] = {} /\ milestones' = milestones \cup own[c]
        /\ own' = [own EXCEPT ![c] = {}] /\ due' = [due EXCEPT ![c] = {}]
        /\ at' = [at EXCEPT ![c] = 0] /\ UNCHANGED announced
    BY DEF Committed, CommitUnknown, Commit, Forget
  <1>2. \E label \in {"ack", "nack"} : pc' = [pc EXCEPT ![c] = label]
    BY DEF Committed, CommitUnknown, Goto
  <1>3. faults' \in Nat /\ faults <= faults' /\ drops' \in Nat /\ drops <= drops'
    BY <1>t DEF Committed, CommitUnknown, Fault
  <1>4. UNCHANGED Passing(t)
    BY <1>1, <1>2, <1>t DEF Passing
  <1>5. c \in Passed(t) <=> t \in own[c]
    BY <1>1 DEF Passed
  <1>6. CASE t \in own[c]
    <2>1. t \in milestones'
      BY <1>1, <1>6
    <2>2. announced[t] + Cardinality(Passing(t)) <= Cardinality(Consumers) + faults
      BY <1>t, PassedOrPassing DEF Announces
    <2>3. announced[t] > 0 \/ faults + drops > 0
      BY <1>5, <1>6 DEF Announces
    <2>4. announced[t] + Cardinality(Passing(t)) \in Nat /\ Cardinality(Consumers) \in Nat
      BY <1>t, PassedOrPassing
    <2>5. /\ announced[t] + Cardinality(Passing(t)) <= Cardinality(Consumers) + faults'
          /\ announced[t] > 0 \/ faults' + drops' > 0
      BY <1>3, <1>t, <2>2, <2>3, <2>4, Grown
    <2> QED BY <1>1, <1>4, <2>1, <2>5 DEF Announces
  <1>7. CASE t \notin own[c]
    <2>1. UNCHANGED Passed(t)
      BY <1>1, <1>7, <1>t DEF Passed
    <2>2. t \in milestones' <=> t \in milestones
      BY <1>1, <1>7
    <2>3. /\ Cardinality(Passed(t)) \in Nat /\ Cardinality(Consumers) \in Nat
          /\ announced[t] + Cardinality(Passing(t)) \in Nat
      BY <1>t, PassedOrPassing
    <2>4. /\ t \notin milestones => announced[t] <= Cardinality(Passed(t)) + faults'
          /\ t \in milestones =>
               announced[t] + Cardinality(Passing(t)) <= Cardinality(Consumers) + faults'
          /\ t \in milestones \/ Passed(t) # {} => announced[t] > 0 \/ faults' + drops' > 0
      BY <1>3, <1>t, <2>3, Grown DEF Announces
    <2> QED BY <1>1, <1>4, <2>1, <2>2, <2>4 DEF Announces
  <1> QED BY <1>6, <1>7

\* Looking for a threshold, or recording it, announces nothing.
LEMMA AnnounceLooked ==
  ASSUME TypeInv, Ordered, NEW t \in Thresholds, Announces(t), NEW c \in Consumers,
         \/ InsertClick(c) \/ InsertMilestone(c)
         \/ \E u \in Thresholds : HasMilestone(c, u) \/ NoMilestone(c, u)
  PROVE  Announces(t)'
  <1>t. /\ faults \in Nat /\ drops \in Nat /\ announced[t] \in Nat
        /\ due \in [Consumers -> SUBSET Thresholds] /\ at \in [Consumers -> Thresholds \cup {0}]
        /\ own \in [Consumers -> SUBSET Thresholds] /\ pc \in [Consumers -> Labels]
    BY DEF TypeInv, TypeOK
  <1>1. UNCHANGED <<milestones, announced, faults, drops>>
    BY DEF InsertClick, InsertMilestone, HasMilestone, NoMilestone
  <1>2. CASE InsertClick(c)
    <2>1. own[c] = {} /\ pc[c] = "click" /\ pc' = [pc EXCEPT ![c] = "check"]
          /\ due' = [due EXCEPT ![c] = Reached] /\ UNCHANGED <<own, at>>
      BY <1>2 DEF InsertClick, Goto, Ordered
    <2>2. UNCHANGED <<Passed(t), Passing(t)>>
      BY <1>t, <2>1 DEF Passed, Passing
    <2> QED BY <1>1, <1>t, <2>2, AnnounceQuiet
  <1>3. CASE InsertMilestone(c)
    <2>1. /\ pc[c] = "insert" /\ pc' = [pc EXCEPT ![c] = "publish"] /\ at[c] \in due[c]
          /\ own' = [own EXCEPT ![c] = @ \cup ({at[c]} \ milestones)] /\ UNCHANGED <<due, at>>
      BY <1>3 DEF InsertMilestone, Goto, TypeInv, Held
    <2>2. UNCHANGED <<Passed(t), Passing(t)>>
      BY <1>t, <2>1 DEF Passed, Passing
    <2> QED BY <1>1, <1>t, <2>2, AnnounceQuiet
  <1>4. ASSUME NEW u \in Thresholds, HasMilestone(c, u) PROVE Announces(t)'
    <2>1. /\ pc' = pc /\ u \in milestones /\ due' = [due EXCEPT ![c] = @ \ {u}]
          /\ UNCHANGED <<own, at>>
      BY <1>4 DEF HasMilestone, Recorded
    <2>2. UNCHANGED Passing(t)
      BY <2>1 DEF Passing
    <2>3. t # u => UNCHANGED Passed(t)
      BY <1>t, <2>1 DEF Passed
    <2>4. CASE t = u
      BY <1>1, <1>t, <2>1, <2>2, <2>4 DEF Announces
    <2> QED BY <1>1, <1>t, <2>2, <2>3, <2>4, AnnounceQuiet
  <1>5. ASSUME NEW u \in Thresholds, NoMilestone(c, u) PROVE Announces(t)'
    <2>1. /\ pc[c] = "check" /\ pc' = [pc EXCEPT ![c] = "insert"] /\ u \notin milestones
          /\ at' = [at EXCEPT ![c] = u] /\ UNCHANGED <<own, due>>
      BY <1>5 DEF NoMilestone, Recorded, Goto
    <2>2. UNCHANGED Passed(t)
      BY <2>1 DEF Passed
    <2>3. t # u => UNCHANGED Passing(t)
      BY <1>t, <2>1 DEF Passing
    <2>4. CASE t = u
      BY <1>1, <1>t, <2>1, <2>2, <2>4 DEF Announces
    <2> QED BY <1>1, <1>t, <2>2, <2>3, <2>4, AnnounceQuiet
  <1> QED BY <1>2, <1>3, <1>4, <1>5

LEMMA AnnounceStep == TypeInv /\ Ordered /\ AnnounceInv /\ [Next]_vars => AnnounceInv'
  <1> SUFFICES ASSUME TypeInv, Ordered, Founded, [Next]_vars, NEW t \in Thresholds, Announces(t)
               PROVE  Announces(t)'
    BY FoundedStep DEF AnnounceInv
  <1>t. faults \in Nat /\ drops \in Nat /\ pc \in [Consumers -> Labels]
    BY DEF TypeInv, TypeOK
  <1>1. ASSUME NEW c \in Consumers,
               \/ Deliver(c, holding'[c]) \/ Discard(c) \/ Exists(c) \/ InsertProcessed(c)
               \/ Ack(c) \/ Nack(c) \/ Restart(c)
        PROVE  Announces(t)'
    <2>1. UNCHANGED <<milestones, announced, faults, drops, own, due, at>>
      BY <1>1 DEF Deliver, Discard, Exists, InsertProcessed, Ack, Nack, Answered, Restart
    <2>2. /\ pc[c] \notin {"insert", "publish"}
          /\ \E label \in Labels \ {"insert", "publish"} : pc' = [pc EXCEPT ![c] = label]
      BY <1>1 DEF Deliver, Discard, Exists, InsertProcessed, Ack, Nack, Answered, Restart,
                  Goto, Labels
    <2>3. UNCHANGED <<Passed(t), Passing(t)>>
      BY <1>t, <2>1, <2>2 DEF Passed, Passing
    <2> QED BY <1>t, <2>1, <2>3, AnnounceQuiet
  <1>2. ASSUME NEW c \in Consumers, NEW e \in Events, Deliver(c, e) PROVE holding'[c] = e
    BY <1>2 DEF Deliver, TypeInv, TypeOK
  <1>3. CASE /\ UNCHANGED <<milestones, announced, pc, own, due, at, faults>>
             /\ drops' \in Nat /\ drops <= drops'
    <2>1. UNCHANGED <<Passed(t), Passing(t)>>
      BY <1>3 DEF Passed, Passing
    <2> QED BY <1>3, <1>t, <2>1, AnnounceQuiet
  <1>4. ASSUME NEW c \in Consumers, CloseChannel(c) PROVE Announces(t)'
    BY <1>3, <1>4, <1>t DEF CloseChannel
  <1>5. ASSUME NEW e \in Events, Arrive(e) PROVE Announces(t)'
    BY <1>3, <1>5, <1>t DEF Arrive
  <1>6. CASE UNCHANGED vars
    BY <1>3, <1>6, <1>t DEF vars
  <1> QED
    BY <1>1, <1>2, <1>4, <1>5, <1>6, AnnounceFailed, AnnouncePassed, AnnounceCommitted,
       AnnounceLooked
    DEF Next, Proceed, Transact

LEMMA AnnounceInit == Init => AnnounceInv
  <1> SUFFICES ASSUME Init PROVE AnnounceInv
    OBVIOUS
  <1>1. Founded
    BY DEF Init, Founded
  <1> SUFFICES ASSUME NEW t \in Thresholds PROVE Announces(t)
    BY <1>1 DEF AnnounceInv
  <1>2. Passed(t) = {} /\ Passing(t) = {}
    BY DEF Init, Passed, Passing
  <1> QED BY <1>2, FS_EmptySet DEF Init, Announces

LEMMA AnnounceCosts == TypeInv /\ AnnounceInv => AnnouncementsCostFaults
  <1> SUFFICES ASSUME TypeInv, AnnounceInv, NEW t \in Thresholds
               PROVE  /\ announced[t] <= Cardinality(Consumers) + faults
                      /\ t \in milestones /\ announced[t] = 0 => faults + drops > 0
    BY DEF AnnouncementsCostFaults
  <1>1. announced[t] \in Nat /\ faults \in Nat /\ Announces(t)
    BY DEF TypeInv, TypeOK, AnnounceInv
  <1> QED BY <1>1, PassedOrPassing DEF Announces

\* For any number of replicas, thresholds, failures and crashes: a milestone is announced
\* at most as often as there are replicas and once more for each fault, and recorded in silence
\* only when something failed.
THEOREM AnnouncementsCorrect == Spec => []AnnouncementsCostFaults
  <1> QED
    BY AnnounceInit, AnnounceCosts, AnnounceStep, OrderedCorrect, TypeInvCorrect, PTL DEF Spec

-----------------------------------------------------------------------------
(* A single consumer implements ClickCount *)

\* What is in the queue, or worked on, has arrived.
HasArrived ==
  /\ \A e \in Events : queue[e] > 0 => arrived[e] > 0
  /\ \A c \in Consumers :
      /\ unacked[c] # Nothing => arrived[unacked[c]] > 0
      /\ pc[c] \in {"received"} \cup Counting => arrived[holding[c]] > 0

LEMMA ArrivedStep == TypeInv /\ Owed /\ HasArrived /\ [Next]_vars => HasArrived'
  <1> SUFFICES ASSUME TypeInv, Owed, HasArrived, [Next]_vars PROVE HasArrived'
    OBVIOUS
  <1>t. /\ arrived \in [Events -> Nat] /\ queue \in [Events -> Nat]
        /\ unacked \in [Consumers -> Events \cup {Nothing}]
        /\ holding \in [Consumers -> Events \cup {Nothing}]
        /\ pc \in [Consumers -> Labels] /\ Nothing \notin Events
        /\ \A c \in Consumers : pc[c] \in {"received"} \cup Counting => holding[c] \in Events
    BY ParametersOK DEF TypeInv, TypeOK, Held, Valid
  <1> USE DEF HasArrived, Counting, Goto
  <1>1. ASSUME NEW e \in Events, Arrive(e) PROVE HasArrived'
    <2>1. /\ \A x \in Events : arrived[x] > 0 => arrived'[x] > 0
          /\ \A x \in Events : queue'[x] > 0 => queue[x] > 0 \/ x = e
          /\ arrived'[e] > 0
      BY <1>1, <1>t DEF Arrive
    <2> QED BY <1>1, <1>t, <2>1 DEF Arrive
  <1>2. ASSUME NEW c \in Consumers, NEW e \in Events, Deliver(c, e) PROVE HasArrived'
    <2>1. \A x \in Events : queue'[x] > 0 => queue[x] > 0
      BY <1>2, <1>t DEF Deliver
    <2>2. arrived[e] > 0
      BY <1>2 DEF Deliver
    <2> QED BY <1>2, <1>t, <2>1, <2>2 DEF Deliver
  <1>3. ASSUME NEW c \in Consumers, Requeue(c), UNCHANGED arrived,
               holding' = holding \/ holding' = [holding EXCEPT ![c] = Nothing],
               pc' = pc \/ (\E label \in {"idle", "down"} : pc' = [pc EXCEPT ![c] = label]),
               holding' = holding \/ pc'[c] \in {"idle", "down"}
        PROVE HasArrived'
    <2>1. \A x \in Events : queue'[x] > 0 => queue[x] > 0 \/ unacked[c] = x
      BY <1>3, <1>t DEF Requeue
    <2>2. \A d \in Consumers : unacked'[d] # Nothing => unacked'[d] = unacked[d]
      BY <1>3, <1>t DEF Requeue
    <2>3. \A d \in Consumers : pc'[d] \in {"received"} \cup Counting =>
             pc'[d] = pc[d] /\ holding'[d] = holding[d]
      BY <1>3, <1>t
    <2> QED BY <1>3, <1>t, <2>1, <2>2, <2>3
  <1>4. ASSUME NEW c \in Consumers, Nack(c) \/ CloseChannel(c) PROVE HasArrived'
    <2>1. Requeue(c) /\ UNCHANGED arrived
      BY <1>4 DEF Nack, Answered, CloseChannel
    <2>2. \/ UNCHANGED <<pc, holding>>
          \/ pc' = [pc EXCEPT ![c] = "idle"] /\ holding' = [holding EXCEPT ![c] = Nothing]
      BY <1>4 DEF Nack, Answered, CloseChannel
    <2>3. holding' = holding \/ pc'[c] \in {"idle", "down"}
      BY <1>t, <2>2
    <2> QED BY <1>3, <2>1, <2>2, <2>3
  <1>5. ASSUME NEW c \in Consumers, Crash(c) PROVE HasArrived'
    <2>1. Requeue(c) /\ UNCHANGED arrived /\ pc' = [pc EXCEPT ![c] = "down"]
            /\ holding' = [holding EXCEPT ![c] = Nothing]
      BY <1>5 DEF Crash
    <2>2. pc'[c] \in {"idle", "down"}
      BY <1>t, <2>1
    <2> QED BY <1>3, <2>1, <2>2
  <1>6. ASSUME NEW c \in Consumers, Ack(c) \/ Restart(c) PROVE HasArrived'
    BY <1>6, <1>t DEF Ack, Answered, Restart
  <1>7. ASSUME NEW c \in Consumers, Discard(c) \/ Transact(c) PROVE HasArrived'
    <2>1. UNCHANGED <<arrived, queue, unacked, holding>>
      BY <1>7 DEF Discard, Transact, Exists, InsertProcessed, InsertClick, HasMilestone,
        NoMilestone, InsertMilestone, PublishMilestone, PublishFails, NextThreshold,
        Committed, CommitUnknown, Commit, Fail
    <2>2. pc[c] \in {"received"} \cup Counting
      BY <1>7 DEF Discard, Transact, Exists, InsertProcessed, InsertClick, HasMilestone,
        NoMilestone, InsertMilestone, PublishMilestone, PublishFails,
        Committed, CommitUnknown, Commit, Fail
    <2>3. \A d \in Consumers \ {c} : pc'[d] = pc[d]
      BY <1>7, <1>t DEF Discard, Transact, Exists, InsertProcessed, InsertClick, HasMilestone,
        NoMilestone, InsertMilestone, PublishMilestone, PublishFails, NextThreshold,
        Committed, CommitUnknown, Commit, Fail
    <2> QED BY <1>t, <2>1, <2>2, <2>3
  <1>8. CASE UNCHANGED vars
    BY <1>8 DEF vars
  <1> QED BY <1>1, <1>2, <1>4, <1>5, <1>6, <1>7, <1>8 DEF Next, Proceed

\* The transaction of the only replica counts a new event, and the thresholds its click
\* reaches are recorded, about to be, or still to be looked at.
Exact ==
  /\ milestones = {t \in Thresholds : t <= Len(clicks)}
  /\ \A c \in Consumers :
      /\ pc[c] \in Counting => holding[c] \notin processed
      /\ pc[c] \in {"check", "insert", "publish"} => due[c] \cup own[c] \cup milestones = Reached
      /\ pc[c] = "publish" => at[c] \in own[c] \cup milestones

LEMMA ExactStep ==
  ASSUME NEW c, Consumers = {c}, TypeInv, Ordered, Exact, [Next]_vars
  PROVE  Exact'
  <1>t. /\ due \in [Consumers -> SUBSET Thresholds] /\ own \in [Consumers -> SUBSET Thresholds]
        /\ at \in [Consumers -> Thresholds \cup {0}] /\ pc \in [Consumers -> Labels]
        /\ Thresholds \subseteq Nat /\ Len(clicks) \in Nat
    BY ParametersOK DEF TypeInv, TypeOK
  <1> USE DEF Exact, Goto, Counting
  <1>1. CASE Committed(c) \/ CommitUnknown(c)
    <2>1. /\ Len(clicks') = Len(clicks) + 1 /\ milestones' = milestones \cup own[c]
          /\ pc[c] = "check" /\ due[c] = {}
      BY <1>1 DEF Committed, CommitUnknown, Commit, TypeInv, TypeOK, Held
    <2>2. milestones' = {t \in Thresholds : t <= Len(clicks')}
      BY <1>t, <2>1 DEF Reached
    <2>3. pc'[c] \in {"ack", "nack"}
      BY <1>1, <1>t DEF Committed, CommitUnknown
    <2> QED BY <2>2, <2>3
  <1>2. CASE UNCHANGED tables /\ pc'[c] \notin Counting
    BY <1>2
  <1>3. CASE Discard(c) \/ Fail(c) \/ Ack(c) \/ Nack(c) \/ Crash(c) \/ Restart(c)
               \/ \E e \in Events : Deliver(c, e)
    BY <1>2, <1>3, <1>t
    DEF Discard, Fail, AfterFailure, Ack, Nack, Answered, Crash, Restart, Deliver
  <1>4. CASE Exists(c)
    BY <1>4, <1>t DEF Exists, Seen
  <1>5. CASE InsertProcessed(c)
    BY <1>5, <1>t DEF InsertProcessed
  <1>6. CASE InsertClick(c)
    <2>1. own[c] = {}
      BY <1>6 DEF InsertClick, Ordered
    <2>2. /\ due' = [due EXCEPT ![c] = Reached] /\ UNCHANGED <<own, at, tables, holding>>
          /\ pc[c] = "click" /\ pc' = [pc EXCEPT ![c] = "check"]
      BY <1>6 DEF InsertClick
    <2>3. milestones \subseteq Reached /\ Reached \subseteq Thresholds /\ Reached' = Reached
      <3>1. \A t \in Thresholds : t <= Len(clicks) => t <= Len(clicks) + 1
        BY <1>t
      <3> QED BY <2>2, <3>1 DEF Reached
    <2>4. due'[c] \cup own'[c] \cup milestones' = Reached'
      BY <1>t, <2>1, <2>2, <2>3
    <2>5. pc'[c] = "check" /\ UNCHANGED <<clicks, milestones, holding, processed>>
      BY <1>t, <2>2
    <2> QED BY <2>2, <2>4, <2>5
  <1>7. ASSUME NEW t \in Thresholds, HasMilestone(c, t) PROVE Exact'
    BY <1>7, <1>t DEF HasMilestone, Recorded, Reached
  <1>8. ASSUME NEW t \in Thresholds, NoMilestone(c, t) PROVE Exact'
    BY <1>8, <1>t DEF NoMilestone, Reached
  <1>9. CASE InsertMilestone(c)
    <2>1. at[c] \in due[c]
      BY <1>9 DEF InsertMilestone, TypeInv, Held
    <2> QED BY <1>9, <1>t, <2>1 DEF InsertMilestone, Reached
  <1>10. CASE PublishMilestone(c) \/ PublishFails(c)
    <2>1. /\ due' = [due EXCEPT ![c] = @ \ {at[c]}] /\ UNCHANGED <<own, tables, holding>>
          /\ pc[c] = "publish" /\ pc' = [pc EXCEPT ![c] = "check"]
      BY <1>10 DEF PublishMilestone, PublishFails, NextThreshold
    <2> QED BY <1>t, <2>1 DEF Reached
  <1>11. CASE UNCHANGED <<pc, holding, transaction, tables>>
    BY <1>11 DEF Reached
  <1>12. CASE CloseChannel(c) \/ \E e \in Events : Arrive(e)
    BY <1>11, <1>12 DEF CloseChannel, Arrive
  <1> QED BY <1>1, <1>3, <1>4, <1>5, <1>6, <1>7, <1>8, <1>9, <1>10, <1>11, <1>12
          DEF Next, Proceed, Transact, vars

LEMMA ExactInit == Init => Exact
  <1> SUFFICES ASSUME Init PROVE Exact
    OBVIOUS
  <1>1. \A t \in Thresholds : ~ (t <= Len(clicks))
    BY ParametersOK DEF Init
  <1> QED BY <1>1 DEF Init, Exact, Counting

LEMMA ExactCorrect == ASSUME NEW c, Consumers = {c} PROVE Spec => []Exact
  <1>1. TypeInv /\ Ordered /\ Exact /\ [Next]_vars => Exact'
    BY ExactStep
  <1> QED BY <1>1, ExactInit, TypeInvCorrect, OrderedCorrect, PTL DEF Spec

LEMMA CountedIsProcessed ==
  TypeOK /\ ProcessedIsCounted => \A e \in Valid : e \in Counter!Counted <=> e \in processed
  <1> SUFFICES ASSUME TypeOK, ProcessedIsCounted, NEW e \in Valid
               PROVE  e \in Counter!Counted <=> e \in processed
    OBVIOUS
  <1>1. e \in Events
    BY DEF Valid
  <1> QED BY <1>1 DEF ProcessedIsCounted, Rows, Counter!Counted

\* A step of the only replica is one of ClickCount, or none.
LEMMA CountSimulation ==
  ASSUME NEW c, Consumers = {c},
         TypeInv, Exact, Exact', HasArrived, ProcessedIsCounted, [Next]_vars
  PROVE  [Counter!Next]_(Counter!vars)
  <1>1. ASSUME NEW e \in Events, Arrive(e) PROVE [Counter!Next]_(Counter!vars)
    <2>1. /\ arrived' = [arrived EXCEPT ![e] = @ + 1] /\ arrived \in [Events -> Nat]
          /\ UNCHANGED tables
      BY <1>1 DEF Arrive, TypeInv, TypeOK
    <2>2. \A x \in Valid : arrived'[x] > 0 <=> arrived[x] > 0 \/ x = e
      BY <2>1 DEF Valid
    <2>3. CASE e \in Valid /\ arrived[e] = 0
      BY <2>1, <2>2, <2>3 DEF Counter!Next, Counter!Arrive
    <2>4. CASE ~ (e \in Valid /\ arrived[e] = 0)
      <3>1. {x \in Valid : arrived'[x] > 0} = {x \in Valid : arrived[x] > 0}
        BY <2>1, <2>2, <2>4
      <3> QED BY <2>1, <3>1 DEF Counter!vars
    <2> QED BY <2>3, <2>4
  <1>2. CASE Committed(c) \/ CommitUnknown(c)
    <2>1. /\ clicks' = Append(clicks, holding[c]) /\ UNCHANGED arrived /\ pc[c] = "check"
      BY <1>2 DEF Committed, CommitUnknown, Commit
    <2>2. /\ holding[c] \in Valid /\ holding[c] \notin processed /\ arrived[holding[c]] > 0
      BY <2>1 DEF TypeInv, Held, Exact, HasArrived, Counting
    <2>3. milestones' = {t \in Thresholds : t <= Len(clicks')}
      BY DEF Exact
    <2>4. holding[c] \in {e \in Valid : arrived[e] > 0} \ Counter!Counted
      BY <2>2, CountedIsProcessed DEF TypeInv
    <2> QED BY <2>1, <2>2, <2>3, <2>4 DEF Counter!Next, Counter!Count
  <1>3. CASE UNCHANGED <<arrived, clicks, milestones>>
    BY <1>3 DEF Counter!vars
  <1>4. ASSUME ~ \E e \in Events : Arrive(e) PROVE UNCHANGED arrived
    BY <1>4 DEF Next, Proceed, Transact, Discard, Exists, InsertProcessed, InsertClick,
       HasMilestone, NoMilestone, InsertMilestone, PublishMilestone, PublishFails,
       NextThreshold, Committed, CommitUnknown, Commit, Fail, Ack, Nack, Answered,
       Deliver, CloseChannel, Crash, Restart, vars
  <1> QED BY <1>1, <1>2, <1>3, <1>4, TablesTouched

LEMMA CountInit == Init => Counter!Init
  <1> SUFFICES ASSUME Init PROVE Counter!Init
    OBVIOUS
  <1>1. \A e \in Valid : ~ (arrived[e] > 0)
    BY DEF Init, Valid
  <1> QED BY <1>1 DEF Init, Counter!Init

\* A single consumer implements ClickCount: each event counts once, and the milestones
\* recorded are, after every transaction, exactly those the count has reached.
THEOREM CountCorrect == ASSUME NEW c, Consumers = {c} PROVE Spec => CountsOnce
  <1>2. TypeInv /\ Exact /\ Exact' /\ HasArrived /\ ProcessedIsCounted /\ [Next]_vars
          => [Counter!Next]_(Counter!vars)
    BY CountSimulation
  <1>3. Init => HasArrived /\ Owed
    <2> SUFFICES ASSUME Init PROVE HasArrived /\ Owed
      OBVIOUS
    <2> QED BY DEF Init, HasArrived, Owed, Counting
  <1>4. Spec => []Owed /\ []HasArrived
    BY <1>3, OwedStep, ArrivedStep, TypeInvCorrect, PTL DEF Spec
  <1>5. Spec => []Exact
    BY ExactCorrect
  <1>6. Spec => []ProcessedIsCounted
    BY ProcessedCorrect
  <1> QED BY CountInit, <1>2, <1>4, <1>5, <1>6, TypeInvCorrect, PTL DEF Spec, CountsOnce, Counter!Spec

-----------------------------------------------------------------------------
(* The whole pipeline: both services, which share their bounds on faults *)

\* The theorems about the consumer of notification-service, at its place here.
NC == INSTANCE NotificationConsumer_proofs
    WITH Events <- Topics, Consumers <- Tellers, arrived <- Published, queue <- nqueue,
         unacked <- nunacked, subscribed <- nsubscribed, pc <- npc, holding <- nholding

\* Teller and NC name the same things.
LEMMA SameCardinality == ASSUME NEW S PROVE NC!Cardinality(S) = Teller!Cardinality(S)
  <1> QED BY DEF NC!Cardinality, Teller!Cardinality

LEMMA SameParameters == NC!ParametersOK
  <1> QED
    BY TellersOK
    DEF Teller!ParametersOK, NC!ParametersOK, Teller!IsFiniteSet, NC!IsFiniteSet

LEMMA SameArrive == ASSUME NEW e PROVE Teller!Arrive(e) => NC!Arrive(e)
  <1> QED
    BY DEF Teller!Arrive, NC!Arrive, Teller!effects, NC!effects, Teller!bounds, NC!bounds

LEMMA SameConsume == Teller!Consume => NC!Consume
  <1> QED
    BY DEF Teller!Consume, NC!Consume, Teller!Deliver, NC!Deliver, Teller!Proceed, NC!Proceed,
           Teller!Discard, NC!Discard, Teller!Mail, NC!Mail, Teller!Committed, NC!Committed,
           Teller!CommitUnknown, NC!CommitUnknown, Teller!Commit, NC!Commit, Teller!Fail,
           NC!Fail, Teller!AfterFailure, NC!AfterFailure, Teller!Ack, NC!Ack, Teller!Nack,
           NC!Nack, Teller!Answered, NC!Answered, Teller!Restart, NC!Restart,
           Teller!CloseChannel, NC!CloseChannel, Teller!Crash, NC!Crash, Teller!Goto, NC!Goto,
           Teller!Fault, NC!Fault, Teller!Requeue, NC!Requeue, Teller!Usable, NC!Usable,
           Teller!broker, NC!broker, Teller!effects, NC!effects, Teller!bounds, NC!bounds

LEMMA SameProperties ==
  /\ NC!RepetitionsCostFaults => Teller!RepetitionsCostFaults
  /\ NC!StoredIsMailed => Teller!StoredIsMailed
  /\ NC!NothingIsLost => Teller!NothingIsLost
  <1>1. NC!RepetitionsCostFaults => Teller!RepetitionsCostFaults
    BY SameCardinality
    DEF Teller!RepetitionsCostFaults, NC!RepetitionsCostFaults, Teller!Working, NC!Working
  <1>2. NC!StoredIsMailed => Teller!StoredIsMailed
    BY SameCardinality
    DEF Teller!StoredIsMailed, NC!StoredIsMailed, Teller!Working, NC!Working
  <1>3. NC!NothingIsLost => Teller!NothingIsLost
    BY DEF Teller!NothingIsLost, NC!NothingIsLost, Teller!Usable, NC!Usable
  <1> QED BY <1>1, <1>2, <1>3

ClicksInv ==
  /\ TypeInv /\ ProcessedIsCounted /\ Owed /\ NothingIsLost /\ HasArrived
  /\ RaceInv /\ ReachedInv /\ LagInv /\ Ordered /\ AnnounceInv

NotesInv == NC!TypeInv /\ NC!AllAccounted /\ NC!NothingIsLost /\ NC!HasArrived

LEMMA ClicksInit == Init => ClicksInv
  <1> SUFFICES ASSUME Init PROVE ClicksInv
    OBVIOUS
  <1>1. ProcessedIsCounted /\ Owed /\ NothingIsLost /\ HasArrived /\ Ordered
    BY DEF Init, ProcessedIsCounted, Rows, Owed, NothingIsLost, Valid, HasArrived, Counting, Ordered
  <1>2. ReachedInv
    BY DEF Init, ReachedInv, OwnAreReached, RecordedAreReached
  <1> QED BY <1>1, <1>2, LagInit, TypeInit, RaceInit, AnnounceInit DEF ClicksInv

LEMMA ClicksStep == ClicksInv /\ [Next]_vars => ClicksInv'
  <1> QED
    BY TypeStep, ProcessedStep, OwedStep, LostStep, ArrivedStep, RaceStep, ReachedStep,
       LagStep, OrderedStep, AnnounceStep
    DEF ClicksInv

\* The other service moves: nothing here but the faults, which only add up.
OthersMove ==
  /\ UNCHANGED <<broker, pc, holding, transaction, tables, announced>>
  /\ faults' \in Nat /\ drops' \in Nat /\ faults <= faults' /\ drops <= drops'

LEMMA ClicksAside == ClicksInv /\ OthersMove => ClicksInv'
  <1> SUFFICES ASSUME ClicksInv, OthersMove PROVE ClicksInv'
    OBVIOUS
  <1> USE DEF ClicksInv, OthersMove
  <1>1. TypeInv'
    BY DEF TypeInv, TypeOK, Held
  <1>2. ProcessedIsCounted' /\ Owed' /\ NothingIsLost' /\ HasArrived'
    BY DEF ProcessedIsCounted, Rows, Owed, NothingIsLost, HasArrived
  <1>3. RaceInv' /\ ReachedInv' /\ LagInv' /\ Ordered'
    BY DEF RaceInv, Rows, Racing, ReachedInv, OwnAreReached, RecordedAreReached, LagInv,
       SettledIsRecorded, KeepsUp, Blind, Ordered
  <1>4. ASSUME NEW t \in Thresholds PROVE Announces(t)'
    <2>1. UNCHANGED <<Passed(t), Passing(t)>>
      BY DEF Passed, Passing
    <2> QED BY <2>1, AnnounceQuiet DEF AnnounceInv
  <1>5. Founded'
    <2>1. faults + drops > 0 => faults' + drops' > 0
      BY Grown DEF TypeInv, TypeOK
    <2> QED BY <2>1 DEF AnnounceInv, Founded
  <1> QED BY <1>1, <1>2, <1>3, <1>4, <1>5 DEF AnnounceInv

\* A step of analytics-service takes no fault back.
LEMMA FaultsGrow ==
  ASSUME TypeInv, [Next]_vars
  PROVE  faults' \in Nat /\ drops' \in Nat /\ faults <= faults' /\ drops <= drops'
  <1>t. faults \in Nat /\ drops \in Nat
    BY DEF TypeInv, TypeOK
  <1>1. ASSUME UNCHANGED bounds
        PROVE  faults' \in Nat /\ drops' \in Nat /\ faults <= faults' /\ drops <= drops'
    BY <1>1, <1>t
  <1>2. ASSUME Fault
        PROVE  faults' \in Nat /\ drops' \in Nat /\ faults <= faults' /\ drops <= drops'
    BY <1>2, <1>t DEF Fault
  <1>3. ASSUME NEW c \in Consumers, CloseChannel(c)
        PROVE  faults' \in Nat /\ drops' \in Nat /\ faults <= faults' /\ drops <= drops'
    BY <1>3, <1>t DEF CloseChannel
  <1>4. ASSUME NEW c \in Consumers, Proceed(c) \/ Crash(c) PROVE UNCHANGED bounds \/ Fault
    BY <1>4 DEF Proceed, Transact, Discard, Exists, InsertProcessed, InsertClick, HasMilestone,
       NoMilestone, InsertMilestone, PublishMilestone, PublishFails, Committed, CommitUnknown,
       Fail, Ack, Nack, Answered, Restart, Crash
  <1>5. ASSUME NEW e \in Events, Arrive(e) \/ \E c \in Consumers : Deliver(c, e)
        PROVE  UNCHANGED bounds
    BY <1>5 DEF Arrive, Deliver
  <1> QED BY <1>1, <1>2, <1>3, <1>4, <1>5 DEF Next, vars

\* Nor does a step of notification-service.
LEMMA TellersFaultsGrow ==
  ASSUME faults \in Nat, drops \in Nat, NC!Consume
  PROVE  faults' \in Nat /\ drops' \in Nat /\ faults <= faults' /\ drops <= drops'
  <1>1. \/ faults' = faults /\ drops' = drops
        \/ faults' = faults + 1 /\ drops' = drops
        \/ faults' = faults /\ drops' = drops + 1
    BY DEF NC!Consume, NC!Deliver, NC!Proceed, NC!Discard, NC!Mail, NC!Committed,
       NC!CommitUnknown, NC!Commit, NC!Fail, NC!Ack, NC!Nack, NC!Answered, NC!Restart,
       NC!CloseChannel, NC!Crash, NC!Fault, NC!bounds
  <1> QED BY <1>1

\* A fault elsewhere allows one repetition more than it causes.
LEMMA NotesAside ==
  ASSUME NotesInv, UNCHANGED <<notes, announced>>,
         faults' \in Nat, drops' \in Nat, faults <= faults', drops <= drops'
  PROVE  NotesInv'
  <1>1. UNCHANGED Published
    BY DEF notes, Published
  <1>2. NC!TypeInv'
    BY <1>1 DEF NotesInv, NC!TypeInv, NC!TypeOK, NC!Held, notes
  <1>3. ASSUME NEW e \in Topics PROVE NC!Accounted(e)'
    <2>1. UNCHANGED <<NC!Owing(e), NC!Mailed(e), stored, nqueue, mails>>
      BY DEF notes, NC!Owing, NC!Mailed
    <2>2. /\ stored[e] \in Nat /\ nqueue[e] \in Nat /\ mails[e] \in Nat /\ Published[e] \in Nat
          /\ faults \in Nat /\ drops \in Nat
      BY DEF NotesInv, NC!TypeInv, NC!TypeOK
    <2>3. NC!Cardinality(NC!Owing(e)) \in Nat /\ NC!Cardinality(NC!Mailed(e)) \in Nat
      BY SameParameters, NC!WorkingBetween
    <2>4. NC!Accounted(e)
      BY DEF NotesInv, NC!AllAccounted
    <2>5. /\ stored[e] + nqueue[e] + NC!Cardinality(NC!Owing(e)) <= Published[e] + faults' + drops'
          /\ mails[e] <= stored[e] + faults' + NC!Cardinality(NC!Mailed(e))
      BY <2>2, <2>3, <2>4 DEF NC!Accounted
    <2> QED BY <1>1, <2>1, <2>4, <2>5 DEF NC!Accounted
  <1>4. NC!NothingIsLost'
    BY <1>1 DEF NotesInv, NC!NothingIsLost, notes
  <1>5. NC!HasArrived'
    BY <1>1 DEF NotesInv, NC!HasArrived, notes
  <1> QED BY <1>2, <1>3, <1>4, <1>5 DEF NotesInv, NC!AllAccounted

\* A step of the consumer of notification-service, or an event handed to it.
LEMMA NotesStep == ASSUME NotesInv, NC!Next PROVE NotesInv'
  <1> QED BY SameParameters, NC!TypeStep, NC!AccountedStep, NC!LostStep, NC!ArrivedStep
         DEF NotesInv

\* A step of the pipeline is one of analytics-service, or leaves it alone.
LEMMA PipeStep ==
  ASSUME ClicksInv, NotesInv, [PipeNext]_<<vars, notes>>
  PROVE  ([Next]_vars \/ OthersMove) /\ NotesInv'
  <1>t. TypeInv /\ faults \in Nat /\ drops \in Nat
    BY DEF ClicksInv, TypeInv, TypeOK
  <1>1. CASE ClickStep
    <2>1. Next
      BY <1>1 DEF ClickStep
    <2>2. CASE announced' = announced
      <3>1. UNCHANGED <<notes, announced>>
        BY <1>1, <2>2 DEF ClickStep
      <3> QED BY <1>t, <2>1, <3>1, FaultsGrow, NotesAside
    <2>3. CASE announced' # announced
      <3>1. PICK t \in Thresholds : Teller!Arrive(t)
        BY <1>1, <2>3 DEF ClickStep, Forward
      <3>2. t \in Topics /\ NC!Arrive(t)
        BY <3>1, SameArrive DEF Topics
      <3> QED BY <2>1, <3>2, NotesStep DEF NC!Next
    <2> QED BY <2>2, <2>3
  <1>2. CASE TellerStep
    <2>1. NC!Consume /\ UNCHANGED <<broker, pc, holding, transaction, tables, announced>>
      BY <1>2, SameConsume DEF TellerStep
    <2>2. OthersMove
      BY <1>t, <2>1, TellersFaultsGrow DEF OthersMove
    <2>3. NotesInv'
      BY <2>1, NotesStep DEF NC!Next
    <2> QED BY <2>2, <2>3
  <1>3. ASSUME NEW e \in LinkEvents, Tell(e) PROVE UNCHANGED vars /\ NotesInv'
    <2>1. UNCHANGED vars /\ NC!Arrive(e) /\ e \in Topics
      BY <1>3, SameArrive DEF Tell, Topics
    <2> QED BY <2>1, NotesStep DEF NC!Next
  <1>4. CASE UNCHANGED <<vars, notes>>
    <2>1. UNCHANGED vars /\ UNCHANGED notes
      BY <1>4
    <2>2. /\ UNCHANGED <<notes, announced>> /\ faults' \in Nat /\ drops' \in Nat
          /\ faults <= faults' /\ drops <= drops'
      BY <1>t, <2>1 DEF vars
    <2> QED BY <2>1, <2>2, NotesAside
  <1> QED BY <1>1, <1>2, <1>3, <1>4 DEF PipeNext

LEMMA PipeInvCorrect == PipeSpec => [](ClicksInv /\ NotesInv)
  <1>1. PipeInit => ClicksInv /\ NotesInv
    <2> SUFFICES ASSUME PipeInit PROVE ClicksInv /\ NotesInv
      OBVIOUS
    <2>1. ClicksInv
      BY ClicksInit DEF PipeInit
    <2>2. NC!Init
      BY DEF PipeInit, Teller!Init, NC!Init
    <2>3. NotesInv
      BY <2>2, SameParameters, NC!TypeInit, NC!AccountedInit, NC!LostInit, NC!ArrivedInit
         DEF NotesInv
    <2> QED BY <2>1, <2>3
  <1>2. ClicksInv /\ NotesInv /\ [PipeNext]_<<vars, notes>> => (ClicksInv /\ NotesInv)'
    BY PipeStep, ClicksStep, ClicksAside
  <1> QED BY <1>1, <1>2, PTL DEF PipeSpec

\* From the click to the e-mail: a user is told of a milestone, or of a link event, once
\* for each time it was published and once more for each fault in either service and
\* each closed channel.
THEOREM RepetitionsCorrect == PipeSpec => []RepetitionsCostFaults
  <1>1. NotesInv => RepetitionsCostFaults
    <2>1. NotesInv => NC!RepetitionsCostFaults /\ NC!StoredIsMailed
      BY SameParameters, NC!AccountedBounds DEF NotesInv
    <2> QED BY <2>1, SameProperties DEF RepetitionsCostFaults
  <1> QED BY <1>1, PipeInvCorrect, PTL

\* The two services side by side keep what each keeps alone, though a fault of one counts
\* for the other.
THEOREM BothCorrect ==
  PipeSpec => [](/\ ProcessedIsCounted /\ NothingIsLost /\ CountedOncePerConsumer
                 /\ MilestonesKeepUp /\ AnnouncementsCostFaults /\ SomeoneRuns
                 /\ Teller!NothingIsLost)
  <1>1. ClicksInv => /\ ProcessedIsCounted /\ NothingIsLost /\ CountedOncePerConsumer
                     /\ MilestonesKeepUp /\ AnnouncementsCostFaults /\ SomeoneRuns
    BY RaceCounts, LagKeepsUp, AnnounceCosts, OrderedRuns DEF ClicksInv
  <1>2. NotesInv => Teller!NothingIsLost
    BY SameProperties DEF NotesInv
  <1> QED BY <1>1, <1>2, PipeInvCorrect, PTL

\* In the pipeline as well, a single consumer of clicks implements ClickCount.
THEOREM PipeCountCorrect == ASSUME NEW c, Consumers = {c} PROVE PipeSpec => CountsOnce
  <1>1. PipeInit => Counter!Init /\ Exact
    <2> SUFFICES ASSUME PipeInit PROVE Counter!Init /\ Exact
      OBVIOUS
    <2> QED BY CountInit, ExactInit DEF PipeInit
  <1>2. ClicksInv /\ NotesInv /\ Exact /\ [PipeNext]_<<vars, notes>> => Exact'
    <2>1. OthersMove /\ Exact => Exact'
      BY DEF OthersMove, Exact, Reached
    <2> QED BY <2>1, PipeStep, ExactStep DEF ClicksInv
  <1>3. ClicksInv /\ NotesInv /\ Exact /\ Exact' /\ [PipeNext]_<<vars, notes>>
          => [Counter!Next]_(Counter!vars)
    <2>1. OthersMove => UNCHANGED Counter!vars
      BY DEF OthersMove, Counter!vars
    <2> QED BY <2>1, PipeStep, CountSimulation DEF ClicksInv
  <1> QED BY <1>1, <1>2, <1>3, PipeInvCorrect, PTL DEF PipeSpec, CountsOnce, Counter!Spec

-----------------------------------------------------------------------------
(* Milestones announced too early *)

\* What is announced and not recorded is the very next threshold, and a click that has
\* arrived is still to be counted.
EarlyInv ==
  \A t \in Thresholds \ milestones :
    announced[t] > 0
      => t = Len(clicks) + 1 /\ \E e \in Valid \ processed : arrived[e] > 0

LEMMA EarlyStep ==
  ASSUME NEW c, Consumers = {c}, ClicksInv, Exact, Exact', EarlyInv, [Next]_vars
  PROVE  EarlyInv'
  <1>t. /\ announced \in [Thresholds -> Nat] /\ arrived \in [Events -> Nat]
        /\ Thresholds \subseteq Nat /\ Len(clicks) \in Nat /\ Valid \subseteq Events
        /\ due \in [Consumers -> SUBSET Thresholds]
    BY ParametersOK DEF ClicksInv, TypeInv, TypeOK, Valid
  \* A COMMIT records the next threshold, the only one announced.
  <1>1. CASE Committed(c) \/ CommitUnknown(c)
    <2>1. /\ Len(clicks') = Len(clicks) + 1 /\ UNCHANGED announced
          /\ milestones \subseteq milestones'
      BY <1>1 DEF Committed, CommitUnknown, Commit, ClicksInv, TypeInv, TypeOK, Held, Counting
    <2>2. milestones' = {t \in Thresholds : t <= Len(clicks')}
      BY DEF Exact
    <2>3. ASSUME NEW t \in Thresholds, t \notin milestones' PROVE ~ (announced'[t] > 0)
      <3>1. t # Len(clicks) + 1 /\ t \notin milestones
        BY <1>t, <2>1, <2>2, <2>3
      <3> QED BY <2>1, <3>1 DEF EarlyInv
    <2> QED BY <2>3 DEF EarlyInv
  \* The milestone published is one the click of the transaction reaches.
  <1>2. CASE PublishMilestone(c)
    <2>1. /\ pc[c] = "publish" /\ announced' = [announced EXCEPT ![at[c]] = @ + 1]
          /\ UNCHANGED <<tables, arrived>>
      BY <1>2 DEF PublishMilestone, NextThreshold
    <2>2. /\ at[c] \in due[c] /\ holding[c] \in Valid \ processed /\ arrived[holding[c]] > 0
      BY <2>1 DEF ClicksInv, TypeInv, Held, HasArrived, Exact, Counting
    <2>3. at[c] \in Thresholds /\ at[c] <= Len(clicks) + 1
      BY <1>t, <2>1, <2>2 DEF Exact, Reached
    <2>4. at[c] \notin milestones => at[c] = Len(clicks) + 1
      <3>1. at[c] \notin milestones => ~ (at[c] <= Len(clicks))
        BY <2>3 DEF Exact
      <3>2. at[c] \in Nat
        BY <1>t, <2>3
      <3> QED BY <1>t, <2>3, <3>1, <3>2
    <2>5. \A t \in Thresholds : announced'[t] > 0 => announced[t] > 0 \/ t = at[c]
      BY <1>t, <2>1, <2>3
    <2> QED BY <2>1, <2>2, <2>4, <2>5 DEF EarlyInv
  <1>3. ASSUME NEW e \in Events, Arrive(e) PROVE EarlyInv'
    <2>1. arrived' = [arrived EXCEPT ![e] = @ + 1] /\ UNCHANGED <<tables, announced>>
      BY <1>3 DEF Arrive
    <2>2. \A x \in Events : arrived[x] > 0 => arrived'[x] > 0
      BY <1>t, <2>1
    <2> QED BY <1>t, <2>1, <2>2 DEF EarlyInv
  <1>4. CASE UNCHANGED <<arrived, tables, announced>>
    BY <1>4 DEF EarlyInv
  <1>5. ASSUME NEW e \in Events, Deliver(c, e) PROVE UNCHANGED <<arrived, tables, announced>>
    BY <1>5 DEF Deliver
  <1>6. ASSUME Proceed(c) \/ CloseChannel(c) \/ Crash(c),
               ~ Committed(c), ~ CommitUnknown(c), ~ PublishMilestone(c)
        PROVE  UNCHANGED <<arrived, tables, announced>>
    BY <1>6 DEF Proceed, Transact, Discard, Exists, InsertProcessed, InsertClick, HasMilestone,
       NoMilestone, InsertMilestone, PublishFails, NextThreshold, Fail, Ack, Nack, Answered,
       Restart, CloseChannel, Crash
  <1> QED BY <1>1, <1>2, <1>3, <1>4, <1>5, <1>6 DEF Next, vars

\* Nobody is told of a milestone that was not announced.
LEMMA EarlyOwed == ClicksInv /\ NotesInv /\ EarlyInv => PhantomsAreOwed
  <1> SUFFICES ASSUME ClicksInv, NotesInv, EarlyInv, NEW t \in Thresholds \ milestones,
                      announced[t] > 0 \/ mails[t] > 0 \/ stored[t] > 0
               PROVE  /\ t = Len(clicks) + 1
                      /\ \E e \in Valid \ processed : Kept(e)
    BY DEF PhantomsAreOwed, Kept
  <1>1. t \in Topics /\ Published[t] = announced[t]
    BY DEF Topics, Published
  <1>2. announced[t] > 0
    BY <1>1 DEF NotesInv, NC!HasArrived
  <1>3. PICK e \in Valid \ processed : arrived[e] > 0
    BY <1>2 DEF EarlyInv
  <1>4. Kept(e)
    BY <1>3 DEF ClicksInv, NothingIsLost, Kept
  <1> QED BY <1>2, <1>3, <1>4 DEF EarlyInv

\* With one consumer of clicks: a milestone that was announced, mailed or stored and is
\* not recorded, because its transaction rolled back, is the next one, and the click that
\* reaches it is still in the queue or owed to it, whatever fails, closes or crashes.
THEOREM PhantomsCorrect == ASSUME NEW c, Consumers = {c} PROVE PipeSpec => []PhantomsAreOwed
  <1>1. PipeInit => Exact /\ EarlyInv
    <2> SUFFICES ASSUME PipeInit PROVE Exact /\ EarlyInv
      OBVIOUS
    <2> QED BY ExactInit DEF PipeInit, Init, EarlyInv
  <1>2. ClicksInv /\ NotesInv /\ Exact /\ [PipeNext]_<<vars, notes>> => Exact'
    <2>1. OthersMove /\ Exact => Exact'
      BY DEF OthersMove, Exact, Reached
    <2> QED BY <2>1, PipeStep, ExactStep DEF ClicksInv
  <1>3. ClicksInv /\ NotesInv /\ Exact /\ Exact' /\ EarlyInv /\ [PipeNext]_<<vars, notes>>
          => EarlyInv'
    <2>1. OthersMove /\ EarlyInv => EarlyInv'
      BY DEF OthersMove, EarlyInv
    <2> QED BY <2>1, PipeStep, EarlyStep
  <1> QED BY <1>1, <1>2, <1>3, EarlyOwed, PipeInvCorrect, PTL DEF PipeSpec

=============================================================================
