---------------------- MODULE NotificationConsumer_proofs ----------------------
(***************************************************************************)
(* Proofs about NotificationConsumer for any number of events, replicas,   *)
(* publications and faults.                                                *)
(***************************************************************************)
EXTENDS NotificationConsumer, FiniteSetTheorems, TLAPS

USE DEF broker, effects, bounds

\* What a consumer works on, and what it still owes to the broker.
Held ==
  \A c \in Consumers :
    /\ pc[c] \in {"idle", "down"} => unacked[c] = Nothing
    /\ pc[c] \in {"received", "mailed", "ack", "nack"} => holding[c] \in Events
    /\ pc[c] = "mailed" => holding[c] \in Usable
    /\ unacked[c] # Nothing => unacked[c] = holding[c]
    /\ pc[c] = "ack" /\ holding[c] \in Usable => stored[holding[c]] > 0

TypeInv == TypeOK /\ Held

-----------------------------------------------------------------------------
(* Types *)

LEMMA TypeInit == Init => TypeInv
  <1> SUFFICES ASSUME Init PROVE TypeInv
    OBVIOUS
  <1>1. /\ mails \in [Events -> Nat] /\ stored \in [Events -> Nat]
        /\ arrived \in [Events -> Nat] /\ queue \in [Events -> Nat]
    BY DEF Init
  <1> QED BY <1>1 DEF Init, TypeInv, TypeOK, Held

LEMMA CountUp ==
  ASSUME NEW S, NEW f \in [S -> Nat], NEW x \in S
  PROVE  [f EXCEPT ![x] = @ + 1] \in [S -> Nat]
  <1> QED OBVIOUS

\* A requeue puts back what was owed, and nothing else.
LEMMA Requeued ==
  ASSUME TypeOK, NEW c \in Consumers, Requeue(c)
  PROVE  /\ queue' \in [Events -> Nat] /\ unacked' \in [Consumers -> Events \cup {Nothing}]
         /\ \A e \in Events : queue'[e] = queue[e] + (IF unacked[c] = e THEN 1 ELSE 0)
         /\ unacked' = [unacked EXCEPT ![c] = Nothing]
  <1>1. \A e \in Events : queue[e] + (IF unacked[c] = e THEN 1 ELSE 0) \in Nat
    BY DEF TypeOK
  <1> QED BY <1>1 DEF Requeue, TypeOK

LEMMA TypeStep == ASSUME ParametersOK PROVE TypeInv /\ [Next]_vars => TypeInv'
  <1> SUFFICES ASSUME TypeInv, [Next]_vars PROVE TypeInv'
    OBVIOUS
  <1>0. Nothing \notin Events /\ Usable \subseteq Events
    BY DEF ParametersOK, Usable
  <1> USE DEF TypeInv, TypeOK, Held, Goto
  <1>1. ASSUME NEW e \in Events, Arrive(e) PROVE TypeInv'
    BY <1>1, CountUp DEF Arrive
  <1>2. ASSUME NEW c \in Consumers, NEW e \in Events, Deliver(c, e) PROVE TypeInv'
    <2>1. queue' \in [Events -> Nat]
      BY <1>2 DEF Deliver
    <2> QED BY <1>2, <2>1 DEF Deliver
  <1>3. ASSUME NEW c \in Consumers, Discard(c) PROVE TypeInv'
    BY <1>3 DEF Discard, Usable
  <1>4. ASSUME NEW c \in Consumers, Mail(c) PROVE TypeInv'
    <2>1. mails' \in [Events -> Nat]
      BY <1>4, <1>0, CountUp DEF Mail
    <2> QED BY <1>4, <2>1 DEF Mail
  <1>5. ASSUME NEW c \in Consumers, Committed(c) \/ CommitUnknown(c) PROVE TypeInv'
    <2>1. /\ holding[c] \in Events /\ UNCHANGED <<broker, holding, mails>>
          /\ stored' = [stored EXCEPT ![holding[c]] = @ + 1]
      BY <1>5, <1>0 DEF Committed, CommitUnknown, Commit
    <2>2. /\ stored' \in [Events -> Nat] /\ stored'[holding[c]] > 0
          /\ \A e \in Events : stored[e] > 0 => stored'[e] > 0
      BY <2>1
    <2>3. faults' \in Nat /\ drops' \in Nat
      BY <1>5 DEF Committed, CommitUnknown, Fault
    <2>4. \E label \in {"ack", "nack"} : pc' = [pc EXCEPT ![c] = label]
      BY <1>5 DEF Committed, CommitUnknown
    <2>5. TypeOK'
      BY <2>1, <2>2, <2>3, <2>4
    <2>6. Held'
      BY <1>0, <2>1, <2>2, <2>4
    <2> QED BY <2>5, <2>6
  <1>6. ASSUME NEW c \in Consumers, Fail(c) PROVE TypeInv'
    BY <1>6 DEF Fail, AfterFailure, Fault
  <1>7. ASSUME NEW c \in Consumers, Ack(c) PROVE TypeInv'
    BY <1>7 DEF Ack, Answered
  <1>8. ASSUME NEW c \in Consumers, Nack(c) PROVE TypeInv'
    <2>1. queue' \in [Events -> Nat]
      BY <1>8, Requeued DEF Nack
    <2> QED BY <1>8, <2>1 DEF Nack, Answered
  <1>9. ASSUME NEW c \in Consumers, CloseChannel(c) PROVE TypeInv'
    <2>1. queue' \in [Events -> Nat] /\ unacked' = [unacked EXCEPT ![c] = Nothing]
      BY <1>9, Requeued DEF CloseChannel
    <2> QED BY <1>9, <2>1 DEF CloseChannel
  <1>10. ASSUME NEW c \in Consumers, Crash(c) PROVE TypeInv'
    <2>1. queue' \in [Events -> Nat] /\ unacked' = [unacked EXCEPT ![c] = Nothing]
      BY <1>10, Requeued DEF Crash
    <2> QED BY <1>10, <2>1 DEF Crash, Fault
  <1>11. ASSUME NEW c \in Consumers, Restart(c) PROVE TypeInv'
    BY <1>11 DEF Restart
  <1>12. CASE UNCHANGED vars
    BY <1>12 DEF vars
  <1> QED BY <1>1, <1>2, <1>3, <1>4, <1>5, <1>6, <1>7, <1>8, <1>9, <1>10, <1>11, <1>12
          DEF Next, Consume, Proceed

LEMMA TypeInvCorrect == ASSUME ParametersOK PROVE Spec => []TypeInv
  <1>1. TypeInv /\ [Next]_vars => TypeInv'
    BY TypeStep
  <1> QED BY TypeInit, <1>1, PTL DEF Spec

\* Every variable keeps its type.
THEOREM TypeCorrect == ASSUME ParametersOK PROVE Spec => []TypeOK
  <1>1. TypeInv => TypeOK
    BY DEF TypeInv
  <1> QED BY <1>1, TypeInvCorrect, PTL

-----------------------------------------------------------------------------
(* Deliveries *)

LEMMA LostStep ==
  ASSUME ParametersOK
  PROVE  TypeInv /\ NothingIsLost /\ [Next]_vars => NothingIsLost'
  <1> DEFINE Kept(e) == queue[e] > 0 \/ \E c \in Consumers : unacked[c] = e
  <1> SUFFICES ASSUME TypeInv, NothingIsLost, [Next]_vars,
                      NEW e \in Usable, arrived'[e] > 0, stored'[e] = 0
               PROVE  Kept(e)'
    BY DEF NothingIsLost
  <1>t. /\ arrived \in [Events -> Nat] /\ queue \in [Events -> Nat] /\ stored \in [Events -> Nat]
        /\ unacked \in [Consumers -> Events \cup {Nothing}]
        /\ e \in Events /\ e # Nothing
    BY DEF TypeInv, TypeOK, Usable, ParametersOK
  <1>1. (stored[e] = 0 /\ UNCHANGED stored) \/ \E c \in Consumers : Committed(c) \/ CommitUnknown(c)
    BY <1>t DEF Next, Consume, Proceed, Arrive, Deliver, Discard, Mail, Fail, Ack, Nack, Answered,
            CloseChannel, Crash, Restart, vars
  <1>2. stored[e] = 0
    <2>1. ASSUME NEW c \in Consumers, Commit(c) PROVE stored'[e] >= stored[e]
      BY <1>t, <2>1 DEF Commit
    <2>2. ASSUME NEW c \in Consumers, Committed(c) \/ CommitUnknown(c) PROVE stored[e] = 0
      <3>1. stored'[e] >= stored[e] /\ stored[e] \in Nat
        BY <1>t, <2>1, <2>2 DEF Committed, CommitUnknown
      <3> QED BY <3>1
    <2> QED BY <1>1, <2>2
  <1>3. arrived[e] > 0 => Kept(e)
    BY <1>2 DEF NothingIsLost
  <1>4. ASSUME NEW x \in Events, Arrive(x) PROVE Kept(e)'
    <2>1. CASE x = e
      BY <1>4, <1>t, <2>1 DEF Arrive
    <2>2. CASE x # e
      BY <1>3, <1>4, <1>t, <2>2 DEF Arrive
    <2> QED BY <2>1, <2>2
  <1>5. ASSUME NEW c \in Consumers, NEW x \in Events, Deliver(c, x) PROVE Kept(e)'
    <2>1. /\ unacked[c] = Nothing /\ unacked' = [unacked EXCEPT ![c] = x]
          /\ queue' = [queue EXCEPT ![x] = @ - 1] /\ UNCHANGED arrived
      BY <1>5 DEF Deliver, TypeInv, Held
    <2>2. CASE x = e
      BY <1>t, <2>1, <2>2
    <2>3. CASE x # e
      BY <1>3, <1>t, <2>1, <2>3
    <2> QED BY <2>2, <2>3
  <1>6. ASSUME NEW c \in Consumers, Ack(c) PROVE Kept(e)'
    <2>1. unacked[c] # e
      BY <1>2, <1>6, <1>t DEF Ack, TypeInv, Held
    <2>2. unacked' = [unacked EXCEPT ![c] = Nothing] /\ UNCHANGED <<queue, arrived>>
      BY <1>6 DEF Ack, Answered
    <2> QED BY <1>3, <1>t, <2>1, <2>2
  <1>7. ASSUME NEW c \in Consumers, Nack(c) \/ CloseChannel(c) \/ Crash(c) PROVE Kept(e)'
    <2>1. Requeue(c) /\ UNCHANGED arrived
      BY <1>7 DEF Nack, CloseChannel, Crash, Answered
    <2>2. /\ queue'[e] = queue[e] + (IF unacked[c] = e THEN 1 ELSE 0)
          /\ unacked' = [unacked EXCEPT ![c] = Nothing]
      BY <1>t, <2>1, Requeued DEF TypeInv
    <2> QED BY <1>3, <1>t, <2>1, <2>2
  <1>8. CASE UNCHANGED <<arrived, queue, unacked>>
    BY <1>3, <1>8
  <1>9. ASSUME NEW c \in Consumers,
               Discard(c) \/ Mail(c) \/ Committed(c) \/ CommitUnknown(c) \/ Fail(c) \/ Restart(c)
        PROVE  UNCHANGED <<arrived, queue, unacked>>
    BY <1>9 DEF Discard, Mail, Committed, CommitUnknown, Commit, Fail, Restart
  <1> QED BY <1>4, <1>5, <1>6, <1>7, <1>8, <1>9 DEF Next, Consume, Proceed, vars

LEMMA LostInit == Init => NothingIsLost
  <1> QED BY DEF Init, NothingIsLost, Usable

\* A usable event that is not stored is in the queue or owed to it, through any number
\* of failures, closed channels and crashes.
THEOREM KeptCorrect == ASSUME ParametersOK PROVE Spec => []NothingIsLost
  <1>1. TypeInv /\ NothingIsLost /\ [Next]_vars => NothingIsLost'
    BY LostStep
  <1> QED BY <1>1, LostInit, TypeInvCorrect, PTL DEF Spec

-----------------------------------------------------------------------------
(* Repetitions *)

\* Deliveries of an event that may yet be stored or requeued, and e-mails of an event
\* whose transaction is open.
Owing(e) == {c \in Consumers : pc[c] \in {"received", "mailed", "nack"} /\ holding[c] = e}
Mailed(e) == {c \in Consumers : pc[c] = "mailed" /\ holding[c] = e}

\* Each row stored, copy waiting and delivery in work is one of a publication, a fault
\* or a closed channel; each e-mail is one of a row, an open transaction or a fault.
Accounted(e) ==
  /\ stored[e] + queue[e] + Cardinality(Owing(e)) <= arrived[e] + faults + drops
  /\ stored[e] + Cardinality(Mailed(e)) <= mails[e]
  /\ mails[e] <= stored[e] + faults + Cardinality(Mailed(e))

AllAccounted == \A e \in Events : Accounted(e)

One(condition) == IF condition THEN 1 ELSE 0

\* Two sets of consumers that differ in one consumer at most.
LEMMA Differ ==
  ASSUME ParametersOK, NEW c \in Consumers, NEW S \in SUBSET Consumers,
         NEW T \in SUBSET Consumers, S \ {c} = T \ {c}
  PROVE  /\ Cardinality(S) \in Nat /\ Cardinality(T) \in Nat
         /\ Cardinality(T) + One(c \in S) = Cardinality(S) + One(c \in T)
  <1>1. IsFiniteSet(S) /\ IsFiniteSet(T)
    BY FS_Subset DEF ParametersOK
  <1>2. Cardinality(S) \in Nat /\ Cardinality(T) \in Nat /\ Cardinality(S \ {c}) \in Nat
    BY <1>1, FS_RemoveElement, FS_CardinalityType
  <1>3. /\ Cardinality(S \ {c}) = IF c \in S THEN Cardinality(S) - 1 ELSE Cardinality(S)
        /\ Cardinality(T \ {c}) = IF c \in T THEN Cardinality(T) - 1 ELSE Cardinality(T)
    BY <1>1, FS_RemoveElement
  <1> QED BY <1>2, <1>3 DEF One

\* One consumer moves.
LEMMA Moves ==
  ASSUME ParametersOK, NEW c \in Consumers, NEW e \in Events,
         \A d \in Consumers \ {c} : pc'[d] = pc[d] /\ holding'[d] = holding[d]
  PROVE  /\ Cardinality(Owing(e)) \in Nat /\ Cardinality(Owing(e)') \in Nat
         /\ Cardinality(Mailed(e)) \in Nat /\ Cardinality(Mailed(e)') \in Nat
         /\ Cardinality(Owing(e)') + One(c \in Owing(e)) = Cardinality(Owing(e)) + One(c \in Owing(e)')
         /\ Cardinality(Mailed(e)') + One(c \in Mailed(e)) = Cardinality(Mailed(e)) + One(c \in Mailed(e)')
  <1>1. Owing(e) \ {c} = Owing(e)' \ {c} /\ Mailed(e) \ {c} = Mailed(e)' \ {c}
    BY DEF Owing, Mailed
  <1>2. /\ Owing(e) \in SUBSET Consumers /\ Owing(e)' \in SUBSET Consumers
        /\ Mailed(e) \in SUBSET Consumers /\ Mailed(e)' \in SUBSET Consumers
    BY DEF Owing, Mailed
  <1> QED BY <1>1, <1>2, Differ

LEMMA AccountedStep ==
  ASSUME ParametersOK
  PROVE  TypeInv /\ AllAccounted /\ [Next]_vars => AllAccounted'
  <1> SUFFICES ASSUME TypeInv, AllAccounted, [Next]_vars, NEW e \in Events
               PROVE  Accounted(e)'
    BY DEF AllAccounted
  <1>t. /\ arrived \in [Events -> Nat] /\ queue \in [Events -> Nat]
        /\ mails \in [Events -> Nat] /\ stored \in [Events -> Nat]
        /\ pc \in [Consumers -> {"idle", "received", "mailed", "ack", "nack", "down"}]
        /\ holding \in [Consumers -> Events \cup {Nothing}]
        /\ faults \in Nat /\ drops \in Nat
        /\ Usable \subseteq Events /\ Nothing \notin Events
    BY DEF TypeInv, TypeOK, Usable, ParametersOK
  <1>n. /\ arrived[e] \in Nat /\ queue[e] \in Nat /\ mails[e] \in Nat /\ stored[e] \in Nat
    BY <1>t
  <1>a. Accounted(e)
    BY DEF AllAccounted
  <1> USE DEF Goto, One
  <1>1. ASSUME NEW x \in Events, Arrive(x) PROVE Accounted(e)'
    <2>1. UNCHANGED <<stored, mails, faults, drops, Owing(e), Mailed(e)>>
      BY <1>1 DEF Arrive, Owing, Mailed
    <2>2. /\ arrived'[e] = arrived[e] + One(x = e) /\ queue'[e] = queue[e] + One(x = e)
      BY <1>1, <1>t DEF Arrive
    <2>3. Cardinality(Owing(e)) \in Nat
      <3>1. IsFiniteSet(Owing(e))
        BY FS_Subset DEF Owing, ParametersOK
      <3> QED BY <3>1, FS_CardinalityType
    <2> QED BY <1>a, <1>n, <1>t, <2>1, <2>2, <2>3 DEF Accounted
  <1>2. ASSUME NEW c \in Consumers, NEW x \in Events, Deliver(c, x) PROVE Accounted(e)'
    <2>1. \A d \in Consumers \ {c} : pc'[d] = pc[d] /\ holding'[d] = holding[d]
      BY <1>2, <1>t DEF Deliver
    <2>2. /\ One(c \in Owing(e)) = 0 /\ One(c \in Owing(e)') = One(x = e)
          /\ One(c \in Mailed(e)) = 0 /\ One(c \in Mailed(e)') = 0
      BY <1>2, <1>t DEF Deliver, Owing, Mailed
    <2>3. UNCHANGED <<arrived, stored, mails, faults, drops>> /\ queue'[e] = queue[e] - One(x = e)
      BY <1>2, <1>t DEF Deliver
    <2> QED BY <1>a, <1>n, <1>t, <2>1, <2>2, <2>3, Moves DEF Accounted
  <1>3. ASSUME NEW c \in Consumers, Discard(c) PROVE Accounted(e)'
    <2>1. \A d \in Consumers \ {c} : pc'[d] = pc[d] /\ holding'[d] = holding[d]
      BY <1>3, <1>t DEF Discard
    <2>2. /\ One(c \in Owing(e)') = 0
          /\ One(c \in Mailed(e)) = 0 /\ One(c \in Mailed(e)') = 0
      BY <1>3, <1>t DEF Discard, Owing, Mailed
    <2>3. UNCHANGED <<arrived, queue, stored, mails, faults, drops>>
      BY <1>3 DEF Discard
    <2>4. One(c \in Owing(e)) \in Nat
      OBVIOUS
    <2> QED BY <1>a, <1>n, <1>t, <2>1, <2>2, <2>3, <2>4, Moves DEF Accounted
  <1>4. ASSUME NEW c \in Consumers, Mail(c) PROVE Accounted(e)'
    <2>1. \A d \in Consumers \ {c} : pc'[d] = pc[d] /\ holding'[d] = holding[d]
      BY <1>4, <1>t DEF Mail
    <2>2. /\ One(c \in Owing(e)') = One(c \in Owing(e))
          /\ One(c \in Mailed(e)) = 0 /\ One(c \in Mailed(e)') = One(holding[c] = e)
      BY <1>4, <1>t DEF Mail, Owing, Mailed
    <2>3. /\ UNCHANGED <<arrived, queue, stored, faults, drops>>
          /\ mails'[e] = mails[e] + One(holding[c] = e)
      BY <1>4, <1>t DEF Mail
    <2> QED BY <1>a, <1>n, <1>t, <2>1, <2>2, <2>3, Moves DEF Accounted
  <1>5. ASSUME NEW c \in Consumers, Committed(c) \/ CommitUnknown(c) PROVE Accounted(e)'
    <2>1. \A d \in Consumers \ {c} : pc'[d] = pc[d] /\ holding'[d] = holding[d]
      BY <1>5, <1>t DEF Committed, CommitUnknown, Commit
    <2>2. /\ One(c \in Owing(e)) = One(holding[c] = e)
          /\ One(c \in Mailed(e)) = One(holding[c] = e) /\ One(c \in Mailed(e)') = 0
      BY <1>5, <1>t DEF Committed, CommitUnknown, Commit, Owing, Mailed
    <2>3. /\ UNCHANGED <<arrived, queue, mails, drops>>
          /\ stored'[e] = stored[e] + One(holding[c] = e)
      <3>1. /\ UNCHANGED <<arrived, queue, mails, drops>>
            /\ stored' = [stored EXCEPT ![holding[c]] = @ + 1]
        BY <1>5 DEF Committed, CommitUnknown, Commit, Fault
      <3>2. stored'[e] = IF holding[c] = e THEN stored[e] + 1 ELSE stored[e]
        BY <1>t, <3>1
      <3> QED BY <1>n, <3>1, <3>2
    <2>4. \/ faults' = faults /\ One(c \in Owing(e)') = 0
          \/ faults' = faults + 1 /\ One(c \in Owing(e)') = One(holding[c] = e)
      BY <1>5, <1>t DEF Committed, CommitUnknown, Commit, Fault, Owing
    <2> QED BY <1>a, <1>n, <1>t, <2>1, <2>2, <2>3, <2>4, Moves DEF Accounted
  <1>6. ASSUME NEW c \in Consumers, Fail(c) PROVE Accounted(e)'
    <2>1. \A d \in Consumers \ {c} : pc'[d] = pc[d] /\ holding'[d] = holding[d]
      BY <1>6, <1>t DEF Fail
    <2>2. /\ One(c \in Owing(e)') = One(c \in Owing(e)) /\ One(c \in Mailed(e)') = 0
      BY <1>6, <1>t DEF Fail, AfterFailure, Owing, Mailed
    <2>3. UNCHANGED <<arrived, queue, stored, mails, drops>> /\ faults' = faults + 1
      BY <1>6 DEF Fail, Fault
    <2>4. One(c \in Mailed(e)) \in {0, 1}
      OBVIOUS
    <2> QED BY <1>a, <1>n, <1>t, <2>1, <2>2, <2>3, <2>4, Moves DEF Accounted
  <1>7. ASSUME NEW c \in Consumers, Ack(c) \/ Restart(c) PROVE Accounted(e)'
    <2>1. \A d \in Consumers \ {c} : pc'[d] = pc[d] /\ holding'[d] = holding[d]
      BY <1>7, <1>t DEF Ack, Answered, Restart
    <2>2. /\ One(c \in Owing(e)) = 0 /\ One(c \in Owing(e)') = 0
          /\ One(c \in Mailed(e)) = 0 /\ One(c \in Mailed(e)') = 0
      BY <1>7, <1>t DEF Ack, Answered, Restart, Owing, Mailed
    <2>3. UNCHANGED <<arrived, queue, stored, mails, faults, drops>>
      BY <1>7 DEF Ack, Answered, Restart
    <2> QED BY <1>a, <1>n, <1>t, <2>1, <2>2, <2>3, Moves DEF Accounted
  <1>8. ASSUME NEW c \in Consumers, Nack(c) PROVE Accounted(e)'
    <2>1. \A d \in Consumers \ {c} : pc'[d] = pc[d] /\ holding'[d] = holding[d]
      BY <1>8, <1>t DEF Nack, Answered
    <2>2. /\ One(c \in Owing(e)) = One(holding[c] = e) /\ One(c \in Owing(e)') = 0
          /\ One(c \in Mailed(e)) = 0 /\ One(c \in Mailed(e)') = 0
      BY <1>8, <1>t DEF Nack, Answered, Owing, Mailed
    <2>3. UNCHANGED <<arrived, stored, mails, faults, drops>>
      BY <1>8 DEF Nack, Answered
    <2>4. queue'[e] = queue[e] + One(unacked[c] = e)
      BY <1>8, Requeued DEF Nack, TypeInv
    <2>5. unacked[c] = e => holding[c] = e
      BY <1>t DEF TypeInv, Held
    <2> QED BY <1>a, <1>n, <1>t, <2>1, <2>2, <2>3, <2>4, <2>5, Moves DEF Accounted
  <1>9. ASSUME NEW c \in Consumers, CloseChannel(c) PROVE Accounted(e)'
    <2>1. UNCHANGED <<arrived, stored, mails, faults, Owing(e), Mailed(e)>> /\ drops' = drops + 1
      BY <1>9 DEF CloseChannel, Owing, Mailed
    <2>2. queue'[e] = queue[e] + One(unacked[c] = e)
      BY <1>9, Requeued DEF CloseChannel, TypeInv
    <2>3. Cardinality(Owing(e)) \in Nat
      <3>1. IsFiniteSet(Owing(e))
        BY FS_Subset DEF Owing, ParametersOK
      <3> QED BY <3>1, FS_CardinalityType
    <2> QED BY <1>a, <1>n, <1>t, <2>1, <2>2, <2>3 DEF Accounted
  <1>10. ASSUME NEW c \in Consumers, Crash(c) PROVE Accounted(e)'
    <2>1. \A d \in Consumers \ {c} : pc'[d] = pc[d] /\ holding'[d] = holding[d]
      BY <1>10, <1>t DEF Crash
    <2>2. One(c \in Owing(e)') = 0 /\ One(c \in Mailed(e)') = 0
      BY <1>10, <1>t DEF Crash, Owing, Mailed
    <2>3. UNCHANGED <<arrived, stored, mails, drops>> /\ faults' = faults + 1
      BY <1>10 DEF Crash, Fault
    <2>4. queue'[e] = queue[e] + One(unacked[c] = e)
      BY <1>10, Requeued DEF Crash, TypeInv
    <2>5. One(c \in Owing(e)) \in {0, 1} /\ One(c \in Mailed(e)) \in {0, 1}
      OBVIOUS
    <2> QED BY <1>a, <1>n, <1>t, <2>1, <2>2, <2>3, <2>4, <2>5, Moves DEF Accounted
  <1>11. CASE UNCHANGED vars
    <2>1. UNCHANGED <<arrived, queue, stored, mails, faults, drops, Owing(e), Mailed(e)>>
      BY <1>11 DEF vars, Owing, Mailed
    <2> QED BY <1>a, <2>1 DEF Accounted
  <1> QED BY <1>1, <1>2, <1>3, <1>4, <1>5, <1>6, <1>7, <1>8, <1>9, <1>10, <1>11
          DEF Next, Consume, Proceed

LEMMA AccountedInit == Init => AllAccounted
  <1> SUFFICES ASSUME Init, NEW e \in Events PROVE Accounted(e)
    BY DEF AllAccounted
  <1>1. Owing(e) = {} /\ Mailed(e) = {}
    BY DEF Init, Owing, Mailed
  <1>2. Cardinality(Owing(e)) = 0 /\ Cardinality(Mailed(e)) = 0
    BY <1>1, FS_EmptySet
  <1> QED BY <1>2 DEF Init, Accounted

LEMMA AccountedCorrect == ASSUME ParametersOK PROVE Spec => []AllAccounted
  <1>1. TypeInv /\ AllAccounted /\ [Next]_vars => AllAccounted'
    BY AccountedStep
  <1> QED BY <1>1, AccountedInit, TypeInvCorrect, PTL DEF Spec

\* The deliveries in work are some of those that may be stored or requeued, and include
\* those whose e-mail is out.
LEMMA WorkingBetween ==
  ASSUME ParametersOK, NEW e
  PROVE  /\ Cardinality(Working(e)) \in Nat
         /\ Cardinality(Owing(e)) \in Nat /\ Cardinality(Mailed(e)) \in Nat
         /\ Cardinality(Working(e)) <= Cardinality(Owing(e))
         /\ Cardinality(Mailed(e)) <= Cardinality(Working(e))
  <1>1. /\ Owing(e) \in SUBSET Consumers /\ Working(e) \in SUBSET Owing(e)
        /\ Mailed(e) \in SUBSET Working(e)
    BY DEF Owing, Working, Mailed
  <1>2. IsFiniteSet(Owing(e)) /\ IsFiniteSet(Working(e)) /\ IsFiniteSet(Mailed(e))
    BY <1>1, FS_Subset DEF ParametersOK
  <1> QED BY <1>1, <1>2, FS_Subset, FS_CardinalityType

LEMMA AccountedBounds ==
  ASSUME ParametersOK PROVE TypeInv /\ AllAccounted => RepetitionsCostFaults /\ StoredIsMailed
  <1>1. TypeInv /\ AllAccounted => RepetitionsCostFaults
    BY WorkingBetween DEF TypeInv, TypeOK, AllAccounted, Accounted, RepetitionsCostFaults
  <1>2. TypeInv /\ AllAccounted => StoredIsMailed
    BY WorkingBetween DEF TypeInv, TypeOK, AllAccounted, Accounted, StoredIsMailed
  <1> QED BY <1>1, <1>2

\* A user is told of an event once for each time it was published, and again for each
\* fault and each closed channel at most.
THEOREM RepetitionsCorrect == ASSUME ParametersOK PROVE Spec => []RepetitionsCostFaults
  <1>1. TypeInv /\ AllAccounted => RepetitionsCostFaults
    BY AccountedBounds
  <1> QED BY <1>1, AccountedCorrect, TypeInvCorrect, PTL

\* A stored notification was mailed; other e-mails are of open transactions, or cost a
\* fault each.
THEOREM MailedCorrect == ASSUME ParametersOK PROVE Spec => []StoredIsMailed
  <1>1. TypeInv /\ AllAccounted => StoredIsMailed
    BY AccountedBounds
  <1> QED BY <1>1, AccountedCorrect, TypeInvCorrect, PTL

-----------------------------------------------------------------------------
(* Nothing is made up *)

\* What waits, is worked on, was mailed or was stored had been published.
HasArrived ==
  /\ \A e \in Events : queue[e] > 0 \/ mails[e] > 0 \/ stored[e] > 0 => arrived[e] > 0
  /\ \A c \in Consumers : holding[c] \in Events => arrived[holding[c]] > 0

LEMMA ArrivedInit == ParametersOK /\ Init => HasArrived
  <1> QED BY DEF Init, HasArrived, ParametersOK

LEMMA ArrivedStep == ASSUME ParametersOK PROVE TypeInv /\ HasArrived /\ [Next]_vars => HasArrived'
  <1> SUFFICES ASSUME TypeInv, HasArrived, [Next]_vars PROVE HasArrived'
    OBVIOUS
  <1>t. /\ arrived \in [Events -> Nat] /\ queue \in [Events -> Nat]
        /\ mails \in [Events -> Nat] /\ stored \in [Events -> Nat]
        /\ unacked \in [Consumers -> Events \cup {Nothing}]
        /\ holding \in [Consumers -> Events \cup {Nothing}] /\ Nothing \notin Events
        /\ \A c \in Consumers : unacked[c] # Nothing => unacked[c] = holding[c]
        /\ \A c \in Consumers : pc[c] = "mailed" => holding[c] \in Events
    BY DEF TypeInv, TypeOK, Held, ParametersOK, Usable
  <1> USE DEF HasArrived
  <1>1. ASSUME NEW e \in Events, Arrive(e) PROVE HasArrived'
    <2>1. /\ arrived' = [arrived EXCEPT ![e] = @ + 1] /\ queue' = [queue EXCEPT ![e] = @ + 1]
          /\ UNCHANGED <<holding, mails, stored>>
      BY <1>1 DEF Arrive
    <2>2. \A x \in Events : arrived'[x] > 0 <=> arrived[x] > 0 \/ x = e
      BY <1>t, <2>1
    <2>3. \A x \in Events : queue'[x] > 0 <=> queue[x] > 0 \/ x = e
      BY <1>t, <2>1
    <2> QED BY <2>1, <2>2, <2>3
  <1>2. ASSUME NEW c \in Consumers, NEW e \in Events, Deliver(c, e) PROVE HasArrived'
    <2>1. /\ queue' = [queue EXCEPT ![e] = @ - 1] /\ holding' = [holding EXCEPT ![c] = e]
          /\ UNCHANGED <<arrived, mails, stored>> /\ queue[e] > 0
      BY <1>2 DEF Deliver
    <2>2. \A x \in Events : queue'[x] > 0 => queue[x] > 0
      BY <1>t, <2>1
    <2> QED BY <1>t, <2>1, <2>2
  <1>3. ASSUME NEW c \in Consumers, Mail(c) PROVE HasArrived'
    <2>1. /\ holding[c] \in Events /\ mails' = [mails EXCEPT ![holding[c]] = @ + 1]
          /\ UNCHANGED <<arrived, queue, holding, stored>>
      BY <1>3, <1>t DEF Mail, Usable
    <2>2. \A x \in Events : mails'[x] > 0 => mails[x] > 0 \/ x = holding[c]
      BY <1>t, <2>1
    <2> QED BY <2>1, <2>2
  <1>4. ASSUME NEW c \in Consumers, Committed(c) \/ CommitUnknown(c) PROVE HasArrived'
    <2>1. /\ holding[c] \in Events /\ stored' = [stored EXCEPT ![holding[c]] = @ + 1]
          /\ UNCHANGED <<arrived, queue, holding, mails>>
      BY <1>4, <1>t DEF Committed, CommitUnknown, Commit
    <2>2. \A x \in Events : stored'[x] > 0 => stored[x] > 0 \/ x = holding[c]
      BY <1>t, <2>1
    <2> QED BY <2>1, <2>2
  <1>5. ASSUME NEW c \in Consumers, Nack(c) \/ CloseChannel(c) \/ Crash(c) PROVE HasArrived'
    <2>1. /\ Requeue(c) /\ UNCHANGED <<arrived, mails, stored>>
          /\ \A d \in Consumers : holding'[d] \in Events => holding'[d] = holding[d]
      BY <1>5, <1>t DEF Nack, Answered, CloseChannel, Crash
    <2>2. \A x \in Events : queue'[x] > 0 => queue[x] > 0 \/ unacked[c] = x
      BY <1>t, <2>1, Requeued DEF TypeInv
    <2> QED BY <1>t, <2>1, <2>2
  <1>6. ASSUME NEW c \in Consumers, Ack(c) PROVE HasArrived'
    BY <1>6, <1>t DEF Ack, Answered
  <1>7. ASSUME NEW c \in Consumers, Discard(c) \/ Fail(c) \/ Restart(c)
        PROVE  UNCHANGED <<arrived, queue, holding, effects>>
    BY <1>7 DEF Discard, Fail, Restart
  <1>8. CASE UNCHANGED <<arrived, queue, holding, effects>>
    BY <1>8
  <1> QED BY <1>1, <1>2, <1>3, <1>4, <1>5, <1>6, <1>7, <1>8 DEF Next, Consume, Proceed, vars

=============================================================================
