------------------------- MODULE NotificationConsumer -------------------------
(***************************************************************************)
(* The consumers of notification-service: deliveries of url.created,       *)
(* url.deleted and milestone.reached from the queue notifications.events,  *)
(* the transaction that stores a notification and mails its user, and the  *)
(* acknowledgement.  Nothing remembers which events were handled.          *)
(***************************************************************************)
EXTENDS Naturals, FiniteSets

CONSTANTS
    Events,      \* events bound to the queue
    Unusable,    \* those that do not parse, or have no id, user or e-mail
    Nothing,     \* no event
    Consumers,   \* NotificationConsumer.Run of each replica
    MaxFaults,   \* bound: failed statements and crashes
    MaxDrops     \* bound: AMQP channels the broker closes

VARIABLES
    arrived,      \* how often each event was put into the queue
    queue,        \* the copies of each event that wait in the queue
    unacked,      \* the delivery each consumer has not settled, for the broker
    subscribed,   \* the delivery channel of the consumer is open
    pc,           \* where each consumer is in processDelivery
    holding,      \* the delivery it works on
    mails,        \* how often the (mock) e-mail of an event was sent
    stored,       \* committed rows of notifications, all of status sent
    faults, drops

broker == <<arrived, queue, unacked, subscribed>>
effects == <<mails, stored>>
bounds == <<faults, drops>>
vars == <<broker, pc, holding, effects, bounds>>

ParametersOK ==
    /\ Unusable \subseteq Events /\ Nothing \notin Events /\ IsFiniteSet(Consumers)
    /\ MaxFaults \in Nat /\ MaxDrops \in Nat

Usable == Events \ Unusable

Init ==
    /\ arrived = [e \in Events |-> 0] /\ queue = [e \in Events |-> 0]
    /\ unacked = [c \in Consumers |-> Nothing]
    /\ subscribed = [c \in Consumers |-> TRUE]
    /\ pc = [c \in Consumers |-> "idle"]
    /\ holding = [c \in Consumers |-> Nothing]
    /\ mails = [e \in Events |-> 0] /\ stored = [e \in Events |-> 0]
    /\ faults = 0 /\ drops = 0

Goto(c, label) == pc' = [pc EXCEPT ![c] = label]

Fault == faults < MaxFaults /\ faults' = faults + 1 /\ UNCHANGED drops

-----------------------------------------------------------------------------
(* The queue *)

\* A publisher hands an event to the exchange, perhaps not for the first time.
Arrive(e) ==
    /\ arrived' = [arrived EXCEPT ![e] = @ + 1]
    /\ queue' = [queue EXCEPT ![e] = @ + 1]
    /\ UNCHANGED <<unacked, subscribed, pc, holding, effects, bounds>>

\* Qos(1): the broker pushes a delivery to a consumer that owes no answer.
Deliver(c, e) ==
    /\ pc[c] = "idle" /\ subscribed[c] /\ queue[e] > 0
    /\ queue' = [queue EXCEPT ![e] = @ - 1]
    /\ unacked' = [unacked EXCEPT ![c] = e]
    /\ holding' = [holding EXCEPT ![c] = e]
    /\ Goto(c, "received")
    /\ UNCHANGED <<arrived, subscribed, effects, bounds>>

\* The broker takes back what the consumer has not settled.
Requeue(c) ==
    /\ unacked' = [unacked EXCEPT ![c] = Nothing]
    /\ queue' = [e \in Events |-> queue[e] + (IF unacked[c] = e THEN 1 ELSE 0)]

-----------------------------------------------------------------------------
(* processDelivery *)

\* notificationFromDelivery refuses the event, which is acknowledged and dropped.
Discard(c) ==
    /\ pc[c] = "received" /\ holding[c] \in Unusable
    /\ Goto(c, "ack")
    /\ UNCHANGED <<broker, holding, effects, bounds>>

\* Begin and the INSERT of a pending row that nobody sees; then the e-mail.
Mail(c) ==
    /\ pc[c] = "received" /\ holding[c] \in Usable
    /\ mails' = [mails EXCEPT ![holding[c]] = @ + 1]
    /\ Goto(c, "mailed")
    /\ UNCHANGED <<broker, holding, stored, bounds>>

\* The row is marked sent and committed.
Commit(c) ==
    /\ pc[c] = "mailed"
    /\ stored' = [stored EXCEPT ![holding[c]] = @ + 1]
    /\ UNCHANGED <<broker, holding, mails>>

CommittedNacked(c) == Commit(c) /\ Goto(c, "nack") /\ UNCHANGED bounds
Committed(c) == Commit(c) /\ Goto(c, "ack") /\ UNCHANGED bounds

\* COMMIT takes effect and its answer is an error.
CommitUnknown(c) == Commit(c) /\ Goto(c, "nack") /\ Fault

AfterFailureDrop == "ack"
AfterFailure == "nack"

\* Begin, a statement or COMMIT fails, before or after the e-mail: roll back.
Fail(c) ==
    /\ \/ pc[c] = "mailed"
       \/ pc[c] = "received" /\ holding[c] \in Usable
    /\ Fault
    /\ Goto(c, AfterFailure)
    /\ UNCHANGED <<broker, holding, effects>>

\* An answer on a closed channel is an error that is logged.
Answered(c) ==
    /\ unacked' = [unacked EXCEPT ![c] = Nothing]
    /\ holding' = [holding EXCEPT ![c] = Nothing]
    /\ Goto(c, "idle")
    /\ UNCHANGED <<arrived, subscribed, effects, bounds>>

Ack(c) == pc[c] = "ack" /\ Answered(c) /\ UNCHANGED queue

Nack(c) == pc[c] = "nack" /\ Requeue(c) /\ Answered(c)

-----------------------------------------------------------------------------
(* Faults *)

\* The consumer ends the delivery it has and never subscribes again.
CloseChannel(c) ==
    /\ subscribed[c] /\ drops < MaxDrops
    /\ drops' = drops + 1
    /\ subscribed' = [subscribed EXCEPT ![c] = FALSE]
    /\ Requeue(c)
    /\ UNCHANGED <<arrived, pc, holding, effects, faults>>

\* The process ends: PostgreSQL rolls back, RabbitMQ requeues.
Crash(c) ==
    /\ pc[c] # "down"
    /\ Fault
    /\ Goto(c, "down")
    /\ subscribed' = [subscribed EXCEPT ![c] = FALSE]
    /\ holding' = [holding EXCEPT ![c] = Nothing]
    /\ Requeue(c)
    /\ UNCHANGED <<arrived, effects>>

Restart(c) ==
    /\ pc[c] = "down"
    /\ Goto(c, "idle")
    /\ subscribed' = [subscribed EXCEPT ![c] = TRUE]
    /\ UNCHANGED <<arrived, queue, unacked, holding, effects, bounds>>

-----------------------------------------------------------------------------
Proceed(c) ==
    \/ Discard(c) \/ Mail(c) \/ Committed(c) \/ CommitUnknown(c) \/ Fail(c)
    \/ Ack(c) \/ Nack(c) \/ Restart(c)

\* What a replica does on its own, arrivals apart.
Consume ==
    \E c \in Consumers :
        \/ \E e \in Events : Deliver(c, e)
        \/ Proceed(c) \/ CloseChannel(c) \/ Crash(c)

Next == Consume \/ \E e \in Events : Arrive(e)

Spec == Init /\ [][Next]_vars

\* As in ClickConsumer.
Fairness ==
    /\ WF_vars(\E c \in Consumers, e \in Events : Deliver(c, e))
    /\ \A c \in Consumers : WF_vars(Proceed(c))

-----------------------------------------------------------------------------
(* Properties *)

\* The type of every variable.
TypeOK ==
    /\ arrived \in [Events -> Nat] /\ queue \in [Events -> Nat]
    /\ unacked \in [Consumers -> Events \cup {Nothing}]
    /\ subscribed \in [Consumers -> BOOLEAN]
    /\ pc \in [Consumers -> {"idle", "received", "mailed", "ack", "nack", "down"}]
    /\ holding \in [Consumers -> Events \cup {Nothing}]
    /\ mails \in [Events -> Nat] /\ stored \in [Events -> Nat]
    /\ faults \in Nat /\ drops \in Nat

\* A usable event that is not stored is still in the queue or owed to it by a
\* consumer: no failure, requeue, lost answer or crash lets go of it.
NothingIsLost ==
    \A e \in Usable :
        arrived[e] > 0 /\ stored[e] = 0
            => queue[e] > 0 \/ \E c \in Consumers : unacked[c] = e

Working(e) == {c \in Consumers : pc[c] \in {"received", "mailed"} /\ holding[c] = e}

\* The consumer keeps no table of processed events: a user is told of an event once
\* for each time it was published, and again, in the worst case, for each fault and
\* each closed channel, but never more often.
RepetitionsCostFaults ==
    \A e \in Events :
        stored[e] + queue[e] + Cardinality(Working(e)) <= arrived[e] + faults + drops

\* The e-mail goes out before COMMIT: a stored notification was mailed, and mails
\* without a stored notification are those of failed or crashed transactions.
StoredIsMailed ==
    \A e \in Events :
        /\ stored[e] <= mails[e]
        /\ mails[e] <= stored[e] + faults + Cardinality(Working(e))

=============================================================================
