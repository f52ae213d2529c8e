---------------------------- MODULE ClickConsumer ----------------------------
(***************************************************************************)
(* The consumers of analytics-service: deliveries of click events from the *)
(* queue analytics.clicks, the transaction that deduplicates, counts and   *)
(* checks milestones, the announcement published inside it, and the        *)
(* acknowledgement.  One consumer per replica; a rolling update runs two.  *)
(*                                                                         *)
(* All events are clicks of one short code: those of another share no row  *)
(* with them.  A step is one statement, one AMQP frame or one COMMIT.      *)
(***************************************************************************)
EXTENDS Naturals, Sequences, FiniteSets

CONSTANTS
    Events,       \* click events, by event_id
    Malformed,    \* those whose body does not parse or has an empty id
    Nothing,      \* no event
    Consumers,    \* ClickConsumer.Run of each replica
    Thresholds,   \* MilestoneThresholds
    Repeated,     \* bound: the events the relay hands over twice
    MaxFaults,    \* bound: failed statements and publications, crashes
    MaxDrops      \* bound: AMQP channels the broker closes

ASSUME ParametersOK ==
    /\ Malformed \subseteq Events /\ Nothing \notin Events
    /\ IsFiniteSet(Consumers) /\ Consumers # {} /\ Thresholds \subseteq Nat \ {0}
    /\ Repeated \subseteq Events
    /\ MaxFaults \in Nat /\ MaxDrops \in Nat

VARIABLES
    arrived,      \* how often each event was put into the queue
    queue,        \* the copies of each event that wait in the queue
    unacked,      \* the delivery each consumer has not settled, for the broker
    subscribed,   \* the delivery channel of the consumer is open
    pc,           \* where each consumer is in processDelivery
    holding,      \* the delivery it works on
    marked,       \* its transaction inserted the row of processed_events
    due,          \* thresholds its transaction has still to look at
    at,           \* the one it is recording, or 0
    own,          \* rows of milestones its transaction inserted
    processed,    \* processed_events, committed
    clicks,       \* clicks, committed
    milestones,   \* milestones, committed
    announced,    \* how often milestone.reached was published for a threshold
    faults, drops

broker == <<arrived, queue, unacked, subscribed>>
transaction == <<marked, due, at, own>>
tables == <<processed, clicks, milestones>>
bounds == <<faults, drops>>
vars == <<broker, pc, holding, transaction, tables, announced, bounds>>

Valid == Events \ Malformed

Init ==
    /\ arrived = [e \in Events |-> 0] /\ queue = [e \in Events |-> 0]
    /\ unacked = [c \in Consumers |-> Nothing]
    /\ subscribed = [c \in Consumers |-> TRUE]
    /\ pc = [c \in Consumers |-> "idle"]
    /\ holding = [c \in Consumers |-> Nothing]
    /\ marked = [c \in Consumers |-> FALSE]
    /\ due = [c \in Consumers |-> {}] /\ at = [c \in Consumers |-> 0]
    /\ own = [c \in Consumers |-> {}]
    /\ processed = {} /\ clicks = <<>> /\ milestones = {}
    /\ announced = [t \in Thresholds |-> 0]
    /\ faults = 0 /\ drops = 0

Goto(c, label) == pc' = [pc EXCEPT ![c] = label]

Fault == faults < MaxFaults /\ faults' = faults + 1 /\ UNCHANGED drops

Forget(c) ==
    /\ marked' = [marked EXCEPT ![c] = FALSE]
    /\ due' = [due EXCEPT ![c] = {}]
    /\ at' = [at EXCEPT ![c] = 0]
    /\ own' = [own EXCEPT ![c] = {}]

-----------------------------------------------------------------------------
(* The queue *)

\* The relay, or a publisher that retries, hands a click event to the exchange.
Arrive(e) ==
    /\ arrived[e] < IF e \in Repeated THEN 2 ELSE 1
    /\ arrived' = [arrived EXCEPT ![e] = @ + 1]
    /\ queue' = [queue EXCEPT ![e] = @ + 1]
    /\ UNCHANGED <<unacked, subscribed, pc, holding, transaction, tables, announced, bounds>>

\* Qos(1): the broker pushes a delivery to a consumer that owes no answer.
Deliver(c, e) ==
    /\ pc[c] = "idle" /\ subscribed[c] /\ queue[e] > 0
    /\ queue' = [queue EXCEPT ![e] = @ - 1]
    /\ unacked' = [unacked EXCEPT ![c] = e]
    /\ holding' = [holding EXCEPT ![c] = e]
    /\ Goto(c, "received")
    /\ UNCHANGED <<arrived, subscribed, transaction, tables, announced, bounds>>

\* The broker takes back what the consumer has not settled.
Requeue(c) ==
    /\ unacked' = [unacked EXCEPT ![c] = Nothing]
    /\ queue' = [e \in Events |-> queue[e] + (IF unacked[c] = e THEN 1 ELSE 0)]

-----------------------------------------------------------------------------
(* processDelivery *)

Parses(c) == holding[c] \in Valid

\* An event that cannot be parsed is acknowledged and dropped.
Discard(c) ==
    /\ pc[c] = "received" /\ ~ Parses(c)
    /\ Goto(c, "ack")
    /\ UNCHANGED <<broker, holding, transaction, tables, announced, bounds>>

SeenNever(c) == FALSE
Seen(c) == holding[c] \in processed

Exists(c) ==
    /\ pc[c] = "received" /\ Parses(c)
    /\ Goto(c, IF Seen(c) THEN "ack" ELSE "new")
    /\ UNCHANGED <<broker, holding, transaction, tables, announced, bounds>>

InsertProcessedOutside(c) ==
    /\ pc[c] = "new"
    /\ processed' = processed \cup {holding[c]}
    /\ Goto(c, "click")
    /\ UNCHANGED <<broker, holding, transaction, clicks, milestones, announced, bounds>>

\* ON CONFLICT DO NOTHING waits for the transaction that holds the key, and then
\* inserts or not; the caller is not told which.
InsertProcessed(c) ==
    /\ pc[c] = "new"
    /\ ~ \E d \in Consumers \ {c} : marked[d] /\ holding[d] = holding[c]
    /\ marked' = [marked EXCEPT ![c] = holding[c] \notin processed]
    /\ Goto(c, "click")
    /\ UNCHANGED <<broker, holding, due, at, own, tables, announced, bounds>>

\* Its own click and those committed by now.
ReachedBefore == {t \in Thresholds : t <= Len(clicks)}
Reached == {t \in Thresholds : t <= Len(clicks) + 1}

\* The click's own INSERT, which nobody sees before COMMIT, and the count.
InsertClick(c) ==
    /\ pc[c] = "click"
    /\ due' = [due EXCEPT ![c] = Reached]
    /\ Goto(c, "check")
    /\ UNCHANGED <<broker, holding, marked, at, own, tables, announced, bounds>>

\* CheckAndPublish goes through the thresholds in ascending order.
InTurnAny(c, t) == t \in due[c]
InTurn(c, t) == t \in due[c] /\ \A u \in due[c] : t <= u

RecordedNever(t) == FALSE
Recorded(t) == t \in milestones

HasMilestone(c, t) ==
    /\ pc[c] = "check" /\ InTurn(c, t) /\ Recorded(t)
    /\ due' = [due EXCEPT ![c] = @ \ {t}]
    /\ UNCHANGED <<broker, pc, holding, marked, at, own, tables, announced, bounds>>

NoMilestone(c, t) ==
    /\ pc[c] = "check" /\ InTurn(c, t) /\ ~ Recorded(t)
    /\ at' = [at EXCEPT ![c] = t]
    /\ Goto(c, "insert")
    /\ UNCHANGED <<broker, holding, marked, due, own, tables, announced, bounds>>

\* As InsertProcessed: it waits for another transaction's row, and is not told.
InsertMilestone(c) ==
    /\ pc[c] = "insert"
    /\ \A d \in Consumers \ {c} : at[c] \notin own[d]
    /\ own' = [own EXCEPT ![c] = @ \cup ({at[c]} \ milestones)]
    /\ Goto(c, "publish")
    /\ UNCHANGED <<broker, holding, marked, due, at, tables, announced, bounds>>

NextThreshold(c) ==
    /\ due' = [due EXCEPT ![c] = @ \ {at[c]}]
    /\ at' = [at EXCEPT ![c] = 0]
    /\ Goto(c, "check")
    /\ UNCHANGED <<broker, holding, marked, own, tables>>

\* The announcement leaves before COMMIT.
PublishMilestone(c) ==
    /\ pc[c] = "publish" /\ subscribed[c]
    /\ announced' = [announced EXCEPT ![at[c]] = @ + 1]
    /\ NextThreshold(c)
    /\ UNCHANGED bounds

\* An error of PublishMilestone, sure on a closed channel, is only logged.
PublishFails(c) ==
    /\ pc[c] = "publish"
    /\ \/ subscribed[c] /\ Fault
       \/ ~ subscribed[c] /\ UNCHANGED bounds
    /\ NextThreshold(c)
    /\ UNCHANGED announced

Commit(c) ==
    /\ pc[c] = "check" /\ due[c] = {}
    /\ processed' = processed \cup {holding[c]}
    /\ clicks' = Append(clicks, holding[c])
    /\ milestones' = milestones \cup own[c]
    /\ Forget(c)
    /\ UNCHANGED <<broker, holding, announced>>

Committed(c) == Commit(c) /\ Goto(c, "ack") /\ UNCHANGED bounds

\* COMMIT takes effect and its answer is an error.
CommitUnknown(c) == Commit(c) /\ Goto(c, "nack") /\ Fault

\* A statement, or COMMIT, fails: roll back and requeue.  So it does when the
\* context is cancelled by a shutdown.
AfterFailureDrop == "ack"
AfterFailure == "nack"

Fail(c) ==
    /\ \/ pc[c] \in {"new", "click", "check", "insert"}
       \/ pc[c] = "received" /\ Parses(c)
    /\ Fault
    /\ Forget(c)
    /\ Goto(c, AfterFailure)
    /\ UNCHANGED <<broker, holding, tables, announced>>

\* An answer on a closed channel is an error that is logged.
Answered(c) ==
    /\ unacked' = [unacked EXCEPT ![c] = Nothing]
    /\ holding' = [holding EXCEPT ![c] = Nothing]
    /\ Goto(c, "idle")
    /\ UNCHANGED <<arrived, subscribed, transaction, tables, announced, bounds>>

Ack(c) == pc[c] = "ack" /\ Answered(c) /\ UNCHANGED queue

Nack(c) == pc[c] = "nack" /\ Requeue(c) /\ Answered(c)

-----------------------------------------------------------------------------
(* Faults *)

\* The consumer ends the delivery it has and never subscribes again.
CloseChannel(c) ==
    /\ subscribed[c] /\ drops < MaxDrops
    /\ drops' = drops + 1
    /\ subscribed' = [subscribed EXCEPT ![c] = FALSE]
    /\ Requeue(c)
    /\ UNCHANGED <<arrived, pc, holding, transaction, tables, announced, faults>>

\* The process ends: PostgreSQL rolls back, RabbitMQ requeues.
Crash(c) ==
    /\ pc[c] # "down"
    /\ Fault
    /\ Goto(c, "down")
    /\ subscribed' = [subscribed EXCEPT ![c] = FALSE]
    /\ holding' = [holding EXCEPT ![c] = Nothing]
    /\ Requeue(c) /\ Forget(c)
    /\ UNCHANGED <<arrived, tables, announced>>

Restart(c) ==
    /\ pc[c] = "down"
    /\ Goto(c, "idle")
    /\ subscribed' = [subscribed EXCEPT ![c] = TRUE]
    /\ UNCHANGED <<arrived, queue, unacked, holding, transaction, tables, announced, bounds>>

-----------------------------------------------------------------------------
Transact(c) ==
    \/ Exists(c) \/ InsertProcessed(c) \/ InsertClick(c)
    \/ \E t \in Thresholds : HasMilestone(c, t) \/ NoMilestone(c, t)
    \/ InsertMilestone(c) \/ PublishMilestone(c) \/ PublishFails(c)
    \/ Committed(c) \/ CommitUnknown(c) \/ Fail(c)

Proceed(c) == Discard(c) \/ Transact(c) \/ Ack(c) \/ Nack(c) \/ Restart(c)

Next ==
    \/ \E e \in Events : Arrive(e)
    \/ \E c \in Consumers :
        \/ \E e \in Events : Deliver(c, e)
        \/ Proceed(c) \/ CloseChannel(c) \/ Crash(c)

Spec == Init /\ [][Next]_vars

\* The broker delivers while somebody listens, statements end, and Kubernetes
\* starts a replica again.  Nothing brings a closed channel back.
Fairness ==
    /\ WF_vars(\E c \in Consumers, e \in Events : Deliver(c, e))
    /\ \A c \in Consumers : WF_vars(Proceed(c))

-----------------------------------------------------------------------------
(* Properties *)

Labels ==
    {"idle", "received", "new", "click", "check", "insert", "publish", "ack", "nack", "down"}

\* The type of every variable.
TypeOK ==
    /\ arrived \in [Events -> Nat] /\ queue \in [Events -> Nat]
    /\ unacked \in [Consumers -> Events \cup {Nothing}]
    /\ subscribed \in [Consumers -> BOOLEAN]
    /\ pc \in [Consumers -> Labels]
    /\ holding \in [Consumers -> Events \cup {Nothing}]
    /\ marked \in [Consumers -> BOOLEAN]
    /\ due \in [Consumers -> SUBSET Thresholds]
    /\ at \in [Consumers -> Thresholds \cup {0}]
    /\ own \in [Consumers -> SUBSET Thresholds]
    /\ processed \subseteq Valid
    /\ clicks \in Seq(Valid)
    /\ milestones \subseteq Thresholds
    /\ announced \in [Thresholds -> Nat]
    /\ faults \in Nat /\ drops \in Nat

Rows(e) == {i \in 1 .. Len(clicks) : clicks[i] = e}

\* main_docs.md:5074: the row of processed_events and the click of an event appear
\* together, whatever statement fails, whoever dies, and however COMMIT is answered.
ProcessedIsCounted == \A e \in Events : e \in processed <=> Rows(e) # {}

\* A click event that is not counted is still in the queue or owed to it by a
\* consumer: no failure, requeue, lost answer or crash lets go of it.
NothingIsLost ==
    \A e \in Valid :
        arrived[e] > 0 /\ e \notin processed
            => queue[e] > 0 \/ \E c \in Consumers : unacked[c] = e

\* ON CONFLICT DO NOTHING hides the loser of a race, so replicas that work on two
\* deliveries of an event may both count it; but together they count it no more often
\* than there are replicas, whatever is redelivered.
CountedOncePerConsumer ==
    \A e \in Events : Cardinality(Rows(e)) <= Cardinality(Consumers)

\* Transactions count without seeing each other, so that those that bring the clicks
\* to a threshold together may all miss it.  But none is recorded that was not reached,
\* and one that was is recorded before as many clicks as there are replicas have
\* reached it: with a single replica, by the very click.
MilestonesKeepUp ==
    /\ \A t \in milestones : t <= Len(clicks)
    /\ \A t \in Thresholds \ milestones :
          t <= Len(clicks) => Len(clicks) - t + 1 < Cardinality(Consumers)

\* A milestone is announced once, but for replicas that race and transactions that
\* roll back after the announcement; it is recorded in silence only when a
\* publication failed, and then for good.
AnnouncementsCostFaults ==
    \A t \in Thresholds :
        /\ announced[t] <= Cardinality(Consumers) + faults
        /\ t \in milestones /\ announced[t] = 0 => faults + drops > 0

InTransaction(c) == pc[c] \in {"new", "click", "check", "insert", "publish"}

Waits(c) ==
    \/ pc[c] = "new" /\ \E d \in Consumers \ {c} : marked[d] /\ holding[d] = holding[c]
    \/ pc[c] = "insert" /\ \E d \in Consumers \ {c} : at[c] \in own[d]

\* Transactions take the rows of milestones in one order, so they never wait for
\* each other in a circle.
SomeoneRuns ==
    (\E c \in Consumers : InTransaction(c))
        => \E c \in Consumers : InTransaction(c) /\ ~ Waits(c)

Counter == INSTANCE ClickCount
    WITH Events <- Valid, arrived <- {e \in Valid : arrived[e] > 0}

\* main_docs.md:5073: a single consumer implements ClickCount.  Each event counts
\* once, and its transaction records exactly the milestones the count has reached.
CountsOnce == Counter!Spec

=============================================================================
