------------------------------- MODULE Pipeline -------------------------------
(***************************************************************************)
(* From a click to the notification of its milestone: the consumer of      *)
(* analytics-service publishes milestone.reached into the queue that the   *)
(* consumer of notification-service reads, beside the url.created and      *)
(* url.deleted events of the relay.  Both share the bounds on faults.      *)
(***************************************************************************)
EXTENDS ClickConsumer

CONSTANTS
    Tellers,      \* consumers of notification-service
    LinkEvents,   \* url.created and url.deleted events
    Unusable      \* those of them without a user or an e-mail

ASSUME TwoServices == Tellers \cap Consumers = {}

VARIABLES
    told,         \* how often each link event was put into the queue
    nqueue, nunacked, nsubscribed, npc, nholding,   \* as in NotificationConsumer
    mails, stored

notes == <<told, nqueue, nunacked, nsubscribed, npc, nholding, mails, stored>>

\* The topics notificationRoutingKeys binds; a milestone stands for its event.
Topics == Thresholds \cup LinkEvents

Published == [e \in Topics |-> IF e \in Thresholds THEN announced[e] ELSE told[e]]

Teller == INSTANCE NotificationConsumer
    WITH Events <- Topics, Consumers <- Tellers, arrived <- Published, queue <- nqueue,
         unacked <- nunacked, subscribed <- nsubscribed, pc <- npc, holding <- nholding

ASSUME TellersOK == Teller!ParametersOK

PipeInit ==
    /\ Init
    /\ told = [e \in LinkEvents |-> 0]
    /\ Teller!Init

\* A step of analytics-service; an announcement lands in the other queue.
Forward(t) == Teller!Arrive(t)

ClickStep ==
    /\ Next
    /\ UNCHANGED told
    /\ IF announced' = announced
       THEN UNCHANGED notes
       ELSE \E t \in Thresholds : announced'[t] # announced[t] /\ Forward(t)

\* The relay of url-service hands a link event over.
Tell(e) ==
    /\ told[e] = 0
    /\ told' = [told EXCEPT ![e] = 1]
    /\ UNCHANGED vars
    /\ Teller!Arrive(e)

TellerStep ==
    /\ UNCHANGED <<broker, pc, holding, transaction, tables, announced, told>>
    /\ Teller!Consume

PipeNext == ClickStep \/ TellerStep \/ \E e \in LinkEvents : Tell(e)

PipeSpec ==
    /\ PipeInit /\ [][PipeNext]_<<vars, notes>>
    /\ Fairness /\ Teller!Fairness

-----------------------------------------------------------------------------
(* Properties *)

\* A notification is stored again only for another publication, a fault or a closed
\* channel, and mailed again, or without being stored, only for a fault.
RepetitionsCostFaults == Teller!RepetitionsCostFaults /\ Teller!StoredIsMailed

\* Still running, and never to be given a delivery again.
Deaf(c) == ~ subscribed[c] /\ pc[c] # "down"
DeafTeller(c) == ~ nsubscribed[c] /\ npc[c] # "down"

\* Every valid click that arrives is counted, and every usable event that is
\* published is stored for its user, through crashes and failed statements; only a
\* replica that kept running after its channel was closed may leave it undone.
EventsAreHandled ==
    /\ \A e \in Valid :
        arrived[e] > 0 ~> e \in processed \/ \E c \in Consumers : Deaf(c)
    /\ \A e \in Topics \ Unusable :
        Published[e] > 0 ~> stored[e] > 0 \/ \E c \in Tellers : DeafTeller(c)

\* A milestone is announced before the transaction that records it commits, so a
\* user may be told of one that was rolled back; with one replica it is recorded in
\* the end, because the click that reached it is never lost.  (Of two that race on a
\* repeated event, one may announce what the other's older count did not reach.)
PhantomsComeTrue ==
    \A t \in Thresholds :
        stored[t] > 0 ~> t \in milestones \/ \E c \in Consumers : Deaf(c)

\* Why it does, but for fairness: what was announced, mailed or stored and is not
\* recorded is the very next threshold, and a click that will reach it is still in
\* the queue or owed to it.
PhantomsAreOwed ==
    \A t \in Thresholds \ milestones :
        announced[t] > 0 \/ mails[t] > 0 \/ stored[t] > 0
            => /\ t = Len(clicks) + 1
               /\ \E e \in Valid \ processed :
                    queue[e] > 0 \/ \E c \in Consumers : unacked[c] = e

=============================================================================
