----------------------------- MODULE EventRelay -----------------------------
(***************************************************************************)
(* What the outbox promises to the services behind the broker, whatever    *)
(* replicas, leases and workers it is made of: an event that was committed *)
(* is handed to the broker at least once, and only an event that was       *)
(* handed over is ever taken off the list.                                 *)
(***************************************************************************)
CONSTANT Events

VARIABLES accepted, handed, settled

vars == <<accepted, handed, settled>>

Init == accepted = {} /\ handed = {} /\ settled = {}

\* A transaction of url-service commits the event.
Accept(e) ==
    /\ e \notin accepted
    /\ accepted' = accepted \cup {e}
    /\ UNCHANGED <<handed, settled>>

\* Publish returns nil.  Doing it once more changes nothing here.
Hand(e) ==
    /\ e \in accepted
    /\ handed' = handed \cup {e}
    /\ UNCHANGED <<accepted, settled>>

\* published_at is set.
Settle(e) ==
    /\ e \in handed
    /\ settled' = settled \cup {e}
    /\ UNCHANGED <<accepted, handed>>

Next == \E e \in Events : Accept(e) \/ Hand(e) \/ Settle(e)

Spec == Init /\ [][Next]_vars

\* Every accepted event is settled in the end.
FairSpec == Spec /\ \A e \in Events : WF_vars(Hand(e)) /\ WF_vars(Settle(e))

=============================================================================
