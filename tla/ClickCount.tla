------------------------------ MODULE ClickCount ------------------------------
(***************************************************************************)
(* What analytics-service promises for one short code: each click event is *)
(* counted once, and the milestones of the code are, at every moment, the  *)
(* thresholds its count has reached.  No deliveries, transactions or       *)
(* replicas.                                                               *)
(***************************************************************************)
EXTENDS Naturals, Sequences

CONSTANTS Events, Thresholds

VARIABLES
    arrived,     \* events a consumer may be given
    clicks,      \* the events counted, in the order of their transactions
    milestones   \* rows of the table milestones

vars == <<arrived, clicks, milestones>>

Counted == {clicks[i] : i \in 1 .. Len(clicks)}

Init == arrived = {} /\ clicks = <<>> /\ milestones = {}

Arrive(e) ==
    /\ e \notin arrived
    /\ arrived' = arrived \cup {e}
    /\ UNCHANGED <<clicks, milestones>>

Count(e) ==
    /\ e \in arrived \ Counted
    /\ clicks' = Append(clicks, e)
    /\ milestones' = {t \in Thresholds : t <= Len(clicks')}
    /\ UNCHANGED arrived

Next == \E e \in Events : Arrive(e) \/ Count(e)

Spec == Init /\ [][Next]_vars

=============================================================================
