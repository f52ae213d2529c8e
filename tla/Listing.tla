-------------------------------- MODULE Listing --------------------------------
(***************************************************************************)
(* The lists a user pages through: GET /urls of url-service and            *)
(* GET /notifications of notification-service.  A client walks its list by *)
(* the cursor each page ends with, while rows are inserted anywhere in the *)
(* order, and links end.                                                   *)
(*                                                                         *)
(* A row is its place in the order of the list, which runs downwards: the  *)
(* random id of a link, or the start of the transaction and the id of a    *)
(* notification.  Either may be lower than that of a row stored earlier.   *)
(***************************************************************************)
EXTENDS Integers, FiniteSets

CONSTANTS
    Keys,        \* places in the order, a set of natural numbers
    Foreign,     \* those of the rows of other users
    RawLimits,   \* values of the query parameter limit
    MaxPage      \* maxNotificationLimit, and the 100 of HandleGetUrls

ASSUME ParametersOK ==
    /\ Keys \subseteq Nat /\ IsFiniteSet(Keys) /\ Foreign \subseteq Keys
    /\ RawLimits \subseteq Int /\ MaxPage \in Nat \ {0}

VARIABLES
    list,        \* which of the two is walked
    limit,       \* the limit the handler made of the client's
    rows,        \* the state of the row at each place
    cursor,      \* the client's place: the last row of the last page
    more,        \* the client has a page to ask for
    times,       \* how often each row was returned to it (bound: twice is often)
    stable       \* own rows that have been in the list since the walk began

vars == <<list, limit, rows, cursor, more, times, stable>>

Lists == {"urls", "notifications"}

\* No cursor yet: the first page.
Top == -1

Least(a, b) == IF a < b THEN a ELSE b

\* GET /urls turns any number into one from 1 to 100; GET /notifications answers 400
\* to those below 1.
RaisedNever(raw) == raw
Raised(raw) == IF raw < 1 THEN 1 ELSE raw

Accepted(l, raw) == l = "urls" \/ raw > 0
Clamped(raw) == Least(Raised(raw), MaxPage)

Own == Keys \ Foreign
Listed == {k \in Own : rows[k] = "live"}

Init ==
    /\ list \in Lists
    /\ \E raw \in RawLimits : Accepted(list, raw) /\ limit = Clamped(raw)
    /\ rows \in [Keys -> {"absent", "live"}]
    /\ cursor = Top /\ more = TRUE
    /\ times = [k \in Keys |-> 0]
    /\ stable = Listed

-----------------------------------------------------------------------------
(* One page *)

AtOrBelow(k) == cursor = Top \/ k <= cursor
Below(k) == cursor = Top \/ k < cursor

\* The WHERE clauses.  That of the notifications compares with the cursor's row, and
\* finds nothing if the user has none.
UrlsAfter == {k \in Listed : Below(k)}
NotificationsAfter ==
    {k \in Listed : Below(k) /\ (cursor # Top => cursor \in Own /\ rows[cursor] # "absent")}

After == IF list = "urls" THEN UrlsAfter ELSE NotificationsAfter

\* ORDER BY ... DESC LIMIT n.
First(n, S) == {k \in S : Cardinality({m \in S : m > k}) < n}

\* One row more than the page is fetched, to know whether there is another page.
HasMoreOfPage == Cardinality(First(limit, After)) > limit
HasMore == Cardinality(First(limit + 1, After)) > limit

Page == First(limit, First(limit + 1, After))

\* The last row of the page.
Last(S) == CHOOSE k \in S : \A m \in S : k <= m

\* The cursor of a longer list; the page of a limit of 0 would have no last row.
NextPage ==
    /\ more
    /\ times' = [k \in Keys |-> IF k \in Page THEN Least(2, times[k] + 1) ELSE times[k]]
    /\ more' = HasMore
    /\ cursor' = IF HasMore /\ Page # {} THEN Last(Page) ELSE cursor
    /\ UNCHANGED <<list, limit, rows, stable>>

-----------------------------------------------------------------------------
(* Meanwhile *)

\* A link or notification is committed, at whatever place its key has.
Insert(k) ==
    /\ rows[k] = "absent"
    /\ rows' = [rows EXCEPT ![k] = "live"]
    /\ UNCHANGED <<list, limit, cursor, more, times, stable>>

\* A link is deactivated or expires, and stays in the table.
Hide(k) ==
    /\ list = "urls" /\ rows[k] = "live"
    /\ rows' = [rows EXCEPT ![k] = "gone"]
    /\ stable' = stable \ {k}
    /\ UNCHANGED <<list, limit, cursor, more, times>>

Next == NextPage \/ \E k \in Keys : Insert(k) \/ Hide(k)

Spec == Init /\ [][Next]_vars

\* The client asks for the next page as long as there is one.
FairSpec == Spec /\ WF_vars(NextPage)

-----------------------------------------------------------------------------
(* Properties *)

\* The type of every variable.
TypeOK ==
    /\ list \in Lists /\ limit \in 1 .. MaxPage
    /\ rows \in [Keys -> {"absent", "live", "gone"}]
    /\ cursor \in Keys \cup {Top} /\ more \in BOOLEAN
    /\ times \in [Keys -> 0 .. 2]
    /\ stable \subseteq Own

\* Whoever has walked to the end was shown every row that was in the list all the
\* while, although other rows came and went, the row of the cursor among them.
WalkIsComplete == ~ more => \A k \in stable : times[k] > 0

\* No row is shown twice, wherever rows were inserted between two pages.
NothingIsShownTwice == \A k \in Keys : times[k] <= 1

\* A walk ends, however many rows come in meanwhile.
WalksEnd == <>(~ more)

\* The places of own rows, present or to come, that the walk has still before it.
Ahead == {k \in Own : Below(k)}

\* Why WalksEnd holds, and after how many pages: one that promises another is not
\* empty and leaves fewer places ahead, and no row that comes in adds one.
Advances ==
    /\ Ahead' \subseteq Ahead
    /\ NextPage /\ more' => Cardinality(Ahead') < Cardinality(Ahead)

PagesAdvance == [][Advances]_vars

=============================================================================
