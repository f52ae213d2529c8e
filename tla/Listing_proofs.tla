---------------------------- MODULE Listing_proofs ----------------------------
(***************************************************************************)
(* Proofs about Listing for any finite order, any limits and any insertions*)
(* and endings between two pages.                                          *)
(***************************************************************************)
EXTENDS Listing, FiniteSetTheorems, WellFoundedInduction, TLAPS

-----------------------------------------------------------------------------
(* Sets of places, and the first n of them *)

\* Every nonempty set of natural numbers has a least element.
LEMMA Minimum ==
  ASSUME NEW S \in SUBSET Nat, S # {}
  PROVE  \E k \in S : \A m \in S : k <= m
  <1>1. PICK k \in S : \A m \in S : ~ (<<m, k>> \in OpToRel(<, Nat))
    BY NatLessThanWellFounded, WFMin
  <1>2. \A m \in S : ~ (m < k)
    BY <1>1 DEF OpToRel
  <1> QED BY <1>2

\* Last is the least place of a page.
LEMMA LastIsLeast ==
  ASSUME NEW S \in SUBSET Nat, S # {}
  PROVE  Last(S) \in S /\ \A m \in S : Last(S) <= m
  <1> QED BY Minimum DEF Last

\* The places above one are finitely many, and fewer above a higher one.
LEMMA Above ==
  ASSUME NEW S \in SUBSET Nat, IsFiniteSet(S), NEW k \in S
  PROVE  /\ Cardinality({m \in S : m > k}) \in Nat
         /\ \A p \in S : p > k => Cardinality({m \in S : m > p}) < Cardinality({m \in S : m > k})
  <1>1. IsFiniteSet({m \in S : m > k})
    BY FS_Subset
  <1>2. Cardinality({m \in S : m > k}) \in Nat
    BY <1>1, FS_CardinalityType
  <1>3. ASSUME NEW p \in S, p > k
        PROVE  Cardinality({m \in S : m > p}) < Cardinality({m \in S : m > k})
    <2>0. p \in Nat /\ k \in Nat /\ \A m \in S : m \in Nat
      OBVIOUS
    <2>1. {m \in S : m > p} \in SUBSET {m \in S : m > k}
      <3>1. \A m \in S : m > p => m > k
        BY <1>3, <2>0
      <3> QED BY <3>1
    <2>2. p \in {m \in S : m > k} /\ p \notin {m \in S : m > p}
      BY <1>3, <2>0
    <2>3. IsFiniteSet({m \in S : m > p})
      BY FS_Subset
    <2>4. Cardinality({m \in S : m > p}) \in Nat
      BY <2>3, FS_CardinalityType
    <2> QED BY <1>1, <1>2, <2>1, <2>2, <2>4, FS_Subset
  <1> QED BY <1>2, <1>3

\* What is not among the first n is below all of them.
LEMMA FirstIsHigher ==
  ASSUME NEW S \in SUBSET Nat, IsFiniteSet(S), NEW n \in Nat,
         NEW k \in S, k \notin First(n, S), NEW p \in First(n, S)
  PROVE  k < p
  <1>1. p \in S /\ Cardinality({m \in S : m > p}) < n
    BY DEF First
  <1>2. ~ (Cardinality({m \in S : m > k}) < n)
    BY DEF First
  <1>3. Cardinality({m \in S : m > k}) \in Nat /\ Cardinality({m \in S : m > p}) \in Nat
    BY <1>1, Above
  <1>4. CASE k > p
    <2>1. Cardinality({m \in S : m > k}) < Cardinality({m \in S : m > p})
      BY <1>1, <1>4, Above
    <2> QED BY <1>1, <1>2, <1>3, <2>1
  <1>5. k # p
    BY <1>1, <1>2
  <1>6. k \in Nat /\ p \in Nat
    BY <1>1
  <1> QED BY <1>4, <1>5, <1>6

\* If the first n are fewer than n, they are all.
LEMMA FirstIsAll ==
  ASSUME NEW S \in SUBSET Nat, IsFiniteSet(S), NEW n \in Nat,
         Cardinality(First(n, S)) < n
  PROVE  First(n, S) = S
  <1> DEFINE F == First(n, S)
             C(k) == Cardinality({m \in S : m > k})
             T == {C(k) : k \in S \ F}
  <1>1. F \in SUBSET S
    BY DEF First
  <1> SUFFICES ASSUME S \ F # {} PROVE FALSE
    BY <1>1
  <1>2. T \in SUBSET Nat /\ T # {}
    BY Above
  <1>3. PICK c \in T : \A d \in T : c <= d
    <2> HIDE DEF T
    <2> QED BY <1>2, Minimum
  <1>4. PICK k \in S \ F : c = C(k)
    BY <1>3
  <1>5. {m \in S : m > k} \in SUBSET F
    <2> SUFFICES ASSUME NEW m \in S, m > k, m \notin F PROVE FALSE
      OBVIOUS
    <2>1. C(m) \in T
      OBVIOUS
    <2>2. C(m) < C(k) /\ C(m) \in Nat /\ C(k) \in Nat
      BY Above
    <2>3. C(k) <= C(m)
      BY <1>3, <1>4, <2>1
    <2> HIDE DEF C
    <2> QED BY <2>2, <2>3
  <1>6. IsFiniteSet(F) /\ Cardinality(F) \in Nat
    BY <1>1, FS_Subset, FS_CardinalityType
  <1>7. C(k) <= Cardinality(F) /\ C(k) \in Nat
    BY <1>5, <1>6, FS_Subset, Above
  <1>8. ~ (C(k) < n)
    BY <1>4 DEF First
  <1> HIDE DEF C, F
  <1> QED BY <1>6, <1>7, <1>8 DEF F

-----------------------------------------------------------------------------
(* The page *)

\* The cursor's row is still the user's, and the rows after it are those below it.
CursorIsOwn == cursor # Top => cursor \in Own /\ rows[cursor] # "absent"

LEMMA PlacesAfter ==
  ASSUME TypeOK, CursorIsOwn
  PROVE  /\ After = {k \in Listed : Below(k)}
         /\ After \in SUBSET Nat /\ IsFiniteSet(After)
  <1>1. After = {k \in Listed : Below(k)}
    BY DEF After, UrlsAfter, NotificationsAfter, CursorIsOwn
  <1>2. After \in SUBSET Keys
    BY <1>1 DEF Listed, Own
  <1> QED BY <1>1, <1>2, FS_Subset, ParametersOK

LEMMA LimitIsNat == TypeOK => limit \in Nat /\ limit > 0
  <1> QED BY ParametersOK DEF TypeOK

\* A page that is not the last one leaves only lower places; the last one, none.
LEMMA PageIsFirst ==
  ASSUME TypeOK, CursorIsOwn
  PROVE  /\ Page \in SUBSET After
         /\ \A k \in After \ Page : HasMore /\ \A p \in Page : k < p
         /\ Page # {} => Last(Page) \in Page /\ \A p \in Page : Last(Page) <= p
  <1> DEFINE A == After
             F == First(limit + 1, A)
  <1>0. A \in SUBSET Nat /\ IsFiniteSet(A) /\ limit \in Nat /\ limit > 0
    BY PlacesAfter, LimitIsNat
  <1>1. F \in SUBSET A /\ Page \in SUBSET F
    BY DEF First, Page
  <1>2. F \in SUBSET Nat /\ IsFiniteSet(F) /\ Cardinality(F) \in Nat
    BY <1>0, <1>1, FS_Subset, FS_CardinalityType
  <1>3. ASSUME NEW k \in A \ Page, NEW p \in Page
        PROVE  k < p
    <2> HIDE DEF A, F
    <2>1. CASE k \in F
      BY <1>0, <1>2, <2>1, FirstIsHigher DEF Page, F, A
    <2>2. CASE k \notin F
      <3>1. p \in F /\ limit + 1 \in Nat
        BY <1>0, <1>1
      <3> QED BY <1>0, <2>2, <3>1, FirstIsHigher DEF F
    <2> QED BY <2>1, <2>2
  <1>4. ASSUME NEW k \in A \ Page, ~ HasMore
        PROVE  FALSE
    <2>1. ~ (Cardinality(F) > limit)
      BY <1>4 DEF HasMore
    <2> HIDE DEF A
    <2>2. Cardinality(F) < limit + 1 /\ limit + 1 \in Nat
      <3> HIDE DEF F
      <3> QED BY <1>0, <1>2, <2>1
    <2>3. F = A
      BY <1>0, <2>2, FirstIsAll
    <2> HIDE DEF F
    <2>4. {m \in F : m > k} \in SUBSET F /\ k \in F /\ k \notin {m \in F : m > k}
      BY <1>2, <2>3
    <2>5. Cardinality({m \in F : m > k}) < Cardinality(F)
      <3>1. IsFiniteSet({m \in F : m > k})
        BY <1>2, FS_Subset
      <3>2. Cardinality({m \in F : m > k}) \in Nat
        BY <3>1, FS_CardinalityType
      <3> QED BY <1>2, <2>4, <3>2, FS_Subset
    <2>6. Cardinality({m \in F : m > k}) \in Nat
      BY <1>2, <2>4, FS_Subset, FS_CardinalityType
    <2>7. Cardinality({m \in F : m > k}) < limit
      BY <1>0, <1>2, <2>1, <2>5, <2>6
    <2>8. k \in First(limit, F)
      BY <2>4, <2>7 DEF First
    <2> QED BY <2>8 DEF Page, F, A
  <1>5. Page \in SUBSET Nat
    BY <1>1, <1>2
  <1> QED BY <1>1, <1>3, <1>4, <1>5, LastIsLeast

-----------------------------------------------------------------------------
(* Types *)

LEMMA TypeInit == Init => TypeOK /\ CursorIsOwn
  <1> SUFFICES ASSUME Init PROVE TypeOK /\ CursorIsOwn
    OBVIOUS
  <1>1. limit \in 1 .. MaxPage
    BY ParametersOK DEF Init, Clamped, Least, Raised
  <1>2. stable \subseteq Own
    BY DEF Init, Listed
  <1>3. times \in [Keys -> 0 .. 2]
    BY DEF Init
  <1> QED BY <1>1, <1>2, <1>3 DEF Init, TypeOK, CursorIsOwn

LEMMA TypeStep == TypeOK /\ CursorIsOwn /\ [Next]_vars => TypeOK' /\ CursorIsOwn'
  <1> SUFFICES ASSUME TypeOK, CursorIsOwn, [Next]_vars PROVE TypeOK' /\ CursorIsOwn'
    OBVIOUS
  <1>1. CASE NextPage
    <2>1. times' \in [Keys -> 0 .. 2]
      <3>1. \A k \in Keys : times[k] \in 0 .. 2
        BY DEF TypeOK
      <3>2. \A k \in Keys : Least(2, times[k] + 1) \in 0 .. 2
        BY <3>1 DEF Least
      <3> QED BY <1>1, <3>1, <3>2 DEF NextPage
    <2>2. more' \in BOOLEAN
      BY <1>1 DEF NextPage, HasMore
    <2>3. cursor' # cursor => cursor' \in Listed
      BY <1>1, PageIsFirst, PlacesAfter DEF NextPage
    <2>4. Listed \in SUBSET Keys /\ Own' = Own
      BY DEF Listed, Own
    <2>5. CursorIsOwn'
      BY <1>1, <2>3, <2>4 DEF NextPage, CursorIsOwn, Listed
    <2> QED BY <1>1, <2>1, <2>2, <2>3, <2>4, <2>5 DEF NextPage, TypeOK
  <1>2. ASSUME NEW k \in Keys, Insert(k) PROVE TypeOK' /\ CursorIsOwn'
    BY <1>2 DEF Insert, TypeOK, CursorIsOwn, Own
  <1>3. ASSUME NEW k \in Keys, Hide(k) PROVE TypeOK' /\ CursorIsOwn'
    BY <1>3 DEF Hide, TypeOK, CursorIsOwn, Own
  <1>4. CASE UNCHANGED vars
    BY <1>4 DEF vars, TypeOK, CursorIsOwn, Own
  <1> QED BY <1>1, <1>2, <1>3, <1>4 DEF Next

\* Every variable keeps its type: above all the limit is one to the maximum, whatever
\* the client asked for.
THEOREM TypeCorrect == Spec => []TypeOK
  <1> QED BY TypeInit, TypeStep, PTL DEF Spec

LEMMA CursorCorrect == Spec => [](TypeOK /\ CursorIsOwn)
  <1> QED BY TypeInit, TypeStep, PTL DEF Spec

-----------------------------------------------------------------------------
(* The walk *)

\* What was shown is at or above the cursor.
ShownIsAbove ==
  \A k \in Keys : times[k] > 0 /\ more => cursor # Top /\ cursor <= k

\* What stayed in the list was shown or is still ahead.
StableIsAhead ==
  \A k \in stable : k \in Listed /\ (times[k] > 0 \/ (more /\ Below(k)))

WalkInv == NothingIsShownTwice /\ ShownIsAbove /\ StableIsAhead

LEMMA WalkStep == TypeOK /\ CursorIsOwn /\ WalkInv /\ [Next]_vars => WalkInv'
  <1> SUFFICES ASSUME TypeOK, CursorIsOwn, WalkInv, [Next]_vars PROVE WalkInv'
    OBVIOUS
  <1>t. /\ times \in [Keys -> 0 .. 2] /\ stable \subseteq Own
        /\ cursor \in Keys \cup {Top} /\ Keys \subseteq Nat /\ Own \subseteq Keys
        /\ rows \in [Keys -> {"absent", "live", "gone"}]
    BY ParametersOK DEF TypeOK, Own
  <1> USE DEF Top
  <1>1. CASE NextPage
    <2>1. /\ \A k \in Keys : times'[k] = IF k \in Page THEN Least(2, times[k] + 1) ELSE times[k]
          /\ more /\ more' = HasMore
          /\ cursor' = IF HasMore /\ Page # {} THEN Last(Page) ELSE cursor
          /\ UNCHANGED <<list, limit, rows, stable>>
      BY <1>1 DEF NextPage
    <2>2. \A k \in Page : k \in Listed /\ k \in Keys /\ Below(k)
      BY PageIsFirst, PlacesAfter DEF Listed, Own
    <2>3. \A k \in Page : times[k] = 0
      <3>0. \A k \in Page : times[k] \in 0 .. 2
        BY <1>t, <2>2
      <3> SUFFICES ASSUME NEW k \in Page, times[k] > 0 PROVE FALSE
        BY <3>0
      <3>1. cursor # Top /\ cursor <= k
        BY <2>1, <2>2 DEF WalkInv, ShownIsAbove
      <3>2. k < cursor
        BY <2>2, <3>1 DEF Below
      <3>3. k \in Nat /\ cursor \in Nat
        BY <1>t, <2>2, <3>1
      <3> QED BY <3>1, <3>2, <3>3
    <2>4. \A k \in Page : times'[k] = 1
      BY <2>1, <2>2, <2>3 DEF Least
    <2>5. \A k \in Keys \ Page : times'[k] = times[k]
      BY <2>1
    <2>6. NothingIsShownTwice'
      BY <2>4, <2>5 DEF WalkInv, NothingIsShownTwice
    <2>7. ShownIsAbove'
      <3> SUFFICES ASSUME NEW k \in Keys, times'[k] > 0, HasMore
                   PROVE  cursor' # Top /\ cursor' <= k
        BY <2>1 DEF ShownIsAbove
      <3>1. CASE Page = {}
        BY <2>1, <2>5, <3>1 DEF WalkInv, ShownIsAbove
      <3>2. CASE Page # {}
        <4>1. cursor' = Last(Page) /\ cursor' \in Page /\ \A p \in Page : cursor' <= p
          BY <2>1, <3>2, PageIsFirst
        <4>2. CASE k \in Page
          BY <1>t, <2>2, <4>1, <4>2
        <4>3. CASE k \notin Page
          <5>1. cursor # Top /\ cursor <= k
            BY <2>1, <2>5, <4>3 DEF WalkInv, ShownIsAbove
          <5>2. cursor' < cursor
            BY <2>2, <4>1, <5>1 DEF Below
          <5>3. k \in Nat /\ cursor \in Nat /\ cursor' \in Nat
            BY <1>t, <2>2, <4>1, <5>1
          <5>4. cursor' # Top
            BY <5>3
          <5> QED BY <5>1, <5>2, <5>3, <5>4
        <4> QED BY <4>2, <4>3
      <3> QED BY <3>1, <3>2
    <2>8. StableIsAhead'
      <3> SUFFICES ASSUME NEW k \in stable
                   PROVE  k \in Listed' /\ (times'[k] > 0 \/ (HasMore /\ Below(k)'))
        BY <2>1 DEF StableIsAhead
      <3>1. k \in Listed /\ k \in Listed' /\ k \in Keys
        BY <1>t, <2>1 DEF WalkInv, StableIsAhead, Listed, Own
      <3>2. CASE k \in Page
        BY <2>4, <3>1, <3>2
      <3>3. CASE k \notin Page /\ times[k] > 0
        BY <2>5, <3>1, <3>3
      <3>4. CASE k \notin Page /\ ~ (times[k] > 0)
        <4>1. Below(k)
          BY <3>4 DEF WalkInv, StableIsAhead
        <4>2. k \in After \ Page
          BY <3>1, <3>4, <4>1, PlacesAfter
        <4>3. HasMore /\ \A p \in Page : k < p
          BY <4>2, PageIsFirst
        <4>4. Below(k)'
          <5>1. CASE Page = {}
            BY <2>1, <4>1, <5>1 DEF Below
          <5>2. CASE Page # {}
            BY <2>1, <4>3, <5>2, PageIsFirst DEF Below
          <5> QED BY <5>1, <5>2
        <4> QED BY <3>1, <4>3, <4>4
      <3> QED BY <3>2, <3>3, <3>4
    <2> QED BY <2>6, <2>7, <2>8 DEF WalkInv
  <1>2. ASSUME NEW k \in Keys, Insert(k) PROVE WalkInv'
    <2>1. UNCHANGED <<times, more, cursor, stable>> /\ rows' = [rows EXCEPT ![k] = "live"]
      BY <1>2 DEF Insert
    <2>2. Listed \subseteq Listed'
      BY <1>t, <2>1 DEF Listed, Own
    <2> QED BY <2>1, <2>2
        DEF WalkInv, NothingIsShownTwice, ShownIsAbove, StableIsAhead, Below
  <1>3. ASSUME NEW k \in Keys, Hide(k) PROVE WalkInv'
    <2>1. /\ UNCHANGED <<times, more, cursor>> /\ stable' = stable \ {k}
          /\ rows' = [rows EXCEPT ![k] = "gone"]
      BY <1>3 DEF Hide
    <2>2. Listed \ {k} \subseteq Listed'
      BY <1>t, <2>1 DEF Listed, Own
    <2> QED BY <2>1, <2>2
        DEF WalkInv, NothingIsShownTwice, ShownIsAbove, StableIsAhead, Below
  <1>4. CASE UNCHANGED vars
    BY <1>4 DEF vars, WalkInv, NothingIsShownTwice, ShownIsAbove, StableIsAhead, Below,
                Listed, Own
  <1> QED BY <1>1, <1>2, <1>3, <1>4 DEF Next

LEMMA WalkCorrect == Spec => []WalkInv
  <1>1. Init => WalkInv
    <2> SUFFICES ASSUME Init PROVE WalkInv
      OBVIOUS
    <2>1. NothingIsShownTwice /\ ShownIsAbove
      BY DEF Init, NothingIsShownTwice, ShownIsAbove
    <2>2. StableIsAhead
      BY DEF Init, StableIsAhead, Below
    <2> QED BY <2>1, <2>2 DEF WalkInv
  <1> QED BY <1>1, WalkStep, CursorCorrect, PTL DEF Spec

\* Whoever has walked to the end was shown every row that was in the list all the
\* while, however long the list and however short the pages.
THEOREM CompleteCorrect == Spec => []WalkIsComplete
  <1>1. WalkInv => WalkIsComplete
    BY DEF WalkInv, StableIsAhead, WalkIsComplete
  <1> QED BY <1>1, WalkCorrect, PTL

\* No row is shown twice, wherever rows are inserted between two pages.
THEOREM OnceCorrect == Spec => []NothingIsShownTwice
  <1>1. WalkInv => NothingIsShownTwice
    BY DEF WalkInv
  <1> QED BY <1>1, WalkCorrect, PTL

-----------------------------------------------------------------------------
(* The pages *)

\* A page that promises another one is not empty.
LEMMA PageIsFull ==
  ASSUME TypeOK, CursorIsOwn, HasMore
  PROVE  Page # {}
  <1> DEFINE F == First(limit + 1, After)
  <1>1. limit \in Nat /\ limit > 0 /\ After \in SUBSET Nat /\ IsFiniteSet(After)
    BY PlacesAfter, LimitIsNat
  <1>2. F \in SUBSET After
    BY DEF First
  <1>3. F \in SUBSET Nat /\ IsFiniteSet(F)
    BY <1>1, <1>2, FS_Subset
  <1>4. Cardinality(F) > limit
    BY DEF HasMore
  <1> HIDE DEF F
  <1>5. F # {}
    BY <1>1, <1>4, FS_EmptySet
  <1> SUFFICES ASSUME First(limit, F) = {} PROVE FALSE
    BY DEF Page, F
  <1>6. Cardinality(First(limit, F)) < limit
    BY <1>1, FS_EmptySet
  <1>7. First(limit, F) = F
    BY <1>1, <1>3, <1>6, FirstIsAll
  <1> QED BY <1>5, <1>7

\* The places ahead are finitely many, and fewer below a cursor among them.
LEMMA AheadShrinks ==
  ASSUME TypeOK, cursor' \in Ahead, Own' = Own
  PROVE  Ahead' \subseteq Ahead /\ Cardinality(Ahead') < Cardinality(Ahead)
  <1>1. Ahead \subseteq Own /\ Own \subseteq Keys /\ Keys \subseteq Nat /\ cursor \in Keys \cup {Top}
    BY ParametersOK DEF TypeOK, Ahead, Own
  <1>2. IsFiniteSet(Ahead)
    BY <1>1, FS_Subset, ParametersOK
  <1>3. cursor' # Top
    BY <1>1 DEF Top
  <1>4. Ahead' = {k \in Own : k < cursor'}
    BY <1>3 DEF Ahead, Below
  <1>5. ASSUME NEW k \in Own, k < cursor' PROVE k \in Ahead
    <2>1. cursor = Top \/ cursor' < cursor
      BY DEF Ahead, Below
    <2>2. k \in Nat /\ cursor' \in Nat /\ (cursor = Top \/ cursor \in Nat)
      BY <1>1
    <2> QED BY <1>5, <2>1, <2>2 DEF Ahead, Below
  <1>6. cursor' \notin Ahead' /\ Ahead' \subseteq Ahead
    <2>1. cursor' \in Nat
      BY <1>1
    <2> QED BY <1>4, <1>5, <2>1
  <1>7. Cardinality(Ahead') \in Nat /\ Cardinality(Ahead) \in Nat
    BY <1>2, <1>6, FS_Subset, FS_CardinalityType
  <1> QED BY <1>2, <1>6, <1>7, FS_Subset

\* Each page that is not the last one leaves fewer places ahead, however many rows
\* come in between: a walk takes at most one page more than the user can have rows.
THEOREM AdvanceCorrect == Spec => PagesAdvance
  <1>1. TypeOK /\ CursorIsOwn /\ [Next]_vars => [Advances]_vars
    <2> SUFFICES ASSUME TypeOK, CursorIsOwn, Next PROVE Advances
      OBVIOUS
    <2> USE DEF Advances
    <2>1. Own' = Own
      BY DEF Own
    <2>2. CASE NextPage
      <3>1. /\ more' = HasMore
            /\ cursor' = IF HasMore /\ Page # {} THEN Last(Page) ELSE cursor
        BY <2>2 DEF NextPage
      <3>2. CASE HasMore
        <4>1. cursor' \in Page
          BY <3>1, <3>2, PageIsFull, PageIsFirst
        <4>2. cursor' \in Ahead
          BY <4>1, PageIsFirst, PlacesAfter DEF Ahead, Listed
        <4> QED BY <2>1, <4>2, AheadShrinks
      <3>3. CASE ~ HasMore
        BY <2>1, <3>1, <3>3 DEF Ahead, Below
      <3> QED BY <3>2, <3>3
    <2>3. ASSUME ~ NextPage PROVE Advances
      <3>1. cursor' = cursor
        BY <2>3 DEF Next, Insert, Hide
      <3> QED BY <2>1, <2>3, <3>1 DEF Ahead, Below
    <2> QED BY <2>2, <2>3
  <1> QED BY <1>1, CursorCorrect, PTL DEF Spec, PagesAdvance

=============================================================================
