------------------------- MODULE UrlService_proofs -------------------------
(***************************************************************************)
(* Proofs about UrlService for any number of codes, users and requests,    *)
(* and about ShortCode for any alphabet and any length of a code.          *)
(***************************************************************************)
EXTENDS MCUrlService, FiniteSetTheorems, WellFoundedInduction, TLAPS

\* There is a link for the fields nobody asked for.
LEMMA LinkExists == \E l \in Link : l.active
  <1>1. PICK c \in Codes, u \in Urls, o \in Users : TRUE
    BY InputsExist
  <1>2. [code |-> c, url |-> u, owner |-> o, active |-> TRUE] \in Link
    BY <1>1 DEF Link
  <1> QED BY <1>2

\* Links are records, and LinkOf builds them.
LEMMA LinkFields ==
  ASSUME NEW l \in Link
  PROVE  l.code \in Codes /\ l.url \in Urls /\ l.owner \in Users
         /\ l.active \in BOOLEAN
  BY DEF Link

\* What LinkOf builds from a code, a URL and an owner is a link.
LEMMA LinkOfType ==
  ASSUME NEW c \in Codes, NEW u \in Urls, NEW o \in Users, NEW a \in BOOLEAN
  PROVE  LinkOf(c, u, o, a) \in Link
  BY DEF Link, LinkOf

\* An event about a link is well-formed.
LEMMA NewEventType ==
  ASSUME NEW t \in {"url.created", "url.deleted", "url.clicked"},
         NEW l \in Link, NEW r \in Requests
  PROVE  NewEvent(t, l, r) \in Event
  BY LinkFields DEF NewEvent, Event

\* Asking keeps the type of want.
LEMMA AskType ==
  ASSUME want \in [Requests -> Link], NEW r \in Requests,
         NEW c \in Codes, NEW u \in Urls, NEW o \in Users, Ask(r, c, u, o)
  PROVE  want' \in [Requests -> Link]
  BY LinkOfType DEF Ask

\* The empty service is well-typed, ...
LEMMA TypeInit == Init => TypeOK
  <1> SUFFICES ASSUME Init PROVE TypeOK OBVIOUS
  <1>1. want \in [Requests -> Link]
    <2> DEFINE some == CHOOSE l \in Link : l.active
    <2>1. some \in Link
      BY LinkExists
    <2>2. want = [r \in Requests |-> some]
      BY DEF Init
    <2> HIDE DEF some
    <2> QED BY <2>1, <2>2
  <1>2. /\ pc \in [Requests -> Labels] /\ answer \in [Requests -> Answers]
        /\ seen \in [Requests -> SUBSET Link]
    BY DEF Init, Labels, Answers
  <1>3. tries \in [Requests -> 0 .. MaxAttempts]
    BY DEF Init, MaxAttempts
  <1>4. /\ urls = {} /\ cache = {} /\ outbox = {} /\ clicks = {} /\ locks = {}
        /\ fills = {} /\ expired = {}
    BY DEF Init
  <1> QED BY <1>1, <1>2, <1>3, <1>4, Zenon DEF TypeOK

\* ... and every request, goroutine and store step keeps it so.
LEMMA TypeStep == TypeOK /\ [Next]_vars => TypeOK'
  <1> SUFFICES ASSUME TypeOK, [Next]_vars PROVE TypeOK' OBVIOUS
  <1> USE DEF TypeOK, stores, goroutines, requests, Goto, Reply, Labels, Answers
  <1>1. ASSUME NEW r \in Requests, ShortenURL(r) PROVE TypeOK'
    BY <1>1, AskType DEF ShortenURL
  <1>2. ASSUME NEW r \in Requests, InsertUrl(r) PROVE TypeOK'
    BY <1>2, LinkFields DEF InsertUrl, Lock
  <1>3. ASSUME NEW r \in Requests, Collide(r) PROVE TypeOK'
    <2>1. want[r] \in Link /\ tries[r] \in 0 .. MaxAttempts
      OBVIOUS
    <2>2. want' \in [Requests -> Link]
      BY <1>3, <2>1, AskType, LinkFields DEF Collide
    <2>3. tries' \in [Requests -> 0 .. MaxAttempts]
      BY <1>3, <2>1 DEF Collide, MaxAttempts
    <2> QED BY <1>3, <2>2, <2>3 DEF Collide, Refuse
  <1>4. ASSUME NEW r \in Requests, CommitShorten(r) PROVE TypeOK'
    <2>1. NewEvent("url.created", want[r], r) \in Event
      BY NewEventType
    <2> QED BY <1>4, <2>1 DEF CommitShorten, Unlock
  <1>5. ASSUME NEW r \in Requests, RedirectToURL(r) PROVE TypeOK'
    BY <1>5, AskType, LinkFields DEF RedirectToURL
  <1>6. ASSUME NEW r \in Requests, CacheHit(r) PROVE TypeOK'
    <2>1. \A e \in cache : NewEvent("url.clicked", e, r) \in Event
      BY NewEventType
    <2> QED BY <1>6, <2>1 DEF CacheHit, ServeCached, Click
  <1>7. ASSUME NEW r \in Requests, CacheMiss(r) \/ CacheHang(r) PROVE TypeOK'
    BY <1>7 DEF CacheMiss, CacheHang
  <1>8. ASSUME NEW r \in Requests, FindByCode(r) PROVE TypeOK'
    BY <1>8 DEF FindByCode, Lookup
  <1>9. ASSUME NEW r \in Requests, Decide(r) PROVE TypeOK'
    <2>1. \A l \in seen[r] : l \in Link /\ NewEvent("url.clicked", l, r) \in Event
      BY NewEventType
    <2> QED BY <1>9, <2>1 DEF Decide, FillIfLive, Click
  <1>10. ASSUME NEW r \in Requests, DeactivateURL(r) PROVE TypeOK'
    BY <1>10, AskType, LinkFields DEF DeactivateURL
  <1>11. ASSUME NEW r \in Requests, Deactivate(r) PROVE TypeOK'
    BY <1>11, LinkFields DEF Deactivate, Lock
  <1>12. ASSUME NEW r \in Requests, CommitDelete(r) PROVE TypeOK'
    <2>1. NewEvent("url.deleted", want[r], r) \in Event
      BY NewEventType
    <2>2. \A l \in urls : Inactive(l) \in Link
      BY LinkFields, LinkOfType DEF Inactive
    <2> QED BY <1>12, <2>1, <2>2 DEF CommitDelete, Matches, Unlock
  <1>13. ASSUME NEW r \in Requests, CacheDelete(r) PROVE TypeOK'
    BY <1>13 DEF CacheDelete, EntriesBut
  <1>14. ASSUME NEW r \in Requests, Fail(r) \/ Crash(r) PROVE TypeOK'
    BY <1>14 DEF Fail, Crash, Rollback, Unlock
  <1>15. ASSUME NEW f \in fills, CacheSet(f) PROVE TypeOK'
    BY <1>15 DEF CacheSet, EntriesBut
  <1>16. ASSUME NEW e \in clicks, WriteClick(e) PROVE TypeOK'
    BY <1>16 DEF WriteClick
  <1>17. ASSUME NEW e \in cache, Evict(e) PROVE TypeOK'
    BY <1>17 DEF Evict
  <1>18. ASSUME NEW l \in urls, Expire(l) PROVE TypeOK'
    BY <1>18, LinkFields DEF Expire
  <1>19. CASE UNCHANGED vars
    BY <1>19 DEF vars
  <1> QED
    BY <1>1, <1>2, <1>3, <1>4, <1>5, <1>6, <1>7, <1>8, <1>9, <1>10, <1>11,
       <1>12, <1>13, <1>14, <1>15, <1>16, <1>17, <1>18, <1>19 DEF Next, Step

\* Every reachable state is of the types TypeOK gives the tables, the cache, the
\* goroutines and the requests of url-service.
THEOREM TypeCorrect == Spec => []TypeOK
  <1> QED BY TypeInit, TypeStep, PTL DEF Spec

\* A deactivation keeps every row, save for its flag, and adds none.
LEMMA RowsAfterDelete ==
  ASSUME TypeOK, NEW r \in Requests, CommitDelete(r)
  PROVE  /\ \A l \in urls : \E m \in urls' :
              m.code = l.code /\ m.url = l.url /\ m.owner = l.owner
         /\ \A m \in urls' : \/ m \in urls \ Matches(want[r])
                              \/ \E l \in Matches(want[r]) : m = Inactive(l)
  <1>1. urls' = (urls \ Matches(want[r])) \cup {Inactive(l) : l \in Matches(want[r])}
    BY DEF CommitDelete
  <1>2. \A l \in Link : /\ Inactive(l).code = l.code
                        /\ Inactive(l).url = l.url /\ Inactive(l).owner = l.owner
    BY DEF Inactive, LinkOf
  <1>3. ASSUME NEW l \in urls
        PROVE  \E m \in urls' : m.code = l.code /\ m.url = l.url /\ m.owner = l.owner
    <2>1. CASE l \in Matches(want[r])
      BY <1>1, <1>2, <2>1 DEF TypeOK
    <2>2. CASE l \notin Matches(want[r])
      BY <1>1, <2>2
    <2> QED BY <2>1, <2>2
  <1>4. ASSUME NEW m \in urls'
        PROVE  \/ m \in urls \ Matches(want[r])
               \/ \E l \in Matches(want[r]) : m = Inactive(l)
    BY <1>1
  <1> QED BY <1>3, <1>4

\* Only InsertUrl and Deactivate take a lock, and only a free one; whatever ends a
\* transaction gives it back.
LEMMA LocksStep ==
  TypeOK /\ LocksAreOpenTransactions /\ LocksAreOnWanted /\ [Next]_vars
  => LocksAreOpenTransactions'
  <1> SUFFICES ASSUME TypeOK, LocksAreOpenTransactions, LocksAreOnWanted, [Next]_vars
               PROVE  LocksAreOpenTransactions'
    OBVIOUS
  <1> USE DEF TypeOK, stores, goroutines, requests, Goto, Reply, LocksAreOpenTransactions
  <1>1. ASSUME NEW r \in Requests, ShortenURL(r) PROVE LocksAreOpenTransactions'
    BY <1>1 DEF ShortenURL, Ask, LinkOf
  <1>2. ASSUME NEW r \in Requests, InsertUrl(r) PROVE LocksAreOpenTransactions'
    <2> DEFINE k0 == [code |-> want[r].code, by |-> r]
    <2>1. /\ locks' = locks \cup {k0} /\ k0.code = want[r].code /\ k0.by = r
          /\ pc' = [pc EXCEPT ![r] = "commitNew"]
          /\ \A k \in locks : k.code # want[r].code /\ k.by # r
      BY <1>2 DEF InsertUrl, Lock, Free
    <2> HIDE DEF k0
    <2>2. \A k, m \in locks' : k.code = m.code => k = m
      BY <2>1
    <2>3. ASSUME NEW q \in Requests
          PROVE  (\E k \in locks' : k.by = q) <=> pc'[q] \in {"commitNew", "commitDelete"}
      BY <2>1
    <2> QED BY <2>2, <2>3
  <1>3. ASSUME NEW r \in Requests, Collide(r) PROVE LocksAreOpenTransactions'
    BY <1>3 DEF Collide, Refuse, Ask, LinkOf
  <1>4. ASSUME NEW r \in Requests, CommitShorten(r) PROVE LocksAreOpenTransactions'
    BY <1>4 DEF CommitShorten, Unlock
  <1>5. ASSUME NEW r \in Requests, RedirectToURL(r) PROVE LocksAreOpenTransactions'
    BY <1>5 DEF RedirectToURL, Ask, LinkOf
  <1>6. ASSUME NEW r \in Requests, CacheHit(r) PROVE LocksAreOpenTransactions'
    BY <1>6 DEF CacheHit, ServeCached
  <1>7. ASSUME NEW r \in Requests, CacheMiss(r) PROVE LocksAreOpenTransactions'
    BY <1>7 DEF CacheMiss
  <1>8. ASSUME NEW r \in Requests, CacheHang(r) PROVE LocksAreOpenTransactions'
    BY <1>8 DEF CacheHang
  <1>9. ASSUME NEW r \in Requests, FindByCode(r) PROVE LocksAreOpenTransactions'
    BY <1>9 DEF FindByCode, Lookup
  <1>10. ASSUME NEW r \in Requests, Decide(r) PROVE LocksAreOpenTransactions'
    BY <1>10 DEF Decide, FillIfLive
  <1>11. ASSUME NEW r \in Requests, DeactivateURL(r) PROVE LocksAreOpenTransactions'
    BY <1>11 DEF DeactivateURL, Ask, LinkOf
  <1>12. ASSUME NEW r \in Requests, Deactivate(r) PROVE LocksAreOpenTransactions'
    <2>0. CASE Matches(want[r]) = {}
      BY <1>12, <2>0 DEF Deactivate
    <2> SUFFICES ASSUME Matches(want[r]) # {} PROVE LocksAreOpenTransactions'
      BY <2>0
    <2> DEFINE k0 == [code |-> want[r].code, by |-> r]
    <2>1. /\ locks' = locks \cup {k0} /\ k0.code = want[r].code /\ k0.by = r
          /\ pc' = [pc EXCEPT ![r] = "commitDelete"]
          /\ \A k \in locks : k.code # want[r].code /\ k.by # r
      BY <1>12 DEF Deactivate, Lock, Free
    <2> HIDE DEF k0
    <2>2. \A k, m \in locks' : k.code = m.code => k = m
      BY <2>1
    <2>3. ASSUME NEW q \in Requests
          PROVE  (\E k \in locks' : k.by = q) <=> pc'[q] \in {"commitNew", "commitDelete"}
      BY <2>1
    <2> QED BY <2>2, <2>3
  <1>13. ASSUME NEW r \in Requests, CommitDelete(r) PROVE LocksAreOpenTransactions'
    BY <1>13 DEF CommitDelete, Unlock, Matches, Inactive, LinkOf
  <1>14. ASSUME NEW r \in Requests, CacheDelete(r) PROVE LocksAreOpenTransactions'
    BY <1>14 DEF CacheDelete
  <1>15. ASSUME NEW r \in Requests, Fail(r) PROVE LocksAreOpenTransactions'
    BY <1>15 DEF Fail, Rollback, Unlock
  <1>16. ASSUME NEW r \in Requests, Crash(r) PROVE LocksAreOpenTransactions'
    BY <1>16 DEF Crash, Rollback, Unlock
  <1>17. ASSUME NEW f \in fills, CacheSet(f) PROVE LocksAreOpenTransactions'
    BY <1>17 DEF CacheSet, EntriesBut
  <1>18. ASSUME NEW e \in clicks, WriteClick(e) PROVE LocksAreOpenTransactions'
    BY <1>18 DEF WriteClick
  <1>19. ASSUME NEW e \in cache, Evict(e) PROVE LocksAreOpenTransactions'
    BY <1>19 DEF Evict
  <1>20. ASSUME NEW l \in urls, Expire(l) PROVE LocksAreOpenTransactions'
    BY <1>20 DEF Expire
  <1>21. CASE UNCHANGED vars
    BY <1>21 DEF vars
  <1> QED
    BY <1>1, <1>2, <1>3, <1>4, <1>5, <1>6, <1>7, <1>8, <1>9, <1>10, <1>11,
       <1>12, <1>13, <1>14, <1>15, <1>16, <1>17, <1>18, <1>19, <1>20, <1>21
       DEF Next, Step

\* No step changes what a request asks for while it holds a lock.
LEMMA WantedStep ==
  TypeOK /\ LocksAreOpenTransactions /\ LocksAreOnWanted /\ [Next]_vars
  => LocksAreOnWanted'
  <1> SUFFICES ASSUME TypeOK, LocksAreOpenTransactions, LocksAreOnWanted, [Next]_vars
               PROVE  LocksAreOnWanted'
    OBVIOUS
  <1> USE DEF TypeOK, stores, goroutines, requests, Goto, Reply, LocksAreOpenTransactions, LocksAreOnWanted
  <1>1. ASSUME NEW r \in Requests, ShortenURL(r) PROVE LocksAreOnWanted'
    BY <1>1 DEF ShortenURL, Ask, LinkOf
  <1>2. ASSUME NEW r \in Requests, InsertUrl(r) PROVE LocksAreOnWanted'
    BY <1>2 DEF InsertUrl, Lock, Free
  <1>3. ASSUME NEW r \in Requests, Collide(r) PROVE LocksAreOnWanted'
    BY <1>3 DEF Collide, Refuse, Ask, LinkOf
  <1>4. ASSUME NEW r \in Requests, CommitShorten(r) PROVE LocksAreOnWanted'
    BY <1>4 DEF CommitShorten, Unlock
  <1>5. ASSUME NEW r \in Requests, RedirectToURL(r) PROVE LocksAreOnWanted'
    BY <1>5 DEF RedirectToURL, Ask, LinkOf
  <1>6. ASSUME NEW r \in Requests, CacheHit(r) PROVE LocksAreOnWanted'
    BY <1>6 DEF CacheHit, ServeCached
  <1>7. ASSUME NEW r \in Requests, CacheMiss(r) PROVE LocksAreOnWanted'
    BY <1>7 DEF CacheMiss
  <1>8. ASSUME NEW r \in Requests, CacheHang(r) PROVE LocksAreOnWanted'
    BY <1>8 DEF CacheHang
  <1>9. ASSUME NEW r \in Requests, FindByCode(r) PROVE LocksAreOnWanted'
    BY <1>9 DEF FindByCode, Lookup
  <1>10. ASSUME NEW r \in Requests, Decide(r) PROVE LocksAreOnWanted'
    BY <1>10 DEF Decide, FillIfLive
  <1>11. ASSUME NEW r \in Requests, DeactivateURL(r) PROVE LocksAreOnWanted'
    BY <1>11 DEF DeactivateURL, Ask, LinkOf
  <1>12. ASSUME NEW r \in Requests, Deactivate(r) PROVE LocksAreOnWanted'
    BY <1>12 DEF Deactivate, Lock, Free
  <1>13. ASSUME NEW r \in Requests, CommitDelete(r) PROVE LocksAreOnWanted'
    BY <1>13 DEF CommitDelete, Unlock, Matches, Inactive, LinkOf
  <1>14. ASSUME NEW r \in Requests, CacheDelete(r) PROVE LocksAreOnWanted'
    BY <1>14 DEF CacheDelete
  <1>15. ASSUME NEW r \in Requests, Fail(r) PROVE LocksAreOnWanted'
    BY <1>15 DEF Fail, Rollback, Unlock
  <1>16. ASSUME NEW r \in Requests, Crash(r) PROVE LocksAreOnWanted'
    BY <1>16 DEF Crash, Rollback, Unlock
  <1>17. ASSUME NEW f \in fills, CacheSet(f) PROVE LocksAreOnWanted'
    BY <1>17 DEF CacheSet, EntriesBut
  <1>18. ASSUME NEW e \in clicks, WriteClick(e) PROVE LocksAreOnWanted'
    BY <1>18 DEF WriteClick
  <1>19. ASSUME NEW e \in cache, Evict(e) PROVE LocksAreOnWanted'
    BY <1>19 DEF Evict
  <1>20. ASSUME NEW l \in urls, Expire(l) PROVE LocksAreOnWanted'
    BY <1>20 DEF Expire
  <1>21. CASE UNCHANGED vars
    BY <1>21 DEF vars
  <1> QED
    BY <1>1, <1>2, <1>3, <1>4, <1>5, <1>6, <1>7, <1>8, <1>9, <1>10, <1>11,
       <1>12, <1>13, <1>14, <1>15, <1>16, <1>17, <1>18, <1>19, <1>20, <1>21
       DEF Next, Step

\* Only the two commits write the table.
LEMMA UrlsStep ==
  ASSUME [Next]_vars
  PROVE  \/ \E r \in Requests : CommitShorten(r) \/ CommitDelete(r)
         \/ UNCHANGED urls
  BY DEF Next, Step, vars, stores, ShortenURL, InsertUrl, Collide, RedirectToURL,
         CacheHit, CacheMiss, CacheHang, FindByCode, Decide, DeactivateURL,
         Deactivate, CacheDelete, Fail, Crash, CacheSet, WriteClick, Evict, Expire

\* Only CommitShorten adds a code, one that no row has.
LEMMA UniqueStep ==
  TypeOK /\ UniqueCodes /\ InsertsStayNew /\ [Next]_vars
  => UniqueCodes'
  <1> SUFFICES ASSUME TypeOK, UniqueCodes, InsertsStayNew, [Next]_vars
               PROVE  UniqueCodes'
    OBVIOUS
  <1> USE DEF UniqueCodes, InsertsStayNew, Taken
  <1>1. ASSUME NEW r \in Requests, CommitShorten(r) PROVE UniqueCodes'
    BY <1>1 DEF CommitShorten
  <1>2. ASSUME NEW r \in Requests, CommitDelete(r) PROVE UniqueCodes'
    <2> SUFFICES ASSUME NEW m \in urls', NEW n \in urls', m.code = n.code
                 PROVE  m = n
      OBVIOUS
    <2>1. PICK l \in urls :
             \/ m = l /\ l \notin Matches(want[r])
             \/ m = Inactive(l) /\ l \in Matches(want[r])
      BY <1>2, RowsAfterDelete DEF Matches
    <2>2. PICK k \in urls :
             \/ n = k /\ k \notin Matches(want[r])
             \/ n = Inactive(k) /\ k \in Matches(want[r])
      BY <1>2, RowsAfterDelete DEF Matches
    <2>3. l.code = m.code /\ k.code = n.code
      BY <2>1, <2>2 DEF Inactive, LinkOf
    <2>4. l = k
      BY <2>3
    <2> QED BY <2>1, <2>2, <2>4
  <1>3. CASE UNCHANGED urls
    BY <1>3
  <1> QED BY <1>1, <1>2, <1>3, UrlsStep

\* A redirect reads only what is stored under its own code.
LEMMA SeenStep ==
  TypeOK /\ SeenIsWanted /\ [Next]_vars
  => SeenIsWanted'
  <1> SUFFICES ASSUME TypeOK, SeenIsWanted, [Next]_vars
               PROVE  SeenIsWanted'
    OBVIOUS
  <1> USE DEF TypeOK, stores, goroutines, requests, Goto, Reply, SeenIsWanted
  <1>1. ASSUME NEW r \in Requests, ShortenURL(r) PROVE SeenIsWanted'
    BY <1>1 DEF ShortenURL, Ask, LinkOf
  <1>2. ASSUME NEW r \in Requests, InsertUrl(r) PROVE SeenIsWanted'
    BY <1>2 DEF InsertUrl, Lock, Free
  <1>3. ASSUME NEW r \in Requests, Collide(r) PROVE SeenIsWanted'
    BY <1>3 DEF Collide, Refuse, Ask, LinkOf
  <1>4. ASSUME NEW r \in Requests, CommitShorten(r) PROVE SeenIsWanted'
    BY <1>4 DEF CommitShorten, Unlock
  <1>5. ASSUME NEW r \in Requests, RedirectToURL(r) PROVE SeenIsWanted'
    BY <1>5 DEF RedirectToURL, Ask, LinkOf
  <1>6. ASSUME NEW r \in Requests, CacheHit(r) PROVE SeenIsWanted'
    BY <1>6 DEF CacheHit, ServeCached
  <1>7. ASSUME NEW r \in Requests, CacheMiss(r) PROVE SeenIsWanted'
    BY <1>7 DEF CacheMiss
  <1>8. ASSUME NEW r \in Requests, CacheHang(r) PROVE SeenIsWanted'
    BY <1>8 DEF CacheHang
  <1>9. ASSUME NEW r \in Requests, FindByCode(r) PROVE SeenIsWanted'
    BY <1>9 DEF FindByCode, Lookup
  <1>10. ASSUME NEW r \in Requests, Decide(r) PROVE SeenIsWanted'
    BY <1>10 DEF Decide, FillIfLive
  <1>11. ASSUME NEW r \in Requests, DeactivateURL(r) PROVE SeenIsWanted'
    BY <1>11 DEF DeactivateURL, Ask, LinkOf
  <1>12. ASSUME NEW r \in Requests, Deactivate(r) PROVE SeenIsWanted'
    BY <1>12 DEF Deactivate, Lock, Free
  <1>13. ASSUME NEW r \in Requests, CommitDelete(r) PROVE SeenIsWanted'
    BY <1>13 DEF CommitDelete, Unlock, Matches, Inactive, LinkOf
  <1>14. ASSUME NEW r \in Requests, CacheDelete(r) PROVE SeenIsWanted'
    BY <1>14 DEF CacheDelete
  <1>15. ASSUME NEW r \in Requests, Fail(r) PROVE SeenIsWanted'
    BY <1>15 DEF Fail, Rollback, Unlock
  <1>16. ASSUME NEW r \in Requests, Crash(r) PROVE SeenIsWanted'
    BY <1>16 DEF Crash, Rollback, Unlock
  <1>17. ASSUME NEW f \in fills, CacheSet(f) PROVE SeenIsWanted'
    BY <1>17 DEF CacheSet, EntriesBut
  <1>18. ASSUME NEW e \in clicks, WriteClick(e) PROVE SeenIsWanted'
    BY <1>18 DEF WriteClick
  <1>19. ASSUME NEW e \in cache, Evict(e) PROVE SeenIsWanted'
    BY <1>19 DEF Evict
  <1>20. ASSUME NEW l \in urls, Expire(l) PROVE SeenIsWanted'
    BY <1>20 DEF Expire
  <1>21. CASE UNCHANGED vars
    BY <1>21 DEF vars
  <1> QED
    BY <1>1, <1>2, <1>3, <1>4, <1>5, <1>6, <1>7, <1>8, <1>9, <1>10, <1>11,
       <1>12, <1>13, <1>14, <1>15, <1>16, <1>17, <1>18, <1>19, <1>20, <1>21
       DEF Next, Step

\* A copy is made of a row, of a copy, or with the row it is a copy of.
LEMMA CopiesStep ==
  TypeOK /\ CopiesAgree /\ [Next]_vars
  => CopiesAgree'
  <1> SUFFICES ASSUME TypeOK, CopiesAgree, [Next]_vars
               PROVE  CopiesAgree'
    OBVIOUS
  <1> USE DEF TypeOK, stores, goroutines, requests, Goto, Reply, CopiesAgree, Copies
  <1>1. ASSUME NEW r \in Requests, ShortenURL(r) PROVE CopiesAgree'
    BY <1>1 DEF ShortenURL, Ask, LinkOf
  <1>2. ASSUME NEW r \in Requests, InsertUrl(r) PROVE CopiesAgree'
    BY <1>2 DEF InsertUrl, Lock, Free
  <1>3. ASSUME NEW r \in Requests, Collide(r) PROVE CopiesAgree'
    BY <1>3 DEF Collide, Refuse, Ask, LinkOf
  <1>4. ASSUME NEW r \in Requests, CommitShorten(r) PROVE CopiesAgree'
    BY <1>4 DEF CommitShorten, Unlock
  <1>5. ASSUME NEW r \in Requests, RedirectToURL(r) PROVE CopiesAgree'
    BY <1>5 DEF RedirectToURL, Ask, LinkOf
  <1>6. ASSUME NEW r \in Requests, CacheHit(r) PROVE CopiesAgree'
    BY <1>6 DEF CacheHit, ServeCached
  <1>7. ASSUME NEW r \in Requests, CacheMiss(r) PROVE CopiesAgree'
    BY <1>7 DEF CacheMiss
  <1>8. ASSUME NEW r \in Requests, CacheHang(r) PROVE CopiesAgree'
    BY <1>8 DEF CacheHang
  <1>9. ASSUME NEW r \in Requests, FindByCode(r) PROVE CopiesAgree'
    BY <1>9 DEF FindByCode, Lookup
  <1>10. ASSUME NEW r \in Requests, Decide(r) PROVE CopiesAgree'
    BY <1>10 DEF Decide, FillIfLive
  <1>11. ASSUME NEW r \in Requests, DeactivateURL(r) PROVE CopiesAgree'
    BY <1>11 DEF DeactivateURL, Ask, LinkOf
  <1>12. ASSUME NEW r \in Requests, Deactivate(r) PROVE CopiesAgree'
    BY <1>12 DEF Deactivate, Lock, Free
  <1>13. ASSUME NEW r \in Requests, CommitDelete(r) PROVE CopiesAgree'
    <2>1. Copies' = Copies
      BY <1>13 DEF CommitDelete
    <2> HIDE DEF Copies
    <2> QED BY <1>13, <2>1, RowsAfterDelete
  <1>14. ASSUME NEW r \in Requests, CacheDelete(r) PROVE CopiesAgree'
    <2>1. cache' \subseteq cache /\ fills' = fills /\ seen' = seen /\ urls' = urls
      BY <1>14 DEF CacheDelete, EntriesBut
    <2> QED BY <2>1
  <1>15. ASSUME NEW r \in Requests, Fail(r) PROVE CopiesAgree'
    BY <1>15 DEF Fail, Rollback, Unlock
  <1>16. ASSUME NEW r \in Requests, Crash(r) PROVE CopiesAgree'
    BY <1>16 DEF Crash, Rollback, Unlock
  <1>17. ASSUME NEW f \in fills, CacheSet(f) PROVE CopiesAgree'
    BY <1>17 DEF CacheSet, EntriesBut
  <1>18. ASSUME NEW e \in clicks, WriteClick(e) PROVE CopiesAgree'
    BY <1>18 DEF WriteClick
  <1>19. ASSUME NEW e \in cache, Evict(e) PROVE CopiesAgree'
    BY <1>19 DEF Evict
  <1>20. ASSUME NEW l \in urls, Expire(l) PROVE CopiesAgree'
    BY <1>20 DEF Expire
  <1>21. CASE UNCHANGED vars
    BY <1>21 DEF vars
  <1> QED
    BY <1>1, <1>2, <1>3, <1>4, <1>5, <1>6, <1>7, <1>8, <1>9, <1>10, <1>11,
       <1>12, <1>13, <1>14, <1>15, <1>16, <1>17, <1>18, <1>19, <1>20, <1>21
       DEF Next, Step

\* A deactivation leaves the row of a 201 where it is.
LEMMA CreatedStep ==
  TypeOK /\ CreatedIsKept /\ [Next]_vars
  => CreatedIsKept'
  <1> SUFFICES ASSUME TypeOK, CreatedIsKept, [Next]_vars
               PROVE  CreatedIsKept'
    OBVIOUS
  <1> USE DEF TypeOK, stores, goroutines, requests, Goto, Reply, CreatedIsKept
  <1>1. ASSUME NEW r \in Requests, ShortenURL(r) PROVE CreatedIsKept'
    BY <1>1 DEF ShortenURL, Ask, LinkOf
  <1>2. ASSUME NEW r \in Requests, InsertUrl(r) PROVE CreatedIsKept'
    BY <1>2 DEF InsertUrl, Lock, Free
  <1>3. ASSUME NEW r \in Requests, Collide(r) PROVE CreatedIsKept'
    BY <1>3 DEF Collide, Refuse, Ask, LinkOf
  <1>4. ASSUME NEW r \in Requests, CommitShorten(r) PROVE CreatedIsKept'
    BY <1>4 DEF CommitShorten, Unlock
  <1>5. ASSUME NEW r \in Requests, RedirectToURL(r) PROVE CreatedIsKept'
    BY <1>5 DEF RedirectToURL, Ask, LinkOf
  <1>6. ASSUME NEW r \in Requests, CacheHit(r) PROVE CreatedIsKept'
    BY <1>6 DEF CacheHit, ServeCached
  <1>7. ASSUME NEW r \in Requests, CacheMiss(r) PROVE CreatedIsKept'
    BY <1>7 DEF CacheMiss
  <1>8. ASSUME NEW r \in Requests, CacheHang(r) PROVE CreatedIsKept'
    BY <1>8 DEF CacheHang
  <1>9. ASSUME NEW r \in Requests, FindByCode(r) PROVE CreatedIsKept'
    BY <1>9 DEF FindByCode, Lookup
  <1>10. ASSUME NEW r \in Requests, Decide(r) PROVE CreatedIsKept'
    BY <1>10 DEF Decide, FillIfLive
  <1>11. ASSUME NEW r \in Requests, DeactivateURL(r) PROVE CreatedIsKept'
    BY <1>11 DEF DeactivateURL, Ask, LinkOf
  <1>12. ASSUME NEW r \in Requests, Deactivate(r) PROVE CreatedIsKept'
    BY <1>12 DEF Deactivate, Lock, Free
  <1>13. ASSUME NEW r \in Requests, CommitDelete(r) PROVE CreatedIsKept'
    <2>1. \A q \in Requests : answer'[q] = "created" =>
             answer[q] = "created" /\ pc'[q] = pc[q]
      BY <1>13 DEF CommitDelete
    <2>2. want' = want
      BY <1>13 DEF CommitDelete
    <2>3. \A q \in Requests : answer[q] = "created" =>
             \E m \in urls' : /\ m.code = want[q].code
                              /\ m.url = want[q].url /\ m.owner = want[q].owner
      BY <1>13, RowsAfterDelete
    <2> QED BY <2>1, <2>2, <2>3
  <1>14. ASSUME NEW r \in Requests, CacheDelete(r) PROVE CreatedIsKept'
    BY <1>14 DEF CacheDelete
  <1>15. ASSUME NEW r \in Requests, Fail(r) PROVE CreatedIsKept'
    BY <1>15 DEF Fail, Rollback, Unlock
  <1>16. ASSUME NEW r \in Requests, Crash(r) PROVE CreatedIsKept'
    BY <1>16 DEF Crash, Rollback, Unlock
  <1>17. ASSUME NEW f \in fills, CacheSet(f) PROVE CreatedIsKept'
    BY <1>17 DEF CacheSet, EntriesBut
  <1>18. ASSUME NEW e \in clicks, WriteClick(e) PROVE CreatedIsKept'
    BY <1>18 DEF WriteClick
  <1>19. ASSUME NEW e \in cache, Evict(e) PROVE CreatedIsKept'
    BY <1>19 DEF Evict
  <1>20. ASSUME NEW l \in urls, Expire(l) PROVE CreatedIsKept'
    BY <1>20 DEF Expire
  <1>21. CASE UNCHANGED vars
    BY <1>21 DEF vars
  <1> QED
    BY <1>1, <1>2, <1>3, <1>4, <1>5, <1>6, <1>7, <1>8, <1>9, <1>10, <1>11,
       <1>12, <1>13, <1>14, <1>15, <1>16, <1>17, <1>18, <1>19, <1>20, <1>21
       DEF Next, Step

\* Another INSERT of the same code waits for the lock of the first.
LEMMA InsertsStep ==
  TypeOK /\ LocksAreOpenTransactions /\ LocksAreOnWanted /\ InsertsStayNew /\ [Next]_vars
  => InsertsStayNew'
  <1> SUFFICES ASSUME TypeOK, LocksAreOpenTransactions, LocksAreOnWanted, InsertsStayNew, [Next]_vars
               PROVE  InsertsStayNew'
    OBVIOUS
  <1> USE DEF TypeOK, stores, goroutines, requests, Goto, Reply, InsertsStayNew, Taken
  <1>1. ASSUME NEW r \in Requests, ShortenURL(r) PROVE InsertsStayNew'
    BY <1>1 DEF ShortenURL, Ask, LinkOf
  <1>2. ASSUME NEW r \in Requests, InsertUrl(r) PROVE InsertsStayNew'
    BY <1>2 DEF InsertUrl, Lock, Free
  <1>3. ASSUME NEW r \in Requests, Collide(r) PROVE InsertsStayNew'
    BY <1>3 DEF Collide, Refuse, Ask, LinkOf
  <1>4. ASSUME NEW r \in Requests, CommitShorten(r) PROVE InsertsStayNew'
    <2> SUFFICES ASSUME NEW q \in Requests, pc'[q] = "commitNew", NEW l \in urls'
                 PROVE  l.code # want[q].code
      BY <1>4 DEF CommitShorten
    <2>1. q # r /\ pc[q] = "commitNew" /\ pc[r] = "commitNew"
      BY <1>4 DEF CommitShorten
    <2>2. PICK k \in locks, m \in locks : k.by = q /\ m.by = r
      BY <2>1 DEF LocksAreOpenTransactions
    <2>3. want[q].code # want[r].code
      BY <2>1, <2>2 DEF LocksAreOpenTransactions, LocksAreOnWanted
    <2>4. l \in urls \/ l = want[r]
      BY <1>4 DEF CommitShorten
    <2> QED BY <2>1, <2>3, <2>4
  <1>5. ASSUME NEW r \in Requests, RedirectToURL(r) PROVE InsertsStayNew'
    BY <1>5 DEF RedirectToURL, Ask, LinkOf
  <1>6. ASSUME NEW r \in Requests, CacheHit(r) PROVE InsertsStayNew'
    BY <1>6 DEF CacheHit, ServeCached
  <1>7. ASSUME NEW r \in Requests, CacheMiss(r) PROVE InsertsStayNew'
    BY <1>7 DEF CacheMiss
  <1>8. ASSUME NEW r \in Requests, CacheHang(r) PROVE InsertsStayNew'
    BY <1>8 DEF CacheHang
  <1>9. ASSUME NEW r \in Requests, FindByCode(r) PROVE InsertsStayNew'
    BY <1>9 DEF FindByCode, Lookup
  <1>10. ASSUME NEW r \in Requests, Decide(r) PROVE InsertsStayNew'
    BY <1>10 DEF Decide, FillIfLive
  <1>11. ASSUME NEW r \in Requests, DeactivateURL(r) PROVE InsertsStayNew'
    BY <1>11 DEF DeactivateURL, Ask, LinkOf
  <1>12. ASSUME NEW r \in Requests, Deactivate(r) PROVE InsertsStayNew'
    BY <1>12 DEF Deactivate, Lock, Free
  <1>13. ASSUME NEW r \in Requests, CommitDelete(r) PROVE InsertsStayNew'
    BY <1>13 DEF CommitDelete, Unlock, Matches, Inactive, LinkOf
  <1>14. ASSUME NEW r \in Requests, CacheDelete(r) PROVE InsertsStayNew'
    BY <1>14 DEF CacheDelete
  <1>15. ASSUME NEW r \in Requests, Fail(r) PROVE InsertsStayNew'
    BY <1>15 DEF Fail, Rollback, Unlock
  <1>16. ASSUME NEW r \in Requests, Crash(r) PROVE InsertsStayNew'
    BY <1>16 DEF Crash, Rollback, Unlock
  <1>17. ASSUME NEW f \in fills, CacheSet(f) PROVE InsertsStayNew'
    BY <1>17 DEF CacheSet, EntriesBut
  <1>18. ASSUME NEW e \in clicks, WriteClick(e) PROVE InsertsStayNew'
    BY <1>18 DEF WriteClick
  <1>19. ASSUME NEW e \in cache, Evict(e) PROVE InsertsStayNew'
    BY <1>19 DEF Evict
  <1>20. ASSUME NEW l \in urls, Expire(l) PROVE InsertsStayNew'
    BY <1>20 DEF Expire
  <1>21. CASE UNCHANGED vars
    BY <1>21 DEF vars
  <1> QED
    BY <1>1, <1>2, <1>3, <1>4, <1>5, <1>6, <1>7, <1>8, <1>9, <1>10, <1>11,
       <1>12, <1>13, <1>14, <1>15, <1>16, <1>17, <1>18, <1>19, <1>20, <1>21
       DEF Next, Step

\* Commits of one code exclude each other, so that what CommitDelete replaces is
\* the one row, and what CommitShorten adds is new.
LEMMA RowsStep ==
  Inv /\ [Next]_vars
  => \A l \in urls : {m \in urls' : m.code = l.code} \in {{l}, {Inactive(l)}}
  <1> SUFFICES ASSUME Inv, [Next]_vars, NEW l \in urls
               PROVE  {m \in urls' : m.code = l.code} \in {{l}, {Inactive(l)}}
    OBVIOUS
  <1> USE DEF Inv, UniqueCodes
  <1>1. ASSUME NEW r \in Requests, CommitShorten(r)
        PROVE  {m \in urls' : m.code = l.code} = {l}
    BY <1>1 DEF CommitShorten, InsertsStayNew, Taken
  <1>2. ASSUME NEW r \in Requests, CommitDelete(r), l \in Matches(want[r])
        PROVE  {m \in urls' : m.code = l.code} = {Inactive(l)}
    <2>1. urls' = (urls \ Matches(want[r])) \cup {Inactive(k) : k \in Matches(want[r])}
      BY <1>2 DEF CommitDelete
    <2>2. \A k : Inactive(k).code = k.code
      BY DEF Inactive, LinkOf
    <2>3. Matches(want[r]) \subseteq urls
      BY DEF Matches
    <2> QED BY <1>2, <2>1, <2>2, <2>3
  <1>3. ASSUME NEW r \in Requests, CommitDelete(r), l \notin Matches(want[r])
        PROVE  {m \in urls' : m.code = l.code} = {l}
    <2>1. urls' = (urls \ Matches(want[r])) \cup {Inactive(k) : k \in Matches(want[r])}
      BY <1>3 DEF CommitDelete
    <2>2. \A k : Inactive(k).code = k.code
      BY DEF Inactive, LinkOf
    <2>3. Matches(want[r]) \subseteq urls
      BY DEF Matches
    <2> QED BY <1>3, <2>1, <2>2, <2>3
  <1>4. CASE UNCHANGED urls
    BY <1>4
  <1> QED BY <1>1, <1>2, <1>3, <1>4, UrlsStep

\* Inv is inductive.
LEMMA InvInductive == Inv /\ [Next]_vars => Inv'
  <1> SUFFICES ASSUME Inv, [Next]_vars PROVE Inv' OBVIOUS
  <1> USE DEF Inv
  <1>1. TypeOK' /\ LocksAreOpenTransactions' /\ LocksAreOnWanted'
    BY TypeStep, LocksStep, WantedStep
  <1>2. InsertsStayNew' /\ UniqueCodes' /\ SeenIsWanted'
    BY InsertsStep, UniqueStep, SeenStep
  <1>3. CopiesAgree' /\ CreatedIsKept'
    BY CopiesStep, CreatedStep
  <1> QED BY <1>1, <1>2, <1>3

\* Inv holds of the empty service, ...
LEMMA InvInit == Init => Inv
  <1> SUFFICES ASSUME Init PROVE Inv OBVIOUS
  <1>1. TypeOK
    BY TypeInit
  <1>2. /\ LocksAreOpenTransactions /\ LocksAreOnWanted
        /\ InsertsStayNew /\ UniqueCodes
    BY DEF Init, LocksAreOpenTransactions, LocksAreOnWanted, InsertsStayNew,
           UniqueCodes
  <1>3. CopiesAgree /\ SeenIsWanted /\ CreatedIsKept
    BY DEF Init, CopiesAgree, Copies, SeenIsWanted, CreatedIsKept
  <1> QED BY <1>1, <1>2, <1>3 DEF Inv

\* ... and of every reachable state.
LEMMA InvCorrect == Spec => []Inv
  <1> QED BY InvInit, InvInductive, PTL DEF Spec

\* Transactions on a code exclude each other, and every lock belongs to a
\* transaction that is going to end, however many requests and replicas there are.
THEOREM LocksCorrect == Spec => []LocksAreOpenTransactions
  <1>1. Inv => LocksAreOpenTransactions
    BY DEF Inv
  <1> QED BY <1>1, InvCorrect, PTL

\* No cached entry, pending fill or row in a redirect's hands ever names another
\* destination or owner than the row of its code.
THEOREM CopiesCorrect == Spec => []CopiesAgree
  <1>1. Inv => CopiesAgree
    BY DEF Inv
  <1> QED BY <1>1, InvCorrect, PTL

\* The row a 201 promised is the only one of its code, and what the visitor has
\* read agrees with it.
LEMMA PromiseFromInv == Inv => VisitorsReachThePromise
  <1> SUFFICES ASSUME Inv,
                      NEW s \in Shorteners, NEW v \in Visitors,
                      answer[s] = "created", answer[v] = "redirect",
                      want[s].code = want[v].code,
                      NEW l \in seen[v]
               PROVE  l.url = want[s].url /\ l.owner = want[s].owner
    BY DEF VisitorsReachThePromise
  <1>1. PICK row \in urls : /\ row.code = want[s].code
                           /\ row.url = want[s].url /\ row.owner = want[s].owner
    BY DEF Inv, CreatedIsKept, Requests
  <1>2. l \in Copies /\ l.code = want[v].code
    BY DEF Inv, Copies, SeenIsWanted, Requests
  <1>3. PICK m \in urls : m.code = l.code /\ m.url = l.url /\ m.owner = l.owner
    BY <1>2 DEF Inv, CopiesAgree
  <1>4. m = row
    BY <1>1, <1>2, <1>3 DEF Inv, UniqueCodes
  <1> QED BY <1>1, <1>3, <1>4

\* For every number of requests: a visitor whose redirect is answered goes where
\* the client that created the link asked.
THEOREM PromiseCorrect == Spec => []VisitorsReachThePromise
  <1> QED BY PromiseFromInv, InvCorrect, PTL


\* However transactions interleave, fail and crash, the row of a code stays the
\* only one, with its destination and owner, and once inactive stays inactive.
THEOREM RowsCorrect == Spec => RowsOnlyEnd
  <1> QED BY RowsStep, InvCorrect, PTL DEF Spec, RowsOnlyEnd

\* Only a lookup that finds no row ends in a panic.
LEMMA PanicStep ==
  ASSUME TypeOK, [Next]_vars,
         NEW v \in Requests, answer[v] = "none", answer'[v] = "panic"
  PROVE  ~ \E l \in urls : l.code = want[v].code
  <1> USE DEF TypeOK, stores, goroutines, requests, Reply, Goto
  <1>1. ASSUME NEW r \in Requests, FindByCode(r) PROVE ~ \E l \in urls : l.code = want[v].code
    BY <1>1 DEF FindByCode, Lookup
  <1>2. ASSUME NEW r \in Requests,
               \/ ShortenURL(r) \/ RedirectToURL(r) \/ DeactivateURL(r)
               \/ InsertUrl(r) \/ Crash(r) \/ CacheMiss(r) \/ CacheHang(r)
        PROVE  FALSE
    BY <1>2 DEF ShortenURL, RedirectToURL, DeactivateURL, InsertUrl, Crash, CacheMiss, CacheHang
  <1>3. ASSUME NEW r \in Requests, Collide(r) \/ CommitShorten(r) \/ CacheHit(r) \/ Decide(r)
        PROVE  FALSE
    BY <1>3 DEF Collide, Refuse, CommitShorten, CacheHit, ServeCached, Decide
  <1>4. ASSUME NEW r \in Requests, Deactivate(r) \/ CommitDelete(r) \/ CacheDelete(r) \/ Fail(r)
        PROVE  FALSE
    BY <1>4 DEF Deactivate, CommitDelete, CacheDelete, Fail
  <1>5. CASE UNCHANGED answer
    BY <1>5
  <1> QED BY <1>1, <1>2, <1>3, <1>4, <1>5
          DEF Next, Step, CacheSet, WriteClick, Evict, Expire, vars

\* The row behind a 201 is never removed, so no later redirect finds the code unknown.
THEOREM FoundCorrect == Spec => PromisedCodesAreFound
  <1>1. Inv /\ [Next]_vars
        => \A s \in Shorteners, v \in Visitors :
              (/\ answer[s] = "created" /\ want[s].code = want[v].code
               /\ answer[v] = "none")
              => answer'[v] # "panic"
    BY PanicStep DEF Inv, CreatedIsKept, Requests
  <1> QED BY <1>1, InvCorrect, PTL DEF Spec, PromisedCodesAreFound

-----------------------------------------------------------------------------
(* The flag of a cached entry *)

\* What a request asks for is an active link.
WantsActive == \A r \in Requests : want[r].active

\* Rows are cached only when they were live, and new links are.
LEMMA FlagStep ==
  TypeOK /\ WantsActive /\ FlagIsNeverFalse /\ [Next]_vars => WantsActive' /\ FlagIsNeverFalse'
  <1> SUFFICES ASSUME TypeOK, WantsActive, FlagIsNeverFalse, [Next]_vars
               PROVE  WantsActive' /\ FlagIsNeverFalse'
    OBVIOUS
  <1> USE DEF TypeOK, WantsActive, FlagIsNeverFalse, stores, goroutines, requests
  <1>1. ASSUME NEW r \in Requests, ShortenURL(r) \/ RedirectToURL(r) \/ DeactivateURL(r)
        PROVE  WantsActive' /\ FlagIsNeverFalse'
    BY <1>1 DEF ShortenURL, RedirectToURL, DeactivateURL, Ask, LinkOf
  <1>2. ASSUME NEW r \in Requests, Collide(r) PROVE WantsActive' /\ FlagIsNeverFalse'
    BY <1>2 DEF Collide, Refuse, Ask, LinkOf
  <1>3. ASSUME NEW r \in Requests, CommitShorten(r) PROVE WantsActive' /\ FlagIsNeverFalse'
    BY <1>3 DEF CommitShorten
  <1>4. ASSUME NEW r \in Requests, Decide(r) PROVE WantsActive' /\ FlagIsNeverFalse'
    BY <1>4 DEF Decide, FillIfLive, Live
  <1>5. ASSUME NEW r \in Requests,
               \/ InsertUrl(r) \/ CacheHit(r) \/ CacheMiss(r) \/ CacheHang(r) \/ FindByCode(r)
               \/ Deactivate(r) \/ CommitDelete(r) \/ Fail(r) \/ Crash(r)
        PROVE  WantsActive' /\ FlagIsNeverFalse'
    <2>1. UNCHANGED <<want, cache, fills>>
      BY <1>5 DEF InsertUrl, CacheHit, CacheMiss, CacheHang, FindByCode, Deactivate,
                  CommitDelete, Fail, Crash
    <2> QED BY <2>1
  <1>6. ASSUME NEW r \in Requests, CacheDelete(r) PROVE WantsActive' /\ FlagIsNeverFalse'
    BY <1>6 DEF CacheDelete, EntriesBut
  <1>7. ASSUME NEW f \in fills, CacheSet(f) PROVE WantsActive' /\ FlagIsNeverFalse'
    BY <1>7 DEF CacheSet, EntriesBut
  <1>8. ASSUME NEW e \in cache, Evict(e) PROVE WantsActive' /\ FlagIsNeverFalse'
    BY <1>8 DEF Evict
  <1>9. CASE UNCHANGED <<want, cache, fills>>
    BY <1>9
  <1> QED BY <1>1, <1>2, <1>3, <1>4, <1>5, <1>6, <1>7, <1>8, <1>9
          DEF Next, Step, WriteClick, Expire, vars

LEMMA WantsCorrect == Spec => [](WantsActive /\ FlagIsNeverFalse)
  <1>1. Init => WantsActive /\ FlagIsNeverFalse
    BY LinkExists DEF Init, WantsActive, FlagIsNeverFalse
  <1> QED BY <1>1, FlagStep, TypeCorrect, PTL DEF Spec

\* No entry of the cache and no pending fill ever says that its link is inactive.
THEOREM FlagCorrect == Spec => []FlagIsNeverFalse
  <1> QED BY WantsCorrect, PTL

-----------------------------------------------------------------------------
(* What a refused request leaves *)

\* A request that was answered is done.
AnsweredIsDone == \A r \in Requests : answer[r] # "none" => pc[r] = "done"

LEMMA DoneStep == TypeOK /\ AnsweredIsDone /\ [Next]_vars => AnsweredIsDone'
  <1> SUFFICES ASSUME TypeOK, AnsweredIsDone, [Next]_vars PROVE AnsweredIsDone' OBVIOUS
  <1> USE DEF TypeOK, AnsweredIsDone, stores, goroutines, requests, Reply, Goto
  <1>1. ASSUME NEW r \in Requests,
               \/ ShortenURL(r) \/ RedirectToURL(r) \/ DeactivateURL(r) \/ InsertUrl(r)
               \/ CacheMiss(r) \/ CacheHang(r) \/ FindByCode(r) \/ Deactivate(r)
        PROVE  AnsweredIsDone'
    BY <1>1 DEF ShortenURL, RedirectToURL, DeactivateURL, InsertUrl, CacheMiss, CacheHang,
                FindByCode, Deactivate
  <1>2. ASSUME NEW r \in Requests, Collide(r) \/ CommitShorten(r) \/ CacheHit(r) \/ Decide(r)
        PROVE  AnsweredIsDone'
    BY <1>2 DEF Collide, Refuse, CommitShorten, CacheHit, ServeCached, Decide
  <1>3. ASSUME NEW r \in Requests, CommitDelete(r) \/ CacheDelete(r) \/ Fail(r) \/ Crash(r)
        PROVE  AnsweredIsDone'
    BY <1>3 DEF CommitDelete, CacheDelete, Fail, Crash
  <1>4. CASE UNCHANGED <<pc, answer>>
    BY <1>4
  <1> QED BY <1>1, <1>2, <1>3, <1>4 DEF Next, Step, CacheSet, WriteClick, Evict, Expire, vars

\* A request that left an event or a fill has gone past the point where it is refused.
TracesAreLate ==
  \A r \in Requests :
    (\/ \E e \in outbox \cup clicks : e.by = r
     \/ \E f \in fills : f.by = r)
    => pc[r] \in {"cacheDelete", "done", "crashed"} /\ answer[r] \notin {"conflict", "forbidden"}

LEMMA TracesStep == TypeOK /\ AnsweredIsDone /\ TracesAreLate /\ [Next]_vars => TracesAreLate'
  <1> SUFFICES ASSUME TypeOK, AnsweredIsDone, TracesAreLate, [Next]_vars PROVE TracesAreLate'
    OBVIOUS
  <1> USE DEF TypeOK, TracesAreLate, stores, goroutines, requests, Reply, Goto
  <1>1. ASSUME NEW r \in Requests,
               \/ ShortenURL(r) \/ RedirectToURL(r) \/ DeactivateURL(r) \/ InsertUrl(r)
               \/ CacheMiss(r) \/ CacheHang(r) \/ FindByCode(r) \/ Deactivate(r)
        PROVE  TracesAreLate'
    <2>1. UNCHANGED <<outbox, clicks, fills>>
      BY <1>1 DEF ShortenURL, RedirectToURL, DeactivateURL, InsertUrl, CacheMiss, CacheHang,
                  FindByCode, Deactivate
    <2>2. pc[r] \notin {"cacheDelete", "done", "crashed"}
      BY <1>1 DEF ShortenURL, RedirectToURL, DeactivateURL, InsertUrl, CacheMiss, CacheHang,
                  FindByCode, Deactivate
    <2>3. \A q \in Requests \ {r} : pc'[q] = pc[q] /\ answer'[q] = answer[q]
      BY <1>1 DEF ShortenURL, RedirectToURL, DeactivateURL, InsertUrl, CacheMiss, CacheHang,
                  FindByCode, Deactivate
    <2> QED BY <2>1, <2>2, <2>3
  <1>2. ASSUME NEW r \in Requests, Collide(r) PROVE TracesAreLate'
    <2>1. UNCHANGED <<outbox, clicks, fills>> /\ pc[r] = "insert"
      BY <1>2 DEF Collide, Refuse
    <2>2. \A q \in Requests \ {r} : pc'[q] = pc[q] /\ answer'[q] = answer[q]
      BY <1>2 DEF Collide, Refuse
    <2> QED BY <2>1, <2>2
  <1>3. ASSUME NEW r \in Requests, CommitShorten(r) PROVE TracesAreLate'
    BY <1>3 DEF CommitShorten, NewEvent
  <1>4. ASSUME NEW r \in Requests, CacheHit(r) PROVE TracesAreLate'
    BY <1>4 DEF CacheHit, ServeCached, Click, NewEvent
  <1>5. ASSUME NEW r \in Requests, Decide(r) PROVE TracesAreLate'
    BY <1>5 DEF Decide, FillIfLive, Click, NewEvent
  <1>6. ASSUME NEW r \in Requests, CommitDelete(r) PROVE TracesAreLate'
    BY <1>6 DEF CommitDelete, NewEvent, AnsweredIsDone
  <1>7. ASSUME NEW r \in Requests, CacheDelete(r) \/ Fail(r) \/ Crash(r) PROVE TracesAreLate'
    BY <1>7 DEF CacheDelete, Fail, Crash
  <1>8. ASSUME NEW f \in fills, CacheSet(f) PROVE TracesAreLate'
    BY <1>8 DEF CacheSet
  <1>9. ASSUME NEW e \in clicks, WriteClick(e) PROVE TracesAreLate'
    BY <1>9 DEF WriteClick
  <1>10. CASE UNCHANGED <<outbox, clicks, fills, pc, answer>>
    BY <1>10
  <1> QED BY <1>1, <1>2, <1>3, <1>4, <1>5, <1>6, <1>7, <1>8, <1>9, <1>10
          DEF Next, Step, Evict, Expire, vars

-----------------------------------------------------------------------------
(* Events and rows *)

\* What an insertion of one event does to the events of a code.
LEMMA EventsOfInsert ==
  ASSUME NEW e, outbox' = outbox \cup {e}, NEW type, NEW c
  PROVE  EventsOf(type, c)' = IF e.type = type /\ e.code = c
                              THEN EventsOf(type, c) \cup {e} ELSE EventsOf(type, c)
  BY DEF EventsOf

\* Only commits and click goroutines write to the outbox, and only redirects start
\* such a goroutine.
LEMMA OutboxStep ==
  ASSUME [Next]_vars
  PROVE  \/ \E r \in Requests : CommitShorten(r) \/ CommitDelete(r)
         \/ \E r \in Requests : CacheHit(r) \/ Decide(r)
         \/ \E e \in clicks : WriteClick(e)
         \/ UNCHANGED <<urls, outbox, clicks>>
  BY DEF Next, Step, vars, stores, goroutines, ShortenURL, InsertUrl, Collide, RedirectToURL,
         CacheMiss, CacheHang, FindByCode, DeactivateURL, Deactivate, CacheDelete, Fail,
         Crash, CacheSet, Evict, Expire

\* A row that a deletion has locked is not ended by another one.
LEMMA DeletionsStep == Inv /\ DeletionsFindTheirRow /\ [Next]_vars => DeletionsFindTheirRow'
  <1> SUFFICES ASSUME Inv, DeletionsFindTheirRow, [Next]_vars,
                      NEW q \in Requests, pc'[q] = "commitDelete"
               PROVE  Matches(want[q])' # {}
    BY DEF DeletionsFindTheirRow
  <1>t. TypeOK /\ LocksAreOpenTransactions /\ LocksAreOnWanted
    BY DEF Inv
  <1>1. CASE pc[q] # "commitDelete"
    <2> USE DEF TypeOK, stores, goroutines, requests, Goto, Reply
    <2>1. \E r \in Requests : Deactivate(r) /\ r = q /\ Matches(want[q]) # {}
      BY <1>1, <1>t DEF Next, Step, vars, ShortenURL, InsertUrl, Collide, Refuse, CommitShorten,
         RedirectToURL, CacheHit, ServeCached, CacheMiss, CacheHang, FindByCode, Decide,
         DeactivateURL, Deactivate, CommitDelete, CacheDelete, Fail, Crash, CacheSet,
         WriteClick, Evict, Expire
    <2>2. UNCHANGED <<urls, want>>
      BY <2>1 DEF Deactivate
    <2> QED BY <2>1, <2>2 DEF Matches
  <1>2. CASE pc[q] = "commitDelete"
    <2>1. want'[q] = want[q]
      BY <1>2, <1>t DEF TypeOK, Next, Step, vars, stores, goroutines, requests, ShortenURL, InsertUrl,
         Collide, CommitShorten, RedirectToURL, CacheHit, CacheMiss, CacheHang, FindByCode, Decide,
         DeactivateURL, Deactivate, CommitDelete, CacheDelete, Fail, Crash, CacheSet, WriteClick,
         Evict, Expire, Ask
    <2>2. PICK l \in urls : l \in Matches(want[q])
      BY <1>2 DEF DeletionsFindTheirRow, Matches
    <2>3. ASSUME NEW r \in Requests, CommitDelete(r) PROVE l \in urls'
      <3>1. pc[r] = "commitDelete" /\ r # q
        BY <2>3, <1>t DEF CommitDelete, TypeOK, Goto, Reply
      <3>2. PICK k \in locks, m \in locks : k.by = r /\ m.by = q
        BY <3>1, <1>2, <1>t DEF LocksAreOpenTransactions
      <3>3. want[r].code # want[q].code
        BY <3>1, <3>2, <1>t DEF LocksAreOpenTransactions, LocksAreOnWanted
      <3> QED BY <2>2, <2>3, <3>3 DEF CommitDelete, Matches
    <2>4. ASSUME NEW r \in Requests, CommitShorten(r) PROVE l \in urls'
      BY <2>4 DEF CommitShorten
    <2> QED BY <2>1, <2>2, <2>3, <2>4, UrlsStep DEF Matches
  <1> QED BY <1>1, <1>2

\* A click is a click, of the code and the owner its redirect has read.
LEMMA ClicksStep == Inv /\ ClicksAreClicks /\ [Next]_vars => ClicksAreClicks'
  <1> SUFFICES ASSUME ClicksAreClicks, [Next]_vars PROVE ClicksAreClicks'
    OBVIOUS
  <1>1. ASSUME NEW r \in Requests, CacheHit(r) \/ Decide(r) PROVE ClicksAreClicks'
    BY <1>1 DEF CacheHit, ServeCached, Decide, Click, NewEvent, ClicksAreClicks
  <1>2. ASSUME NEW r \in Requests, CommitShorten(r) \/ CommitDelete(r) PROVE ClicksAreClicks'
    BY <1>2 DEF CommitShorten, CommitDelete, goroutines, ClicksAreClicks
  <1>3. ASSUME NEW e \in clicks, WriteClick(e) PROVE ClicksAreClicks'
    BY <1>3 DEF WriteClick, ClicksAreClicks
  <1> QED BY <1>1, <1>2, <1>3, OutboxStep DEF ClicksAreClicks

\* The events of a new row: none before, its url.created after.
LEMMA CreatedEvents ==
  ASSUME EventsInv, WantsActive, NEW r \in Requests, CommitShorten(r)
  PROVE  EventsMatchRows'
  <1> DEFINE new == want[r]
             e == NewEvent("url.created", new, r)
  <1>1. /\ urls' = urls \cup {new} /\ outbox' = outbox \cup {e} /\ clicks' = clicks
        /\ e.type = "url.created" /\ e.code = new.code /\ e.owner = new.owner
    BY DEF CommitShorten, NewEvent
  <1>2. new.active /\ \A l \in urls : l.code # new.code
    BY DEF EventsInv, Inv, CommitShorten, InsertsStayNew, Taken, WantsActive
  <1>3. EventsMatchRows
    BY DEF EventsInv
  <1> HIDE DEF new, e
  <1>4. \A type : EventsOf(type, new.code) = {}
    BY <1>2, <1>3 DEF EventsMatchRows, EventsOf
  <1>5. ASSUME NEW type, NEW c
        PROVE  EventsOf(type, c)' = IF type = "url.created" /\ c = new.code
                                    THEN {e} ELSE EventsOf(type, c)
    BY <1>1, <1>4, EventsOfInsert
  <1>6. ASSUME NEW l \in urls'
        PROVE  /\ Once(EventsOf("url.created", l.code)')
               /\ l.active => EventsOf("url.deleted", l.code)' = {}
               /\ ~ l.active => Once(EventsOf("url.deleted", l.code)')
    <2>1. CASE l = new
      BY <1>2, <1>4, <1>5, <2>1 DEF Once
    <2>2. CASE l \in urls
      BY <1>2, <1>3, <1>5, <2>2 DEF EventsMatchRows
    <2> QED BY <1>1, <2>1, <2>2
  <1>7. ASSUME NEW f \in outbox' \cup clicks'
        PROVE  \E l \in urls' : l.code = f.code /\ l.owner = f.owner
    BY <1>1, <1>3 DEF EventsMatchRows
  <1> QED BY <1>6, <1>7 DEF EventsMatchRows, Once

\* The events of a row that ends: no url.deleted before, one after.
LEMMA DeletedEvents ==
  ASSUME EventsInv, NEW r \in Requests, CommitDelete(r)
  PROVE  EventsMatchRows'
  <1> DEFINE e == NewEvent("url.deleted", want[r], r)
  <1>0. pc[r] = "commitDelete" /\ TypeOK /\ UniqueCodes /\ EventsMatchRows
    BY DEF EventsInv, Inv, CommitDelete
  <1>1. PICK old \in urls : /\ old.code = want[r].code /\ old.owner = want[r].owner
                            /\ old.active
    BY <1>0 DEF EventsInv, DeletionsFindTheirRow, Matches
  <1>2. /\ outbox' = outbox \cup {e} /\ clicks' = clicks
        /\ e.type = "url.deleted" /\ e.code = old.code /\ e.owner = old.owner
    BY <1>1 DEF CommitDelete, NewEvent, goroutines
  <1>3. Matches(want[r]) = {old}
    BY <1>0, <1>1 DEF Matches, UniqueCodes
  <1>4. urls' = (urls \ {old}) \cup {Inactive(old)}
    BY <1>3 DEF CommitDelete
  <1>5. Inactive(old).code = old.code /\ Inactive(old).owner = old.owner /\ ~ Inactive(old).active
    BY DEF Inactive, LinkOf
  <1> HIDE DEF e
  <1>6. ASSUME NEW type, NEW c
        PROVE  EventsOf(type, c)' = IF type = "url.deleted" /\ c = old.code
                                    THEN {e} ELSE EventsOf(type, c)
    <2>1. EventsOf("url.deleted", old.code) = {}
      BY <1>0, <1>1 DEF EventsMatchRows
    <2> QED BY <1>2, <2>1, EventsOfInsert
  <1>7. ASSUME NEW l \in urls'
        PROVE  /\ Once(EventsOf("url.created", l.code)')
               /\ l.active => EventsOf("url.deleted", l.code)' = {}
               /\ ~ l.active => Once(EventsOf("url.deleted", l.code)')
    <2>1. CASE l = Inactive(old)
      BY <1>0, <1>5, <1>6, <2>1 DEF EventsMatchRows, Once
    <2>2. CASE l \in urls \ {old}
      <3>1. l.code # old.code
        BY <1>0, <2>2 DEF UniqueCodes
      <3> QED BY <1>0, <1>6, <2>2, <3>1 DEF EventsMatchRows
    <2> QED BY <1>4, <2>1, <2>2
  <1>8. ASSUME NEW f \in outbox' \cup clicks'
        PROVE  \E l \in urls' : l.code = f.code /\ l.owner = f.owner
    <2>1. \E l \in urls : l.code = f.code /\ l.owner = f.owner
      BY <1>0, <1>2 DEF EventsMatchRows
    <2> QED BY <2>1, <1>4, <1>5
  <1> QED BY <1>7, <1>8 DEF EventsMatchRows, Once

\* A redirect clicks on a code and an owner that some row has.
LEMMA ClickedEvents ==
  ASSUME EventsInv, NEW r \in Requests, CacheHit(r) \/ Decide(r)
  PROVE  EventsMatchRows'
  <1>1. UNCHANGED <<urls, outbox>>
    BY DEF CacheHit, Decide, stores
  <1>2. ASSUME NEW e \in clicks'
        PROVE  \E l \in urls : l.code = e.code /\ l.owner = e.owner
    <2>1. CASE e \in clicks
      BY <2>1 DEF EventsInv, EventsMatchRows
    <2>2. CASE e \notin clicks
      <3>1. PICK l \in Copies : e = NewEvent("url.clicked", l, r)
        BY <2>2 DEF CacheHit, ServeCached, Decide, Click, Copies
      <3> QED BY <3>1 DEF EventsInv, Inv, CopiesAgree, NewEvent
    <2> QED BY <2>1, <2>2
  <1> QED BY <1>1, <1>2 DEF EventsInv, EventsMatchRows, EventsOf, Once

\* What a click goroutine writes is no event of the life of a row.
LEMMA WrittenEvents ==
  ASSUME EventsInv, NEW e \in clicks, WriteClick(e)
  PROVE  EventsMatchRows'
  <1>1. UNCHANGED urls /\ clicks' \subseteq clicks /\ outbox' \in {outbox, outbox \cup {e}}
    BY DEF WriteClick
  <1>2. e.type = "url.clicked"
    BY DEF EventsInv, ClicksAreClicks
  <1>3. \A c : /\ EventsOf("url.created", c)' = EventsOf("url.created", c)
               /\ EventsOf("url.deleted", c)' = EventsOf("url.deleted", c)
    BY <1>1, <1>2 DEF EventsOf
  <1>4. EventsMatchRows
    BY DEF EventsInv
  <1>5. ASSUME NEW l \in urls
        PROVE  /\ Once(EventsOf("url.created", l.code))'
               /\ l.active => EventsOf("url.deleted", l.code)' = {}
               /\ ~ l.active => Once(EventsOf("url.deleted", l.code))'
    <2>1. /\ Once(EventsOf("url.created", l.code))
          /\ l.active => EventsOf("url.deleted", l.code) = {}
          /\ ~ l.active => Once(EventsOf("url.deleted", l.code))
      BY <1>4 DEF EventsMatchRows
    <2>2. /\ EventsOf("url.created", l.code)' = EventsOf("url.created", l.code)
          /\ EventsOf("url.deleted", l.code)' = EventsOf("url.deleted", l.code)
      BY <1>3
    <2> QED BY <2>1, <2>2 DEF Once
  <1>6. ASSUME NEW f \in outbox' \cup clicks'
        PROVE  \E l \in urls : l.code = f.code /\ l.owner = f.owner
    <2>1. f \in outbox \cup clicks
      BY <1>1
    <2> QED BY <1>4, <2>1 DEF EventsMatchRows
  <1> QED BY <1>1, <1>5, <1>6 DEF EventsMatchRows

\* EventsInv is inductive, for what requests ask for is active.
LEMMA EventsStep == EventsInv /\ WantsActive /\ [Next]_vars => EventsInv'
  <1> SUFFICES ASSUME EventsInv, WantsActive, [Next]_vars PROVE EventsInv'
    OBVIOUS
  <1>1. Inv' /\ DeletionsFindTheirRow' /\ ClicksAreClicks'
    BY InvInductive, DeletionsStep, ClicksStep DEF EventsInv
  <1>2. UNCHANGED <<urls, outbox, clicks>> => EventsMatchRows'
    BY DEF EventsInv, EventsMatchRows, EventsOf, Once
  <1>3. EventsMatchRows'
    BY <1>2, OutboxStep, CreatedEvents, DeletedEvents, ClickedEvents, WrittenEvents
  <1> QED BY <1>1, <1>3 DEF EventsInv

\* For every number of requests, codes and replicas: a row and its url.created appear
\* together, it ends together with its one url.deleted, and no event is about a row
\* that is not there, whatever fails or crashes in between.
THEOREM EventsCorrect == Spec => []EventsMatchRows
  <1>1. Init => EventsInv
    <2>1. Init => EventsMatchRows /\ DeletionsFindTheirRow /\ ClicksAreClicks
      BY DEF Init, EventsMatchRows, DeletionsFindTheirRow, ClicksAreClicks
    <2> QED BY <2>1, InvInit DEF EventsInv
  <1>2. EventsInv => EventsMatchRows
    BY DEF EventsInv
  <1> QED BY <1>1, <1>2, EventsStep, WantsCorrect, PTL DEF Spec

-----------------------------------------------------------------------------
(* Whose the rows are *)

\* What a request asks for is settled once it is past the INSERT.
LEMMA WantsSettle ==
  ASSUME TypeOK, [Next]_vars, NEW q \in Requests, pc[q] \in {"cacheDelete", "done", "crashed"}
  PROVE  want'[q] = want[q]
  BY DEF TypeOK, Next, Step, vars, stores, goroutines, requests, ShortenURL, InsertUrl,
     Collide, CommitShorten, RedirectToURL, CacheHit, CacheMiss, CacheHang, FindByCode, Decide,
     DeactivateURL, Deactivate, CommitDelete, CacheDelete, Fail, Crash, CacheSet, WriteClick,
     Evict, Expire, Ask

\* Whatever an event of the outbox says of its request, it says ever after.
LEMMA EventsStay ==
  ASSUME TypeOK, TracesAreLate, [Next]_vars, NEW type, NEW c, NEW e \in EventsOf(type, c)
  PROVE  e \in EventsOf(type, c)' /\ want'[e.by] = want[e.by]
  <1>1. e \in outbox /\ e.type = type /\ e.code = c /\ e.by \in Requests
    BY DEF EventsOf, TypeOK, Event
  <1>2. outbox \subseteq outbox'
    <2>1. ASSUME NEW r \in Requests, CommitShorten(r) \/ CommitDelete(r) PROVE outbox \subseteq outbox'
      BY <2>1 DEF CommitShorten, CommitDelete
    <2>2. ASSUME NEW r \in Requests, CacheHit(r) \/ Decide(r) PROVE outbox \subseteq outbox'
      BY <2>2 DEF CacheHit, Decide, stores
    <2>3. ASSUME NEW f \in clicks, WriteClick(f) PROVE outbox \subseteq outbox'
      BY <2>3 DEF WriteClick
    <2> QED BY <2>1, <2>2, <2>3, OutboxStep
  <1>3. want'[e.by] = want[e.by]
    BY <1>1, WantsSettle DEF TracesAreLate
  <1> QED BY <1>1, <1>2, <1>3 DEF EventsOf

\* A link keeps the request that was granted it, ...
LEMMA GrantsStay ==
  ASSUME TypeOK, TracesAreLate, [Next]_vars, NEW l, WasGranted(l)
  PROVE  WasGranted(l)'
  <1>1. PICK e \in EventsOf("url.created", l.code) :
          want[e.by] = LinkOf(l.code, l.url, l.owner, TRUE)
    BY DEF WasGranted
  <1>2. e \in EventsOf("url.created", l.code)' /\ want'[e.by] = want[e.by]
    BY EventsStay
  <1> QED BY <1>1, <1>2 DEF WasGranted

\* ... and its end the request that ended it.
LEMMA EndsStay ==
  ASSUME TypeOK, TracesAreLate, [Next]_vars, NEW l,
         \E e \in EventsOf("url.deleted", l.code) : want[e.by].owner = l.owner
  PROVE  \E e \in EventsOf("url.deleted", l.code)' : want'[e.by].owner = l.owner
  <1>1. PICK e \in EventsOf("url.deleted", l.code) : want[e.by].owner = l.owner
    OBVIOUS
  <1>2. e \in EventsOf("url.deleted", l.code)' /\ want'[e.by] = want[e.by]
    BY EventsStay
  <1> QED BY <1>1, <1>2

\* COMMIT gives a new row, and the end of a row, the event of the request it does it for.
LEMMA GrantsStep ==
  TypeOK /\ WantsActive /\ TracesAreLate /\ RowsWereGranted /\ [Next]_vars => RowsWereGranted'
  <1> SUFFICES ASSUME TypeOK, WantsActive, TracesAreLate, RowsWereGranted, [Next]_vars,
                      NEW l \in urls'
               PROVE  /\ WasGranted(l)'
                      /\ ~ l.active =>
                           \E e \in EventsOf("url.deleted", l.code)' : want'[e.by].owner = l.owner
    BY DEF RowsWereGranted
  <1>1. CASE l \in urls
    BY <1>1, GrantsStay, EndsStay DEF RowsWereGranted
  <1>2. ASSUME NEW r \in Requests, CommitShorten(r), l \notin urls
        PROVE  WasGranted(l)' /\ l.active
    <2>1. l = want[r] /\ want' = want /\ l.active /\ l \in Link
      BY <1>2 DEF CommitShorten, WantsActive, TypeOK
    <2>2. l = LinkOf(l.code, l.url, l.owner, TRUE)
      BY <2>1 DEF Link, LinkOf
    <2>3. NewEvent("url.created", want[r], r) \in EventsOf("url.created", l.code)'
      BY <1>2, <2>1 DEF CommitShorten, EventsOf, NewEvent
    <2>4. NewEvent("url.created", want[r], r).by = r
      BY DEF NewEvent
    <2> QED BY <2>1, <2>2, <2>3, <2>4 DEF WasGranted
  <1>3. ASSUME NEW r \in Requests, CommitDelete(r), l \notin urls
        PROVE  /\ WasGranted(l)'
               /\ \E e \in EventsOf("url.deleted", l.code)' : want'[e.by].owner = l.owner
    <2>1. PICK m \in Matches(want[r]) : l = Inactive(m)
      BY <1>3 DEF CommitDelete
    <2>2. /\ m \in urls /\ m.code = want[r].code /\ m.owner = want[r].owner
          /\ l.code = m.code /\ l.url = m.url /\ l.owner = m.owner
      BY <2>1 DEF Matches, Inactive, LinkOf
    <2>3. WasGranted(l)'
      <3>1. WasGranted(m)'
        BY <2>2, GrantsStay DEF RowsWereGranted
      <3> QED BY <2>2, <3>1 DEF WasGranted
    <2>4. NewEvent("url.deleted", want[r], r) \in EventsOf("url.deleted", l.code)'
      BY <1>3, <2>2 DEF CommitDelete, EventsOf, NewEvent
    <2>5. NewEvent("url.deleted", want[r], r).by = r /\ want' = want
      BY <1>3 DEF NewEvent, CommitDelete
    <2> QED BY <2>2, <2>3, <2>4, <2>5
  <1> QED BY <1>1, <1>2, <1>3, UrlsStep

\* A copy agrees with a row, so it was granted with it.
LEMMA CopiesWereGranted ==
  ASSUME CopiesAgree, RowsWereGranted, NEW l \in cache \cup {f.link : f \in fills}
  PROVE  WasGranted(l)
  <1>1. PICK row \in urls : row.code = l.code /\ row.url = l.url /\ row.owner = l.owner
    BY DEF CopiesAgree, Copies
  <1> QED BY <1>1 DEF RowsWereGranted, WasGranted

\* For every number of requests: a request answered 409 or 403 left no event, fill or
\* lock, and every row, end of a row, cached entry and pending fill stems from the
\* committed event of a request that asked for it.
THEOREM RefusalsCorrect == Spec => []RefusalsLeaveNothing
  <1>1. Init => TracesAreLate /\ AnsweredIsDone /\ RowsWereGranted
    BY DEF Init, TracesAreLate, AnsweredIsDone, RowsWereGranted
  <1>2. Inv /\ TracesAreLate /\ AnsweredIsDone /\ RowsWereGranted => RefusalsLeaveNothing
    <2> SUFFICES ASSUME Inv, TracesAreLate, AnsweredIsDone, RowsWereGranted
                 PROVE  RefusalsLeaveNothing
      OBVIOUS
    <2>1. ASSUME NEW r \in Requests, Refused(r)
          PROVE  /\ \A e \in outbox \cup clicks : e.by # r
                 /\ \A f \in fills : f.by # r
                 /\ \A k \in locks : k.by # r
      BY <2>1 DEF Inv, TracesAreLate, AnsweredIsDone, LocksAreOpenTransactions, Refused
    <2>2. \A l \in cache \cup {f.link : f \in fills} : WasGranted(l)
      BY CopiesWereGranted DEF Inv
    <2> QED BY <2>1, <2>2 DEF RowsWereGranted, RefusalsLeaveNothing
  <1>3. Inv => TypeOK
    BY DEF Inv
  <1> QED BY <1>1, <1>2, <1>3, TracesStep, DoneStep, GrantsStep, WantsCorrect, InvCorrect,
             PTL DEF Spec

-----------------------------------------------------------------------------
(* Expiry *)

\* Both ways to a redirect look at the expiry of the code they were asked for.
LEMMA ServedStep ==
  ASSUME Inv, [Next]_vars,
         NEW v \in Requests, answer[v] = "none", answer'[v] = "redirect"
  PROVE  want[v].code \notin expired
  <1>t. TypeOK /\ SeenIsWanted
    BY DEF Inv
  <1> USE DEF TypeOK, stores, goroutines, requests, Reply, Goto
  <1>1. ASSUME NEW r \in Requests, CacheHit(r) PROVE want[v].code \notin expired
    BY <1>1, <1>t DEF CacheHit, ServeCached, Live
  <1>2. ASSUME NEW r \in Requests, Decide(r) PROVE want[v].code \notin expired
    BY <1>2, <1>t DEF Decide, Live, SeenIsWanted
  <1>3. ASSUME NEW r \in Requests,
               \/ ShortenURL(r) \/ RedirectToURL(r) \/ DeactivateURL(r)
               \/ InsertUrl(r) \/ Crash(r) \/ CacheMiss(r) \/ CacheHang(r)
        PROVE  FALSE
    BY <1>3, <1>t DEF ShortenURL, RedirectToURL, DeactivateURL, InsertUrl, Crash, CacheMiss, CacheHang
  <1>4. ASSUME NEW r \in Requests, Collide(r) \/ CommitShorten(r) \/ FindByCode(r)
        PROVE  FALSE
    BY <1>4, <1>t DEF Collide, Refuse, CommitShorten, FindByCode
  <1>5. ASSUME NEW r \in Requests, Deactivate(r) \/ CommitDelete(r) \/ CacheDelete(r) \/ Fail(r)
        PROVE  FALSE
    BY <1>5, <1>t DEF Deactivate, CommitDelete, CacheDelete, Fail
  <1>6. CASE UNCHANGED answer
    BY <1>6
  <1> QED BY <1>1, <1>2, <1>3, <1>4, <1>5, <1>6
          DEF Next, Step, CacheSet, WriteClick, Evict, Expire, vars

\* A cache entry may outlive its link, but no redirect does.
THEOREM ExpiryCorrect == Spec => ExpiredIsNotServed
  <1>1. Inv /\ [Next]_vars
        => \A r \in Visitors :
              answer[r] = "none" /\ answer'[r] = "redirect" => want[r].code \notin expired
    BY ServedStep DEF Requests
  <1> QED BY <1>1, InvCorrect, PTL DEF Spec, ExpiredIsNotServed

-----------------------------------------------------------------------------
(* Steps. *)

\* The steps left are a number, and at most six.
LEMMA StepsLeftType ==
  ASSUME TypeOK, NEW r \in Requests
  PROVE  StepsLeft(r) \in 0 .. MaxAttempts + 3
  <1>1. pc[r] \in Labels /\ tries[r] \in 0 .. MaxAttempts
    BY DEF TypeOK
  <1> QED BY <1>1 DEF StepsLeft, Labels, MaxAttempts

\* A step of one request leaves the others alone.
LEMMA OthersStand ==
  ASSUME TypeOK, NEW q \in Requests, NEW r \in Requests, r # q,
         \/ ShortenURL(q) \/ RedirectToURL(q) \/ DeactivateURL(q)
         \/ Step(q) \/ Fail(q) \/ Crash(q)
  PROVE  Stands(r)
  <1> USE DEF TypeOK, Stands, stores, goroutines, requests, Reply, Goto, Ask
  <1>1. ShortenURL(q) \/ RedirectToURL(q) \/ DeactivateURL(q) => Stands(r)
    BY DEF ShortenURL, RedirectToURL, DeactivateURL
  <1>2. InsertUrl(q) \/ Collide(q) \/ CommitShorten(q) => Stands(r)
    BY DEF InsertUrl, Collide, CommitShorten, Refuse
  <1>3. CacheHit(q) \/ CacheMiss(q) \/ CacheHang(q) => Stands(r)
    BY DEF CacheHit, CacheMiss, CacheHang, ServeCached
  <1>4. FindByCode(q) \/ Decide(q) => Stands(r)
    BY DEF FindByCode, Decide
  <1>5. Deactivate(q) \/ CommitDelete(q) \/ CacheDelete(q) => Stands(r)
    BY DEF Deactivate, CommitDelete, CacheDelete
  <1>6. Fail(q) \/ Crash(q) => Stands(r)
    BY DEF Fail, Crash
  <1> QED BY <1>1, <1>2, <1>3, <1>4, <1>5, <1>6 DEF Step

\* A step of a request takes one off those it has left.
LEMMA StepCounts ==
  ASSUME TypeOK, NEW r \in Requests,
         \/ ShortenURL(r) \/ RedirectToURL(r) \/ DeactivateURL(r)
         \/ Step(r) \/ Fail(r) \/ Crash(r)
  PROVE  StepsLeft(r)' < StepsLeft(r)
  <1>t. /\ pc \in [Requests -> Labels] /\ pc[r] \in Labels
        /\ tries \in [Requests -> 0 .. MaxAttempts] /\ tries[r] \in 0 .. MaxAttempts
    BY DEF TypeOK
  <1> USE <1>t DEF StepsLeft, Labels, MaxAttempts, Reply, Goto
  <1>1. ShortenURL(r) \/ RedirectToURL(r) \/ DeactivateURL(r) => StepsLeft(r)' < StepsLeft(r)
    BY DEF ShortenURL, RedirectToURL, DeactivateURL
  <1>2. InsertUrl(r) => StepsLeft(r)' < StepsLeft(r)
    BY DEF InsertUrl
  <1>3. Collide(r) => StepsLeft(r)' < StepsLeft(r)
    BY DEF Collide, Refuse
  <1>4. CommitShorten(r) => StepsLeft(r)' < StepsLeft(r)
    BY DEF CommitShorten
  <1>5. CacheHit(r) \/ CacheMiss(r) \/ CacheHang(r) => StepsLeft(r)' < StepsLeft(r)
    BY DEF CacheHit, CacheMiss, CacheHang, ServeCached
  <1>6. FindByCode(r) \/ Decide(r) => StepsLeft(r)' < StepsLeft(r)
    BY DEF FindByCode, Decide
  <1>7. Deactivate(r) \/ CommitDelete(r) \/ CacheDelete(r) => StepsLeft(r)' < StepsLeft(r)
    BY DEF Deactivate, CommitDelete, CacheDelete
  <1>8. Fail(r) \/ Crash(r) => StepsLeft(r)' < StepsLeft(r)
    BY DEF Fail, Crash
  <1> QED BY <1>1, <1>2, <1>3, <1>4, <1>5, <1>6, <1>7, <1>8 DEF Step

\* No request goes in a circle, and none is set back by another: however they
\* collide, fail and wait, each makes at most six steps.
THEOREM AdvanceCorrect == Spec => RequestsAdvance
  <1>1. TypeOK /\ [Next]_vars => [Advances]_vars
    <2> SUFFICES ASSUME TypeOK, Next PROVE Advances
      OBVIOUS
    <2>1. ASSUME NEW q \in Requests,
                 \/ ShortenURL(q) \/ RedirectToURL(q) \/ DeactivateURL(q)
                 \/ Step(q) \/ Fail(q) \/ Crash(q)
          PROVE  Advances
      BY <2>1, OthersStand, StepCounts DEF Advances
    <2>2. ASSUME UNCHANGED requests PROVE Advances
      BY <2>2 DEF Advances, Stands, requests
    <2>3. \/ \E f \in fills : CacheSet(f)
          \/ \E e \in clicks : WriteClick(e)
          \/ \E e \in cache : Evict(e)
          \/ \E l \in urls : Expire(l)
          => UNCHANGED requests
      BY DEF CacheSet, WriteClick, Evict, Expire
    <2> QED BY <2>1, <2>2, <2>3 DEF Next
  <1> QED BY <1>1, TypeCorrect, PTL DEF Spec, RequestsAdvance

-----------------------------------------------------------------------------
(* Short codes.                                                            *)

\* Induction, over a set: one that holds 0 and with each number the next holds them all.
LEMMA AllNumbers ==
  ASSUME NEW S, 0 \in S, \A k \in Nat : k \in S => k + 1 \in S
  PROVE  \A k \in Nat : k \in S
  <1> SUFFICES ASSUME NEW m \in Nat, m \notin S PROVE FALSE
    OBVIOUS
  <1> DEFINE T == {n \in Nat : n \notin S}
  <1>1. T \subseteq Nat /\ T # {}
    OBVIOUS
  <1> HIDE DEF T
  <1>2. PICK n \in T : \A k \in T : ~ (<<k, n>> \in OpToRel(<, Nat))
    BY <1>1, NatLessThanWellFounded, WFMin
  <1>3. n \in Nat \ {0} /\ n - 1 \in Nat /\ n \notin S
    BY DEF T
  <1>4. n - 1 \in T
    <2>1. n - 1 \in S => (n - 1) + 1 \in S
      BY <1>3
    <2> QED BY <2>1, <1>3 DEF T
  <1>5. <<n - 1, n>> \in OpToRel(<, Nat)
    BY <1>3 DEF OpToRel
  <1> QED BY <1>2, <1>4, <1>5

\* What follows each value, and the functions that start at a and follow it.
StepsIn(A) == [Nat -> [A -> A]]
RunsFrom(a, next, A) ==
    {g \in [Nat -> A] : g[0] = a /\ \A k \in Nat : g[k + 1] = next[k][g[k]]}

\* A first value and what follows each value make a function of all numbers.
LEMMA StepsDefine ==
  ASSUME NEW A, NEW a \in A, NEW next \in StepsIn(A)
  PROVE  RunsFrom(a, next, A) # {}
  <1> USE DEF StepsIn
  <1> DEFINE Runs(n) == {h \in [0 .. n -> A] :
                            h[0] = a /\ \A k \in 0 .. n - 1 : h[k + 1] = next[k][h[k]]}
  <1>1. ASSUME NEW n \in Nat, Runs(n) # {} PROVE Runs(n + 1) # {}
    <2>1. PICK h \in Runs(n) : TRUE
      BY <1>1
    <2> DEFINE i == [k \in 0 .. n + 1 |-> IF k = n + 1 THEN next[n][h[n]] ELSE h[k]]
    <2>2. i \in [0 .. n + 1 -> A] /\ i[0] = a
      BY <2>1
    <2>3. ASSUME NEW k \in 0 .. n PROVE i[k + 1] = next[k][i[k]]
      <3>1. CASE k = n
        BY <3>1
      <3>2. CASE k # n
        <4>1. k \in 0 .. n - 1 /\ i[k + 1] = h[k + 1] /\ i[k] = h[k]
          BY <3>2
        <4> QED BY <4>1, <2>1
      <3> QED BY <3>1, <3>2
    <2>4. i \in Runs(n + 1)
      BY <2>2, <2>3
    <2> QED BY <2>4
  <1>2. Runs(0) # {}
    <2>1. [k \in 0 .. 0 |-> a] \in Runs(0)
      OBVIOUS
    <2> QED BY <2>1
  <1>3. ASSUME NEW n \in Nat PROVE Runs(n) # {}
    <2> DEFINE S == {k \in Nat : Runs(k) # {}}
    <2> HIDE DEF Runs
    <2>1. 0 \in S /\ \A k \in Nat : k \in S => k + 1 \in S
      BY <1>1, <1>2
    <2> HIDE DEF S
    <2>2. n \in S
      BY <2>1, AllNumbers
    <2> QED BY <2>2 DEF S
  <1>4. ASSUME NEW n \in Nat, NEW m \in Nat, NEW h \in Runs(n), NEW i \in Runs(m), NEW k \in Nat,
               k <= n, k <= m
        PROVE  h[k] = i[k]
    <2> DEFINE S == {j \in Nat : j <= n /\ j <= m => h[j] = i[j]}
    <2>1. 0 \in S
      OBVIOUS
    <2>2. ASSUME NEW j \in Nat, j \in S PROVE j + 1 \in S
      <3> SUFFICES ASSUME j + 1 <= n, j + 1 <= m PROVE h[j + 1] = i[j + 1]
        OBVIOUS
      <3>1. h[j] = i[j] /\ j \in 0 .. n - 1 /\ j \in 0 .. m - 1
        BY <2>2
      <3> QED BY <3>1
    <2> HIDE DEF S
    <2>3. k \in S
      BY <2>1, <2>2, AllNumbers
    <2> QED BY <2>3, <1>4 DEF S
  <1> DEFINE H(n) == CHOOSE h : h \in Runs(n)
             g == [n \in Nat |-> H(n)[n]]
  <1>5. \A n \in Nat : H(n) \in Runs(n)
    <2> HIDE DEF Runs
    <2> QED BY <1>3
  <1>6. g \in [Nat -> A] /\ g[0] = a
    <2> HIDE DEF H
    <2>1. ASSUME NEW n \in Nat PROVE H(n)[n] \in A
      BY <1>5
    <2>2. H(0)[0] = a
      BY <1>5
    <2> QED BY <2>1, <2>2
  <1>7. ASSUME NEW k \in Nat PROVE g[k + 1] = next[k][g[k]]
    <2> HIDE DEF H
    <2>1. H(k + 1)[k + 1] = next[k][H(k + 1)[k]]
      <3>1. k \in 0 .. (k + 1) - 1 /\ k + 1 \in Nat
        OBVIOUS
      <3> QED BY <3>1, <1>5
    <2>2. H(k + 1)[k] = H(k)[k]
      <3> HIDE DEF Runs
      <3> QED BY <1>4, <1>5
    <2> QED BY <2>1, <2>2
  <1> HIDE DEF g
  <1>8. g \in RunsFrom(a, next, A)
    BY <1>6, <1>7 DEF RunsFrom
  <1> QED BY <1>8

\* One multiple of c less is at least c less.
LEMMA Product ==
  ASSUME NEW a \in Nat, NEW b \in Nat, NEW c \in Nat, a < b
  PROVE  a * c + c <= b * c
  <1>1. (b - a - 1) * c >= 0 /\ (b - a - 1) * c = b * c - a * c - c
    OBVIOUS
  <1> QED BY <1>1

\* A number is made of its quotient and its remainder.
LEMMA DivMod ==
  ASSUME NEW n \in Nat, NEW b \in Nat \ {0}
  PROVE  n \div b \in Nat /\ n % b \in 0 .. b - 1 /\ n = (n \div b) * b + (n % b)
  <1> QED OBVIOUS

\* The quotient and the remainder are the only ones there are.
LEMMA DivModUnique ==
  ASSUME NEW q \in Nat, NEW b \in Nat \ {0}, NEW d \in 0 .. b - 1
  PROVE  (q * b + d) \div b = q /\ (q * b + d) % b = d
  <1> DEFINE n == q * b + d
             p == n \div b
             r == n % b
  <1>1. n \in Nat /\ p \in Nat /\ r \in 0 .. b - 1 /\ p * b + r = q * b + d
    <2>1. n \in Nat /\ d \in Nat
      OBVIOUS
    <2> HIDE DEF n
    <2>2. p \in Nat /\ r \in 0 .. b - 1 /\ n = p * b + r
      BY <2>1, DivMod
    <2> QED BY <2>1, <2>2 DEF n
  <1> HIDE DEF p, r, n
  <1>2. ~ p < q
    <2> SUFFICES ASSUME p < q PROVE FALSE
      OBVIOUS
    <2>1. p * b + b <= q * b
      BY <1>1, Product
    <2> QED BY <1>1, <2>1
  <1>3. ~ q < p
    <2> SUFFICES ASSUME q < p PROVE FALSE
      OBVIOUS
    <2>1. q * b + b <= p * b
      BY <1>1, Product
    <2> QED BY <1>1, <2>1
  <1>4. p = q
    BY <1>1, <1>2, <1>3
  <1>5. r = d
    BY <1>1, <1>4
  <1> QED BY <1>4, <1>5 DEF p, r, n

\* One step of Decode's loop stays in the natural numbers.
LEMMA NextValue ==
  ASSUME NEW v \in Nat, NEW e \in Nat
  PROVE  v * Base + e \in Nat
  BY CodeParametersOK

\* Power is defined, and by its own equations.
LEMMA Powers ==
  /\ Power \in [Nat -> Nat \ {0}]
  /\ Power[0] = 1
  /\ \A k \in Nat : Power[k + 1] = Base * Power[k]
  <1> DEFINE next == [k \in Nat |-> [p \in Nat \ {0} |-> Base * p]]
  <1>1. next \in [Nat -> [Nat \ {0} -> Nat \ {0}]]
    <2>1. \A p \in Nat \ {0} : Base * p \in Nat \ {0}
       BY CodeParametersOK
    <2> QED BY <2>1
  <1>2. PICK g \in [Nat -> Nat \ {0}] : g[0] = 1 /\ \A k \in Nat : g[k + 1] = next[k][g[k]]
    <2> DEFINE A == Nat \ {0}
    <2>1. next \in StepsIn(A) /\ 1 \in A
      BY <1>1 DEF StepsIn
    <2> HIDE DEF next
    <2>2. RunsFrom(1, next, A) # {}
      <3> HIDE DEF A
      <3> QED BY <2>1, StepsDefine
    <2> QED BY <2>2 DEF RunsFrom
  <1>3. g = [k \in Nat |-> IF k = 0 THEN 1 ELSE Base * g[k - 1]]
    <2>1. ASSUME NEW k \in Nat PROVE g[k] = IF k = 0 THEN 1 ELSE Base * g[k - 1]
      <3>1. CASE k = 0
        BY <3>1, <1>2
      <3>2. CASE k # 0
        <4>1. k - 1 \in Nat /\ (k - 1) + 1 = k
          BY <3>2
        <4> QED BY <4>1, <3>2, <1>2
      <3> QED BY <3>1, <3>2
    <2> QED BY <2>1
  <1>4. Power = [k \in Nat |-> IF k = 0 THEN 1 ELSE Base * Power[k - 1]]
    BY <1>3 DEF Power
  <1>5. Power[0] = 1 /\ \A k \in Nat : Power[k + 1] = Base * Power[k]
    <2>1. Power[0] = 1
      BY <1>4
    <2>2. ASSUME NEW k \in Nat PROVE Power[k + 1] = Base * Power[k]
      <3>1. k + 1 \in Nat /\ k + 1 # 0 /\ (k + 1) - 1 = k
        OBVIOUS
      <3> QED BY <3>1, <1>4
    <2> QED BY <2>1, <2>2
  <1>6. ASSUME NEW k \in Nat PROVE Power[k] \in Nat \ {0}
    <2> DEFINE S == {j \in Nat : Power[j] \in Nat \ {0}}
    <2>1. 0 \in S /\ \A j \in Nat : j \in S => j + 1 \in S
       BY <1>5, CodeParametersOK
    <2> HIDE DEF S
    <2>2. k \in S
      BY <2>1, AllNumbers
    <2> QED BY <2>2 DEF S
  <1> QED BY <1>4, <1>5, <1>6

\* The same for the functions of the numbers up to n.
RunsTo(n, a, next, A) ==
    {g \in [0 .. n -> A] :
        g = [k \in 0 .. n |-> IF k = 0 THEN a ELSE next[k - 1][g[k - 1]]]}

LEMMA StepsReach ==
  ASSUME NEW n \in Nat, NEW A, NEW a \in A, NEW next \in StepsIn(A)
  PROVE  RunsTo(n, a, next, A) # {}
  <1>1. PICK f \in [Nat -> A] : f[0] = a /\ \A k \in Nat : f[k + 1] = next[k][f[k]]
    BY StepsDefine DEF RunsFrom
  <1> DEFINE g == [k \in 0 .. n |-> f[k]]
  <1>2. ASSUME NEW k \in 0 .. n PROVE g[k] = IF k = 0 THEN a ELSE next[k - 1][g[k - 1]]
    <2>1. CASE k = 0
      BY <2>1, <1>1
    <2>2. CASE k # 0
      <3>1. k - 1 \in Nat /\ k - 1 \in 0 .. n /\ (k - 1) + 1 = k
        BY <2>2
      <3>2. f[k] = next[k - 1][f[k - 1]]
        BY <3>1, <1>1
      <3> QED BY <3>1, <3>2, <2>2
    <2> QED BY <2>1, <2>2
  <1>3. g \in [0 .. n -> A]
    OBVIOUS
  <1> HIDE DEF g
  <1>4. DOMAIN g = 0 .. n
    BY <1>3
  <1>5. g = [k \in 0 .. n |-> IF k = 0 THEN a ELSE next[k - 1][g[k - 1]]]
    BY <1>2, <1>3
  <1> QED BY <1>3, <1>5 DEF RunsTo

\* Rest is what the loop of Encode computes.
LEMMA Rests ==
  ASSUME NEW n \in Nat
  PROVE  /\ Rest(n) \in [0 .. CodeLength -> Nat]
         /\ Rest(n)[0] = n % Limit
         /\ \A k \in 0 .. CodeLength - 1 : Rest(n)[k + 1] = Rest(n)[k] \div Base
  <1> DEFINE next == [k \in Nat |-> [r \in Nat |-> r \div Base]]
             r0 == n % Limit
  <1>1. next \in [Nat -> [Nat -> Nat]] /\ r0 \in Nat
    <2>1. Limit \in Nat \ {0}
      BY Powers, CodeParametersOK DEF Limit
    <2> QED BY <2>1, DivMod, CodeParametersOK
  <1> HIDE DEF r0
  <1>2. PICK g \in [0 .. CodeLength -> Nat] :
            g = [k \in 0 .. CodeLength |-> IF k = 0 THEN r0 ELSE next[k - 1][g[k - 1]]]
    <2>1. next \in StepsIn(Nat) /\ CodeLength \in Nat
      BY <1>1, CodeParametersOK DEF StepsIn
    <2> HIDE DEF next
    <2>2. RunsTo(CodeLength, r0, next, Nat) # {}
      BY <2>1, <1>1, StepsReach
    <2> QED BY <2>2 DEF RunsTo
  <1>3. ASSUME NEW k \in 0 .. CodeLength, k # 0 PROVE next[k - 1][g[k - 1]] = g[k - 1] \div Base
    <2>1. k - 1 \in Nat /\ k - 1 \in 0 .. CodeLength /\ g[k - 1] \in Nat
      BY <1>3, CodeParametersOK
    <2> QED BY <2>1
  <1>4. g = [k \in 0 .. CodeLength |-> IF k = 0 THEN r0 ELSE g[k - 1] \div Base]
    <2> HIDE DEF next
    <2> QED BY <1>2, <1>3
  <1>5. Rest(n) = [k \in 0 .. CodeLength |-> IF k = 0 THEN r0 ELSE Rest(n)[k - 1] \div Base]
    <2> DEFINE F(h) == [k \in 0 .. CodeLength |-> IF k = 0 THEN r0 ELSE h[k - 1] \div Base]
    <2>1. Rest(n) = CHOOSE h : h = F(h)
      BY DEF Rest, r0
    <2>2. g = F(g)
      BY <1>4
    <2> HIDE DEF F
    <2>3. Rest(n) = F(Rest(n))
      BY <2>1, <2>2
    <2> QED BY <2>3 DEF F
  <1>6. Rest(n)[0] = r0 /\ \A k \in 0 .. CodeLength - 1 : Rest(n)[k + 1] = Rest(n)[k] \div Base
    <2>1. Rest(n)[0] = r0
      BY <1>5, CodeParametersOK
    <2>2. ASSUME NEW k \in 0 .. CodeLength - 1 PROVE Rest(n)[k + 1] = Rest(n)[k] \div Base
      <3>1. k + 1 \in 0 .. CodeLength /\ k + 1 # 0 /\ (k + 1) - 1 = k
        BY CodeParametersOK
      <3> QED BY <3>1, <1>5
    <2> QED BY <2>1, <2>2
  <1>7. ASSUME NEW k \in 0 .. CodeLength PROVE Rest(n)[k] \in Nat
    <2> DEFINE S == {j \in Nat : j \in 0 .. CodeLength => Rest(n)[j] \in Nat}
    <2>1. 0 \in S
      BY <1>1, <1>6
    <2>2. ASSUME NEW j \in Nat, j \in S PROVE j + 1 \in S
      <3> SUFFICES ASSUME j + 1 \in 0 .. CodeLength PROVE Rest(n)[j + 1] \in Nat
        OBVIOUS
      <3>1. j \in 0 .. CodeLength - 1 /\ Rest(n)[j] \in Nat
        BY <2>2, CodeParametersOK
      <3>2. Rest(n)[j] \div Base \in Nat
        BY <3>1, DivMod, CodeParametersOK
      <3> QED BY <3>1, <3>2, <1>6
    <2> HIDE DEF S
    <2>3. k \in S
      BY <2>1, <2>2, AllNumbers
    <2> QED BY <2>3 DEF S
  <1> QED BY <1>5, <1>6, <1>7 DEF r0

\* Value is what the loop of Decode computes.
LEMMA Values ==
  ASSUME NEW s \in CodeStrings
  PROVE  /\ Value(s) \in [0 .. CodeLength -> Nat]
         /\ Value(s)[0] = 0
         /\ \A k \in 0 .. CodeLength - 1 : Value(s)[k + 1] = Value(s)[k] * Base + s[k + 1]
  <1> DEFINE d(k) == IF k \in 1 .. CodeLength THEN s[k] ELSE 0
             next == [k \in Nat |-> [v \in Nat |-> v * Base + d(k + 1)]]
  <1>1. next \in [Nat -> [Nat -> Nat]]
    <2>1. \A k \in Nat : d(k) \in Nat
      BY CodeParametersOK DEF CodeStrings, Digits
    <2>2. \A k \in Nat : d(k + 1) \in Nat
      BY <2>1
    <2> HIDE DEF d
    <2>3. \A v, e \in Nat : v * Base + e \in Nat
      BY NextValue
    <2> QED BY <2>2, <2>3
  <1>2. PICK g \in [0 .. CodeLength -> Nat] :
            g = [k \in 0 .. CodeLength |-> IF k = 0 THEN 0 ELSE next[k - 1][g[k - 1]]]
    <2>1. next \in StepsIn(Nat) /\ CodeLength \in Nat
      BY <1>1, CodeParametersOK DEF StepsIn
    <2> HIDE DEF next
    <2>2. RunsTo(CodeLength, 0, next, Nat) # {}
      BY <2>1, <1>1, StepsReach
    <2> QED BY <2>2 DEF RunsTo
  <1>3. ASSUME NEW k \in 0 .. CodeLength, k # 0 PROVE next[k - 1][g[k - 1]] = g[k - 1] * Base + s[k]
    <2>1. k - 1 \in Nat /\ k - 1 \in 0 .. CodeLength /\ g[k - 1] \in Nat
      BY <1>3, CodeParametersOK
    <2>2. d((k - 1) + 1) = s[k]
      BY <1>3, CodeParametersOK
    <2> HIDE DEF d
    <2> QED BY <2>1, <2>2
  <1>4. g = [k \in 0 .. CodeLength |-> IF k = 0 THEN 0 ELSE g[k - 1] * Base + s[k]]
    <2> HIDE DEF next
    <2> QED BY <1>2, <1>3
  <1>5. Value(s) = [k \in 0 .. CodeLength |-> IF k = 0 THEN 0 ELSE Value(s)[k - 1] * Base + s[k]]
    <2> DEFINE F(h) == [k \in 0 .. CodeLength |-> IF k = 0 THEN 0 ELSE h[k - 1] * Base + s[k]]
    <2>1. Value(s) = CHOOSE h : h = F(h)
      BY DEF Value
    <2>2. g = F(g)
      BY <1>4
    <2> HIDE DEF F
    <2>3. Value(s) = F(Value(s))
      BY <2>1, <2>2
    <2> QED BY <2>3 DEF F
  <1>6. Value(s)[0] = 0 /\ \A k \in 0 .. CodeLength - 1 : Value(s)[k + 1] = Value(s)[k] * Base + s[k + 1]
    <2>1. Value(s)[0] = 0
      BY <1>5, CodeParametersOK
    <2>2. ASSUME NEW k \in 0 .. CodeLength - 1 PROVE Value(s)[k + 1] = Value(s)[k] * Base + s[k + 1]
      <3>1. k + 1 \in 0 .. CodeLength /\ k + 1 # 0 /\ (k + 1) - 1 = k
        BY CodeParametersOK
      <3> QED BY <3>1, <1>5
    <2> QED BY <2>1, <2>2
  <1>7. ASSUME NEW k \in 0 .. CodeLength PROVE Value(s)[k] \in Nat
    <2> DEFINE S == {j \in Nat : j \in 0 .. CodeLength => Value(s)[j] \in Nat}
    <2>1. 0 \in S
      BY <1>6
    <2>2. ASSUME NEW j \in Nat, j \in S PROVE j + 1 \in S
      <3> SUFFICES ASSUME j + 1 \in 0 .. CodeLength PROVE Value(s)[j + 1] \in Nat
        OBVIOUS
      <3>1. j \in 0 .. CodeLength - 1 /\ Value(s)[j] \in Nat
        BY <2>2, CodeParametersOK
      <3>2. s[j + 1] \in Nat
        BY <3>1, CodeParametersOK DEF CodeStrings, Digits
      <3>3. Value(s)[j] * Base + s[j + 1] \in Nat
        BY <3>1, <3>2, NextValue
      <3> QED BY <3>1, <3>3, <1>6
    <2> HIDE DEF S
    <2>3. k \in S
      BY <2>1, <2>2, AllNumbers
    <2> QED BY <2>3 DEF S
  <1> QED BY <1>5, <1>6, <1>7

\* What has been read is less than the number of strings of that length.
LEMMA ValuesAreSmall ==
  ASSUME NEW s \in CodeStrings, NEW k \in 0 .. CodeLength
  PROVE  Value(s)[k] < Power[k]
  <1> DEFINE S == {j \in Nat : j \in 0 .. CodeLength => Value(s)[j] < Power[j]}
  <1>1. 0 \in S
    <2>1. Value(s)[0] = 0
      BY Values
    <2>2. Power[0] = 1
      BY Powers
    <2> QED BY <2>1, <2>2
  <1>2. ASSUME NEW j \in Nat, j \in S PROVE j + 1 \in S
    <2> SUFFICES ASSUME j + 1 \in 0 .. CodeLength PROVE Value(s)[j + 1] < Power[j + 1]
      OBVIOUS
    <2> DEFINE v == Value(s)[j]
               p == Power[j]
               e == s[j + 1]
    <2>1. j \in 0 .. CodeLength - 1 /\ j \in 0 .. CodeLength
      BY CodeParametersOK
    <2>2. v \in Nat /\ p \in Nat /\ v < p
      BY <2>1, <1>2, Values, Powers
    <2>3. Value(s)[j + 1] = v * Base + e /\ Power[j + 1] = Base * p
      BY <2>1, Values, Powers
    <2>4. e \in 0 .. Base - 1
      BY <2>1, CodeParametersOK DEF CodeStrings, Digits
    <2> HIDE DEF v, p, e
    <2>5. v * Base + Base <= p * Base
      BY <2>2, Product, CodeParametersOK
    <2>6. p * Base = Base * p
      BY <2>2, CodeParametersOK
    <2>7. v * Base \in Nat /\ p * Base \in Nat
      BY <2>2, CodeParametersOK
    <2> QED BY <2>3, <2>4, <2>5, <2>6, <2>7, CodeParametersOK
  <1> HIDE DEF S
  <1>3. k \in S
    BY <1>1, <1>2, AllNumbers
  <1> QED BY <1>3 DEF S

\* A string of the right length is read as a number below Limit.
LEMMA DecodeOfCode ==
  ASSUME NEW s \in CodeStrings
  PROVE  /\ Decode(s) = Value(s)[CodeLength]
         /\ Decode(s) \in 0 .. Limit - 1
         /\ Decode(s) # Invalid
  <1>1. Len(s) = CodeLength
    <2>1. s \in Seq(Digits) /\ DOMAIN s = 1 .. CodeLength
      BY CodeParametersOK DEF CodeStrings
    <2> QED BY <2>1, CodeParametersOK
  <1>2. NoPlace \notin Range(s)
    BY DEF CodeStrings, Digits, NoPlace, Range
  <1>3. Decode(s) = Value(s)[CodeLength]
    BY <1>1, <1>2 DEF Decode
  <1>4. Value(s)[CodeLength] \in Nat /\ Value(s)[CodeLength] < Power[CodeLength]
    BY Values, ValuesAreSmall, CodeParametersOK
  <1>5. Limit \in Nat
    BY Powers, CodeParametersOK DEF Limit
  <1> QED BY <1>3, <1>4, <1>5 DEF Limit, Invalid

\* Encode's divisions undo Decode's multiplications.
LEMMA RestsAreValues ==
  ASSUME NEW s \in CodeStrings, NEW k \in 0 .. CodeLength
  PROVE  Rest(Decode(s))[k] = Value(s)[CodeLength - k]
  <1> DEFINE n == Decode(s)
             S == {j \in Nat : j \in 0 .. CodeLength => Rest(n)[j] = Value(s)[CodeLength - j]}
  <1>1. n \in Nat /\ n \in 0 .. Limit - 1 /\ n = Value(s)[CodeLength]
    BY DecodeOfCode
  <1> HIDE DEF n
  <1>2. Limit \in Nat \ {0}
    BY Powers, CodeParametersOK DEF Limit
  <1>3. 0 \in S
    <2>1. n % Limit = n
      <3>1. (0 * Limit + n) % Limit = n
        BY <1>1, <1>2, DivModUnique
      <3>2. 0 * Limit + n = n
        BY <1>1, <1>2
      <3> QED BY <3>1, <3>2
    <2>2. Rest(n)[0] = n
      BY <1>1, <2>1, Rests
    <2> QED BY <1>1, <2>2, CodeParametersOK
  <1>4. ASSUME NEW j \in Nat, j \in S PROVE j + 1 \in S
    <2> SUFFICES ASSUME j + 1 \in 0 .. CodeLength
                 PROVE  Rest(n)[j + 1] = Value(s)[CodeLength - (j + 1)]
      OBVIOUS
    <2> DEFINE i == CodeLength - (j + 1)
               v == Value(s)[i]
               e == s[i + 1]
    <2>1. /\ j \in 0 .. CodeLength - 1 /\ j \in 0 .. CodeLength
          /\ i \in 0 .. CodeLength - 1 /\ i \in 0 .. CodeLength /\ i + 1 = CodeLength - j
          /\ i + 1 \in 1 .. CodeLength
      BY CodeParametersOK
    <2>2. Rest(n)[j] = Value(s)[CodeLength - j]
      BY <1>4, <2>1
    <2> HIDE DEF i
    <2>3. Value(s)[i + 1] = v * Base + e /\ v \in Nat
      BY <2>1, Values
    <2>4. e \in 0 .. Base - 1
      BY <2>1, CodeParametersOK DEF CodeStrings, Digits
    <2>5. Rest(n)[j + 1] = Rest(n)[j] \div Base
      BY <1>1, <2>1, Rests
    <2> HIDE DEF v, e
    <2>6. (v * Base + e) \div Base = v
      BY <2>3, <2>4, DivModUnique, CodeParametersOK
    <2>7. Rest(n)[j + 1] = v
      BY <2>1, <2>2, <2>3, <2>5, <2>6
    <2> QED BY <2>7 DEF v, i
  <1> HIDE DEF S
  <1>5. k \in S
    BY <1>3, <1>4, AllNumbers
  <1> QED BY <1>5 DEF S, n

\* A string of the right length is written again as it was read.
LEMMA EncodeDecode ==
  ASSUME NEW s \in CodeStrings
  PROVE  Encode(Decode(s)) = s
  <1>1. ASSUME NEW i \in 1 .. CodeLength
        PROVE  Rest(Decode(s))[CodeLength - i] % Base = s[i]
    <2>1. /\ i - 1 \in 0 .. CodeLength - 1 /\ i - 1 \in 0 .. CodeLength /\ (i - 1) + 1 = i
          /\ CodeLength - i \in 0 .. CodeLength /\ CodeLength - (CodeLength - i) = i
      BY CodeParametersOK
    <2> DEFINE v == Value(s)[i - 1]
    <2>2. Rest(Decode(s))[CodeLength - i] = Value(s)[i]
      <3>1. Rest(Decode(s))[CodeLength - i] = Value(s)[CodeLength - (CodeLength - i)]
        BY <2>1, RestsAreValues
      <3> QED BY <2>1, <3>1
    <2>3. Value(s)[i] = v * Base + s[i] /\ v \in Nat
      <3>1. Value(s)[(i - 1) + 1] = v * Base + s[(i - 1) + 1]
        BY <2>1, Values
      <3>2. v \in Nat
        BY <2>1, Values
      <3> QED BY <2>1, <3>1, <3>2
    <2>4. s[i] \in 0 .. Base - 1
      BY DEF CodeStrings, Digits
    <2> HIDE DEF v
    <2>5. (v * Base + s[i]) % Base = s[i]
      BY <2>3, <2>4, DivModUnique, CodeParametersOK
    <2> QED BY <2>2, <2>3, <2>5
  <1>2. s = [i \in 1 .. CodeLength |-> s[i]]
    BY DEF CodeStrings
  <1> QED BY <1>1, <1>2 DEF Encode

\* What Encode writes is a string of the right length.
LEMMA EncodeType ==
  ASSUME NEW n \in Nat
  PROVE  Encode(n) \in CodeStrings
  <1>1. ASSUME NEW i \in 1 .. CodeLength PROVE Rest(n)[CodeLength - i] % Base \in Digits
    <2>1. CodeLength - i \in 0 .. CodeLength
      BY CodeParametersOK
    <2>2. Rest(n)[CodeLength - i] \in Nat
      BY <2>1, Rests
    <2> QED BY <2>2, DivMod, CodeParametersOK DEF Digits
  <1> QED BY <1>1 DEF Encode, CodeStrings

\* With each division fewer characters are left to write, and with the last none.
LEMMA RestsEnd ==
  ASSUME NEW n \in Nat, NEW k \in 0 .. CodeLength
  PROVE  Rest(n)[k] < Power[CodeLength - k]
  <1> DEFINE S == {j \in Nat : j \in 0 .. CodeLength => Rest(n)[j] < Power[CodeLength - j]}
  <1>1. 0 \in S
    <2>1. Limit \in Nat \ {0} /\ CodeLength - 0 = CodeLength
      BY Powers, CodeParametersOK DEF Limit
    <2>2. n % Limit < Limit
      BY <2>1, DivMod
    <2> QED BY <2>1, <2>2, Rests DEF Limit
  <1>2. ASSUME NEW j \in Nat, j \in S PROVE j + 1 \in S
    <2> SUFFICES ASSUME j + 1 \in 0 .. CodeLength
                 PROVE  Rest(n)[j + 1] < Power[CodeLength - (j + 1)]
      OBVIOUS
    <2> DEFINE i == CodeLength - (j + 1)
               r == Rest(n)[j]
               q == r \div Base
               p == Power[i]
    <2>1. /\ j \in 0 .. CodeLength - 1 /\ j \in 0 .. CodeLength
          /\ i \in Nat /\ i + 1 = CodeLength - j
      BY CodeParametersOK
    <2>2. r < Power[CodeLength - j]
      BY <1>2, <2>1
    <2> HIDE DEF i
    <2>3. Power[i + 1] = Base * p /\ p \in Nat /\ r \in Nat /\ Rest(n)[j + 1] = q
      BY <2>1, Powers, Rests
    <2>4. r < Base * p
      BY <2>1, <2>2, <2>3
    <2> HIDE DEF r, p
    <2>5. q \in Nat /\ r % Base \in Nat /\ r = q * Base + (r % Base)
      <3>1. Base \in Nat \ {0} /\ r \in Nat
        BY <2>3, CodeParametersOK
      <3>2. q \in Nat /\ r % Base \in 0 .. Base - 1 /\ r = q * Base + (r % Base)
        BY <3>1, DivMod
      <3> QED BY <3>1, <3>2
    <2> HIDE DEF q
    <2>6. ~ p <= q
      <3> SUFFICES ASSUME p <= q PROVE FALSE
        OBVIOUS
      <3>1. Base * p <= q * Base
        <4>1. CASE p = q
          BY <4>1, <2>3, CodeParametersOK
        <4>2. CASE p < q
          <5>1. p * Base + Base <= q * Base
            BY <4>2, <2>3, <2>5, Product, CodeParametersOK
          <5>2. p * Base = Base * p /\ p * Base \in Nat /\ q * Base \in Nat
            BY <2>3, <2>5, CodeParametersOK
          <5> QED BY <5>1, <5>2, CodeParametersOK
        <4> QED BY <4>1, <4>2, <2>3, <2>5
      <3>2. q * Base \in Nat /\ Base * p \in Nat
        BY <2>3, <2>5, CodeParametersOK
      <3> QED BY <3>1, <3>2, <2>3, <2>4, <2>5
    <2>7. q < p
      BY <2>3, <2>5, <2>6
    <2> QED BY <2>3, <2>7 DEF p, i
  <1> HIDE DEF S
  <1>3. k \in S
    BY <1>1, <1>2, AllNumbers
  <1> QED BY <1>3 DEF S

\* Decode's multiplications undo Encode's divisions.
LEMMA ValuesAreRests ==
  ASSUME NEW n \in Nat, NEW k \in 0 .. CodeLength
  PROVE  Value(Encode(n))[k] = Rest(n)[CodeLength - k]
  <1> DEFINE s == Encode(n)
             S == {j \in Nat : j \in 0 .. CodeLength => Value(s)[j] = Rest(n)[CodeLength - j]}
  <1>1. s \in CodeStrings
    BY EncodeType
  <1>2. \A i \in 1 .. CodeLength : s[i] = Rest(n)[CodeLength - i] % Base
    BY DEF Encode
  <1> HIDE DEF s
  <1>3. 0 \in S
    <2>1. Rest(n)[CodeLength] < 1 /\ Rest(n)[CodeLength] \in Nat
      <3>1. CodeLength \in 0 .. CodeLength /\ CodeLength - CodeLength = 0
        BY CodeParametersOK
      <3>2. Rest(n)[CodeLength] < Power[CodeLength - CodeLength]
        BY <3>1, RestsEnd
      <3> QED BY <3>1, <3>2, Powers, Rests
    <2>2. CodeLength - 0 = CodeLength
      BY CodeParametersOK
    <2> QED BY <1>1, <2>1, <2>2, Values
  <1>4. ASSUME NEW j \in Nat, j \in S PROVE j + 1 \in S
    <2> SUFFICES ASSUME j + 1 \in 0 .. CodeLength
                 PROVE  Value(s)[j + 1] = Rest(n)[CodeLength - (j + 1)]
      OBVIOUS
    <2> DEFINE i == CodeLength - (j + 1)
               r == Rest(n)[i]
    <2>1. /\ j \in 0 .. CodeLength - 1 /\ j \in 0 .. CodeLength /\ j + 1 \in 1 .. CodeLength
          /\ i \in 0 .. CodeLength - 1 /\ i \in 0 .. CodeLength /\ i + 1 = CodeLength - j
      BY CodeParametersOK
    <2>2. Value(s)[j] = Rest(n)[CodeLength - j] /\ s[j + 1] = r % Base
      BY <1>2, <1>4, <2>1
    <2>3. Value(s)[j + 1] = Value(s)[j] * Base + s[j + 1]
      BY <1>1, <2>1, Values
    <2> HIDE DEF i
    <2>4. Rest(n)[i + 1] = r \div Base /\ r \in Nat
      BY <2>1, Rests
    <2> HIDE DEF r
    <2>5. r = (r \div Base) * Base + (r % Base)
      BY <2>4, DivMod, CodeParametersOK
    <2>6. Value(s)[j + 1] = r
      BY <2>1, <2>2, <2>3, <2>4, <2>5
    <2> QED BY <2>6 DEF r, i
  <1> HIDE DEF S
  <1>5. k \in S
    BY <1>3, <1>4, AllNumbers
  <1> QED BY <1>5 DEF S, s

\* A number is read back as its remainder.
LEMMA DecodeEncode ==
  ASSUME NEW n \in Nat
  PROVE  Decode(Encode(n)) = n % Limit
  <1>1. Decode(Encode(n)) = Value(Encode(n))[CodeLength]
    BY EncodeType, DecodeOfCode
  <1>2. CodeLength \in 0 .. CodeLength /\ CodeLength - CodeLength = 0
    BY CodeParametersOK
  <1>3. Value(Encode(n))[CodeLength] = Rest(n)[CodeLength - CodeLength]
    BY <1>2, ValuesAreRests
  <1> QED BY <1>1, <1>2, <1>3, Rests

\* A draw makes the code whose number it leaves as its remainder.
LEMMA WhichCode ==
  ASSUME NEW c \in CodeStrings, NEW n \in Nat
  PROVE  Encode(n) = c <=> n % Limit = Decode(c)
  <1>1. Decode(Encode(n)) = n % Limit
    BY DecodeEncode
  <1>2. Encode(Decode(Encode(n))) = Encode(n)
    BY EncodeType, EncodeDecode
  <1>3. Encode(Decode(c)) = c
    BY EncodeDecode
  <1> QED BY <1>1, <1>2, <1>3

\* A code is made by as many draws as there are whole rounds of codes, or by one more.
LEMMA TimesOf ==
  ASSUME NEW c \in CodeStrings
  PROVE  Draws \div Limit \in Nat
         /\ (Times(c) = Draws \div Limit \/ Times(c) = (Draws \div Limit) + 1)
  <1> DEFINE M == Limit
             m == Decode(c)
             q == Draws \div Limit
             r == Draws % Limit
             N == IF m < r THEN q + 1 ELSE q
             D == {draw \in 0 .. Draws - 1 : Generated[draw] = c}
             f == [j \in 0 .. N - 1 |-> j * M + m]
  <1>1. M \in Nat \ {0} /\ Draws \in Nat /\ m \in 0 .. M - 1
    BY Powers, DecodeOfCode, CodeParametersOK DEF Limit
  <1>2. q \in Nat /\ r \in 0 .. M - 1 /\ Draws = q * M + r
    BY <1>1, DivMod
  <1>3. N \in Nat
    BY <1>2
  <1>4. ASSUME NEW n \in 0 .. Draws - 1 PROVE n \in D <=> n % M = m
    <2>1. n \in Nat /\ Generated[n] = Encode(n)
      BY <1>1 DEF Generated
    <2> QED BY <2>1, WhichCode
  <1>5. \A n \in D : n \in 0 .. Draws - 1
    OBVIOUS
  <1> HIDE DEF M, m, q, r, D
  <1>6. ASSUME NEW j \in 0 .. N - 1
        PROVE  j * M + m \in D /\ (j * M + m) \div M = j
    <2>1. j \in Nat /\ j * M \in Nat /\ q * M \in Nat
      BY <1>1, <1>2, <1>3
    <2>2. (j * M + m) \div M = j /\ (j * M + m) % M = m
      BY <1>1, <2>1, DivModUnique
    <2>3. j * M + m < Draws
      <3>1. CASE j < q
        <4>1. j * M + M <= q * M
          BY <3>1, <1>1, <1>2, <2>1, Product
        <4> QED BY <4>1, <2>1, <1>1, <1>2
      <3>2. CASE j = q
        <4>1. m < r
          BY <3>2, <1>2
        <4> QED BY <3>2, <4>1, <1>1, <1>2, <2>1
      <3> QED BY <3>1, <3>2, <1>2, <2>1
    <2>4. j * M + m \in 0 .. Draws - 1
      BY <2>1, <2>3, <1>1
    <2> QED BY <2>2, <2>4, <1>4
  <1>7. ASSUME NEW n \in D
        PROVE  \E j \in 0 .. N - 1 : j * M + m = n
    <2> DEFINE j == n \div M
    <2>1. n \in Nat /\ n < Draws /\ n % M = m
      BY <1>1, <1>4, <1>5
    <2>2. j \in Nat /\ n = j * M + m
      BY <1>1, <2>1, DivMod
    <2> HIDE DEF j
    <2>3. j * M \in Nat /\ q * M \in Nat
      BY <1>1, <1>2, <2>2
    <2>4. ~ q < j
      <3> SUFFICES ASSUME q < j PROVE FALSE
        OBVIOUS
      <3>1. q * M + M <= j * M
        BY <1>1, <1>2, <2>2, Product
      <3> QED BY <3>1, <1>1, <1>2, <2>1, <2>2, <2>3
    <2>5. j = q => m < r
      BY <1>1, <1>2, <2>1, <2>2, <2>3
    <2>6. j \in 0 .. N - 1
      BY <1>2, <2>2, <2>4, <2>5
    <2> QED BY <2>2, <2>6
  <1> HIDE DEF N
  <1>8. f \in Bijection(0 .. N - 1, D)
    <2>1. f \in [0 .. N - 1 -> D]
      BY <1>6
    <2>2. \A i, j \in 0 .. N - 1 : f[i] = f[j] => i = j
      <3> TAKE i, j \in 0 .. N - 1
      <3>1. f[i] \div M = i /\ f[j] \div M = j
        BY <1>6
      <3> QED BY <3>1
    <2>3. \A n \in D : \E j \in 0 .. N - 1 : f[j] = n
      BY <1>7
    <2> HIDE DEF f
    <2> QED BY <2>1, <2>2, <2>3 DEF Bijection, Injection, Surjection, IsInjective
  <1>9. Cardinality(D) = N
    <2>1. IsFiniteSet(0 .. N - 1) /\ Cardinality(0 .. N - 1) = N
      BY <1>3, FS_Interval
    <2>2. ExistsBijection(0 .. N - 1, D)
      BY <1>8 DEF ExistsBijection
    <2> QED BY <2>1, <2>2, FS_Bijection
  <1> QED BY <1>2, <1>9 DEF Times, D, N, q

\* Of the strings of any length, with and without foreign characters, those of the
\* right length in the alphabet are read, and the others refused.
LEMMA DecodeRefuses ==
  ASSUME NEW m \in Nat, NEW s \in [1 .. m -> Digits \cup {NoPlace}]
  PROVE  s \notin CodeStrings <=> Decode(s) = Invalid
  <1>1. CASE s \in CodeStrings
    BY <1>1, DecodeOfCode
  <1>2. CASE s \notin CodeStrings
    <2>1. Len(s) = m
      OBVIOUS
    <2>2. CASE m # CodeLength
      BY <1>2, <2>1, <2>2 DEF Decode
    <2>3. CASE m = CodeLength
      <3>1. PICK i \in 1 .. CodeLength : s[i] \notin Digits
        BY <1>2, <2>3 DEF CodeStrings
      <3>2. NoPlace \in Range(s)
        BY <2>3, <3>1 DEF Range
      <3> QED BY <1>2, <3>2 DEF Decode
    <2> QED BY <2>2, <2>3
  <1> QED BY <1>1, <1>2

\* Codes are read back as they were written, and drawn evenly.
THEOREM CodesCorrect == CodesRoundTrip
  <1>1. \A n \in 0 .. Draws - 1 : Decode(Encode(n)) = n % Limit
    BY DecodeEncode, CodeParametersOK
  <1>2. \A s \in CodeStrings : Encode(Decode(s)) = s
    BY EncodeDecode
  <1>3. ASSUME NEW s \in SeqOf(Digits \cup {NoPlace}, CodeLength + 1)
        PROVE  s \notin CodeStrings <=> Decode(s) = Invalid
    <2>1. PICK m \in Nat : s \in [1 .. m -> Digits \cup {NoPlace}]
      BY CodeParametersOK DEF SeqOf
    <2> QED BY <2>1, DecodeRefuses
  <1>4. ASSUME NEW s \in CodeStrings, NEW t \in CodeStrings
        PROVE  Times(s) - Times(t) \in -1 .. 1
    <2> DEFINE q == Draws \div Limit
    <2>1. q \in Nat /\ (Times(s) = q \/ Times(s) = q + 1) /\ (Times(t) = q \/ Times(t) = q + 1)
      BY TimesOf
    <2> HIDE DEF q
    <2> QED BY <2>1
  <1> QED BY <1>1, <1>2, <1>3, <1>4 DEF CodesRoundTrip

\* A row has a code that Generate returned.
LEMMA StoredFromType == TypeOK => StoredCodesReadBack
  <1> SUFFICES ASSUME TypeOK, NEW l \in urls PROVE Encode(Decode(l.code)) = l.code
    BY CodesCorrect DEF StoredCodesReadBack
  <1>1. l.code \in Codes
    BY DEF TypeOK, Link
  <1>2. PICK draw \in 0 .. Draws - 1 : l.code = Generated[draw]
    BY <1>1, CodesAreGenerated DEF Range, Generated
  <1>3. draw \in Nat /\ l.code = Encode(draw)
    BY <1>2, CodeParametersOK DEF Generated
  <1> QED BY <1>3, EncodeType, EncodeDecode

\* The code of every row is read back as it was written, whatever the alphabet and
\* the length; codes and strings, and numbers and their remainders, correspond.
THEOREM StoredCorrect == Spec => []StoredCodesReadBack
  <1> QED BY StoredFromType, TypeCorrect, PTL

=============================================================================
