-------------------------- MODULE RateLimiter_proofs --------------------------
(***************************************************************************)
(* Proofs about RateLimiter for any number of requests, any limit, window  *)
(* and number of faults.                                                   *)
(***************************************************************************)
EXTENDS RateLimiter, FiniteSetTheorems, TLAPS

USE ParametersOK DEF redis, bounds, Forever

-----------------------------------------------------------------------------
(* Types *)

LEMMA TypeInit == Init => TypeOK
  <1> SUFFICES ASSUME Init PROVE TypeOK
    OBVIOUS
  <1>1. count \in 0 .. Limit + 1 /\ ttl \in 1 .. Window \cup {Forever}
    BY DEF Init
  <1>2. age \in [Requests -> 0 .. Window]
    <2>1. Window \in 0 .. Window
      OBVIOUS
    <2> QED BY <2>1 DEF Init
  <1> QED BY <1>1, <1>2 DEF Init, TypeOK

\* INCR, and what EXPIRE leaves, stay in their ranges.
LEMMA CommandTypes ==
  ASSUME TypeOK
  PROVE  Incremented \in 0 .. Limit + 1 /\ TtlSet \in 1 .. Window \cup {Forever}
  <1> QED BY DEF TypeOK, Incremented, TtlSet

LEMMA TypeStep == TypeOK /\ [Next]_vars => TypeOK'
  <1> SUFFICES ASSUME TypeOK, [Next]_vars PROVE TypeOK'
    OBVIOUS
  <1>t. /\ count \in 0 .. Limit + 1 /\ ttl \in 1 .. Window \cup {Forever}
        /\ pc \in [Requests -> {"out", "expire", "refuse"}]
        /\ age \in [Requests -> 0 .. Window]
        /\ faults \in Nat /\ evictions \in Nat
    BY DEF TypeOK
  <1> USE DEF Goto, Fault
  <1>1. ASSUME NEW r \in Requests, Incr(r) PROVE TypeOK'
    <2>1. age' \in [Requests -> 0 .. Window]
      <3>1. 0 \in 0 .. Window
        OBVIOUS
      <3> QED BY <1>1, <1>t, <3>1 DEF Incr
    <2>2. pc' \in [Requests -> {"out", "expire", "refuse"}]
      BY <1>1, <1>t DEF Incr
    <2> QED BY <1>1, <1>t, <2>1, <2>2, CommandTypes DEF Incr, TypeOK
  <1>2. ASSUME NEW r \in Requests, IncrFails(r) PROVE TypeOK'
    <2>1. age' \in [Requests -> 0 .. Window]
      <3>1. 0 \in 0 .. Window
        OBVIOUS
      <3> QED BY <1>2, <1>t, <3>1 DEF IncrFails
    <2> QED BY <1>2, <1>t, <2>1, CommandTypes DEF IncrFails, TypeOK
  <1>3. ASSUME NEW r \in Requests, Expire(r) PROVE TypeOK'
    BY <1>3, <1>t, CommandTypes DEF Expire, TypeOK
  <1>4. ASSUME NEW r \in Requests, ExpireFails(r) PROVE TypeOK'
    BY <1>4, <1>t, CommandTypes DEF ExpireFails, TypeOK
  <1>5. ASSUME NEW r \in Requests, Refuse(r) PROVE TypeOK'
    BY <1>5, <1>t DEF Refuse, TypeOK
  <1>6. CASE Evict
    BY <1>6, <1>t DEF Evict, TypeOK
  <1>7. CASE Tick
    <2>1. ASSUME NEW r \in Requests PROVE Older(age[r]) \in 0 .. Window
      BY <1>t DEF Older
    <2>2. age' \in [Requests -> 0 .. Window]
      BY <1>7, <2>1 DEF Tick
    <2>3. count' \in 0 .. Limit + 1 /\ ttl' \in 1 .. Window \cup {Forever}
      BY <1>7, <1>t DEF Tick
    <2> QED BY <1>7, <1>t, <2>2, <2>3 DEF Tick, TypeOK
  <1>8. CASE UNCHANGED vars
    BY <1>8, <1>t DEF vars, TypeOK
  <1> QED BY <1>1, <1>2, <1>3, <1>4, <1>5, <1>6, <1>7, <1>8 DEF Next, Proceed

\* Every variable keeps its type: the counter never passes the bound of the model,
\* and a key with an expiry has at most a window to live.
THEOREM TypeCorrect == Spec => []TypeOK
  <1> QED BY TypeInit, TypeStep, PTL DEF Spec

-----------------------------------------------------------------------------
(* The expiry *)

LEMMA ExpiryStep == TypeOK /\ CounterExpires /\ [Next]_vars => CounterExpires'
  <1> SUFFICES ASSUME TypeOK, CounterExpires, [Next]_vars PROVE CounterExpires'
    OBVIOUS
  <1>t. /\ count \in 0 .. Limit + 1 /\ ttl \in 1 .. Window \cup {Forever}
        /\ pc \in [Requests -> {"out", "expire", "refuse"}]
        /\ faults \in Nat
    BY DEF TypeOK
  <1> USE DEF Goto, Fault
  <1>1. ASSUME NEW r \in Requests, Incr(r) PROVE CounterExpires'
    <2>1. CASE count' = 1
      <3>1. pc'[r] = "expire"
        BY <1>1, <1>t, <2>1 DEF Incr, First
      <3> QED BY <3>1 DEF CounterExpires
    <2>2. CASE count' # 1
      <3>1. count > 0
        BY <1>1, <1>t, <2>2 DEF Incr, Incremented
      <3>2. \A q \in Requests : pc[q] = "expire" => pc'[q] = "expire"
        BY <1>1, <1>t DEF Incr
      <3>3. UNCHANGED <<ttl, faults>>
        BY <1>1 DEF Incr
      <3> QED BY <3>1, <3>2, <3>3 DEF CounterExpires
    <2> QED BY <2>1, <2>2
  <1>2. ASSUME NEW r \in Requests, IncrFails(r) \/ ExpireFails(r) PROVE CounterExpires'
    <2>1. faults' > 0
      BY <1>2, <1>t DEF IncrFails, ExpireFails
    <2> QED BY <2>1 DEF CounterExpires
  <1>3. ASSUME NEW r \in Requests, Expire(r) PROVE CounterExpires'
    BY <1>3, <1>t DEF Expire, TtlSet, CounterExpires
  <1>4. ASSUME NEW r \in Requests, Refuse(r) PROVE CounterExpires'
    <2>1. \A q \in Requests : pc[q] = "expire" => pc'[q] = "expire"
      BY <1>4, <1>t DEF Refuse
    <2> QED BY <1>4, <2>1 DEF Refuse, CounterExpires
  <1>5. CASE Evict
    BY <1>5 DEF Evict, CounterExpires
  <1>6. CASE Tick
    BY <1>6, <1>t DEF Tick, CounterExpires
  <1>7. CASE UNCHANGED vars
    BY <1>7 DEF vars, CounterExpires
  <1> QED BY <1>1, <1>2, <1>3, <1>4, <1>5, <1>6, <1>7 DEF Next, Proceed

\* For any limit and window: a counter has an expiry, or its first request is about to
\* set it, unless a command failed.
THEOREM ExpiryCorrect == Spec => []CounterExpires
  <1>1. Init => CounterExpires
    BY DEF Init, CounterExpires
  <1> QED BY <1>1, ExpiryStep, TypeCorrect, PTL DEF Spec

-----------------------------------------------------------------------------
(* Bursts *)

\* The three sets of BurstInv, named.
Split(before, counted, failed) ==
  /\ Recent = before \cup counted \cup failed
  /\ Cardinality(before) <= (1 + evictions) * Limit
  /\ Cardinality(counted) <= count /\ Cardinality(counted) <= Limit
  /\ Cardinality(failed) <= faults
  /\ ttl # Forever => \A r \in before : age[r] + ttl >= Window

\* The sets a split is made of are parts of the requests let through.
Parts(before, counted, failed) ==
  before \in SUBSET Recent /\ counted \in SUBSET Recent /\ failed \in SUBSET Recent

LEMMA BurstSplit ==
  BurstInv <=> /\ IsFiniteSet(Recent)
               /\ \E before, counted, failed :
                     Parts(before, counted, failed) /\ Split(before, counted, failed)
  BY DEF BurstInv, Split, Parts

\* The parts are finite, and their sizes are numbers.
LEMMA PartsFinite ==
  ASSUME BurstInv, NEW S \in SUBSET Recent
  PROVE  IsFiniteSet(S) /\ Cardinality(S) \in Nat
  BY FS_Subset, FS_CardinalityType DEF BurstInv

\* Arithmetic of the bound, which the prover needs spelled out.
LEMMA Allowance ==
  ASSUME NEW n \in Nat
  PROVE  /\ (1 + n) * Limit \in Nat /\ (2 + n) * Limit \in Nat
         /\ Limit <= (1 + n) * Limit
         /\ (1 + n) * Limit + Limit = (2 + n) * Limit
  <1>1. n * Limit \in Nat
    OBVIOUS
  <1>2. (1 + n) * Limit = Limit + n * Limit /\ (2 + n) * Limit = 2 * Limit + n * Limit
    OBVIOUS
  <1> QED BY <1>1, <1>2

\* A union is no larger than its parts together.
LEMMA UnionBound ==
  ASSUME NEW S, NEW T, IsFiniteSet(S), IsFiniteSet(T)
  PROVE  /\ IsFiniteSet(S \cup T)
         /\ Cardinality(S) \in Nat /\ Cardinality(T) \in Nat /\ Cardinality(S \cup T) \in Nat
         /\ Cardinality(S \cup T) <= Cardinality(S) + Cardinality(T)
  <1>1. /\ IsFiniteSet(S \cup T)
        /\ Cardinality(S \cup T) = Cardinality(S) + Cardinality(T) - Cardinality(S \cap T)
    BY FS_Union
  <1>2. IsFiniteSet(S \cap T)
    BY FS_Subset, S \cap T \in SUBSET S
  <1>3. /\ Cardinality(S) \in Nat /\ Cardinality(T) \in Nat
        /\ Cardinality(S \cap T) \in Nat /\ Cardinality(S \cup T) \in Nat
    BY <1>1, <1>2, FS_CardinalityType
  <1> QED BY <1>1, <1>3

\* The bound follows from the three parts.
LEMMA BurstBound == TypeOK /\ BurstInv => BurstsAreBounded
  <1> SUFFICES ASSUME TypeOK, BurstInv
               PROVE  Cardinality(Recent) <= (2 + evictions) * Limit + faults
    BY DEF BurstsAreBounded
  <1>1. PICK before, counted, failed :
          Parts(before, counted, failed) /\ Split(before, counted, failed)
    BY BurstSplit
  <1>2. IsFiniteSet(before) /\ IsFiniteSet(counted) /\ IsFiniteSet(failed)
    BY <1>1, PartsFinite DEF Parts
  <1>3. evictions \in Nat /\ faults \in Nat
    BY DEF TypeOK
  <1>4. /\ IsFiniteSet(before \cup counted) /\ Cardinality(before \cup counted) \in Nat
        /\ Cardinality(before \cup counted) <= (2 + evictions) * Limit
    <2>1. /\ IsFiniteSet(before \cup counted) /\ Cardinality(before \cup counted) \in Nat
          /\ Cardinality(before) \in Nat /\ Cardinality(counted) \in Nat
          /\ Cardinality(before \cup counted) <= Cardinality(before) + Cardinality(counted)
      BY <1>2, UnionBound
    <2>2. Cardinality(before) <= (1 + evictions) * Limit /\ Cardinality(counted) <= Limit
      BY <1>1 DEF Split
    <2> QED BY <1>3, <2>1, <2>2, Allowance
  <1>5. /\ Cardinality((before \cup counted) \cup failed)
             <= Cardinality(before \cup counted) + Cardinality(failed)
        /\ Cardinality(failed) \in Nat
        /\ Cardinality((before \cup counted) \cup failed) \in Nat
    BY <1>2, <1>4, UnionBound
  <1>6. Recent = (before \cup counted) \cup failed /\ Cardinality(failed) <= faults
    BY <1>1 DEF Split
  <1>7. (2 + evictions) * Limit \in Nat
    BY <1>3, Allowance
  <1> QED BY <1>3, <1>4, <1>5, <1>6, <1>7

\* Nobody was let through yet.
LEMMA BurstInit == Init => BurstInv
  <1> SUFFICES ASSUME Init PROVE BurstInv
    OBVIOUS
  <1>1. Recent = {} /\ evictions = 0 /\ count = 0 /\ ttl = Forever /\ faults = 0
    BY DEF Init, Recent
  <1>2. Split({}, {}, {})
    <2>1. (1 + evictions) * Limit >= 0
      BY <1>1, Allowance
    <2> QED BY <1>1, <2>1, FS_EmptySet DEF Split
  <1>3. Parts({}, {}, {})
    BY DEF Parts
  <1> QED BY <1>1, <1>2, <1>3, FS_EmptySet, BurstSplit

\* A request that is counted and let through joins those the key has counted.
LEMMA IncrStep ==
  ASSUME TypeOK, BurstInv, NEW r \in Requests, Incr(r) PROVE BurstInv'
  <1>1. PICK before, counted, failed :
          Parts(before, counted, failed) /\ Split(before, counted, failed)
    BY BurstSplit
  <1>2. IsFiniteSet(counted) /\ IsFiniteSet(Recent) /\ Cardinality(counted) \in Nat
    BY <1>1, PartsFinite DEF Parts, BurstInv
  <1>3. /\ count' = Incremented /\ count \in 0 .. Limit + 1
        /\ UNCHANGED <<ttl, evictions, faults>>
        /\ age \in [Requests -> 0 .. Window] /\ r \notin Recent
        /\ age' = IF WithinLimit(count') THEN [age EXCEPT ![r] = 0] ELSE age
    BY DEF Incr, TypeOK, Recent
  <1>4. CASE ~ WithinLimit(count')
    <2>1. Recent' = Recent /\ age' = age
      BY <1>3, <1>4 DEF Recent
    <2>2. Cardinality(counted) <= count'
      BY <1>1, <1>2, <1>3 DEF Split, Incremented
    <2>3. Split(before, counted, failed)' /\ Parts(before, counted, failed)'
      BY <1>1, <1>3, <2>1, <2>2 DEF Split, Parts
    <2> QED BY <1>2, <2>1, <2>3, BurstSplit DEF BurstInv, Split, Parts
  <1>5. CASE WithinLimit(count')
    <2>1. /\ Recent' = Recent \cup {r} /\ count' = count + 1 /\ count' <= Limit
          /\ \A q \in Recent : age'[q] = age[q]
      BY <1>3, <1>5 DEF Recent, WithinLimit, Incremented
    <2>2. r \notin counted
      BY <1>1, <1>3 DEF Parts
    <2>3. Cardinality(counted \cup {r}) = Cardinality(counted) + 1
      BY <1>2, <2>2, FS_AddElement
    <2>4. Parts(before, counted \cup {r}, failed)'
      BY <1>1, <2>1 DEF Parts
    <2>5. Recent' = before \cup (counted \cup {r}) \cup failed
      BY <1>1, <2>1 DEF Split
    <2>6. ttl' # Forever => \A q \in before : age'[q] + ttl' >= Window
      BY <1>1, <1>3, <2>1 DEF Split, Parts
    <2>7. Split(before, counted \cup {r}, failed)'
      BY <1>1, <1>2, <1>3, <2>1, <2>3, <2>5, <2>6 DEF Split
    <2>8. IsFiniteSet(Recent')
      BY <1>2, <2>1, FS_AddElement
    <2> QED BY <2>4, <2>7, <2>8 DEF BurstInv, Split, Parts
  <1> QED BY <1>4, <1>5

\* A request let through by an error of INCR joins the failed ones, and is paid for by
\* the command that failed; what it may have counted leaves the others more room.
LEMMA IncrFailsStep ==
  ASSUME TypeOK, BurstInv, NEW r \in Requests, IncrFails(r) PROVE BurstInv'
  <1>1. PICK before, counted, failed :
          Parts(before, counted, failed) /\ Split(before, counted, failed)
    BY BurstSplit
  <1>2. /\ IsFiniteSet(Recent) /\ IsFiniteSet(failed)
        /\ Cardinality(failed) \in Nat /\ Cardinality(counted) \in Nat
    BY <1>1, PartsFinite DEF Parts, BurstInv
  <1>3. /\ count' \in {count, Incremented} /\ count \in 0 .. Limit + 1
        /\ UNCHANGED <<ttl, evictions>> /\ faults' = faults + 1 /\ faults \in Nat
        /\ age \in [Requests -> 0 .. Window] /\ r \notin Recent /\ 0 < Window
        /\ age' = [age EXCEPT ![r] = 0]
    BY DEF IncrFails, Fault, TypeOK, Recent
  <1>4. /\ Recent' = Recent \cup {r} /\ count' >= count /\ count' \in Nat
        /\ \A q \in Recent : age'[q] = age[q]
    BY <1>3 DEF Recent, Incremented
  <1>5. r \notin failed
    BY <1>1, <1>3 DEF Parts
  <1>6. Cardinality(failed \cup {r}) = Cardinality(failed) + 1
    BY <1>2, <1>5, FS_AddElement
  <1>7. Parts(before, counted, failed \cup {r})'
    BY <1>1, <1>4 DEF Parts
  <1>8. Recent' = before \cup counted \cup (failed \cup {r})
    BY <1>1, <1>4 DEF Split
  <1>9. ttl' # Forever => \A q \in before : age'[q] + ttl' >= Window
    BY <1>1, <1>3, <1>4 DEF Split, Parts
  <1>10. Cardinality(failed \cup {r}) <= faults' /\ Cardinality(counted) <= count'
    BY <1>1, <1>2, <1>3, <1>4, <1>6 DEF Split
  <1>11. Split(before, counted, failed \cup {r})'
    BY <1>1, <1>3, <1>8, <1>9, <1>10 DEF Split
  <1>12. IsFiniteSet(Recent')
    BY <1>2, <1>4, FS_AddElement
  <1> QED BY <1>7, <1>11, <1>12 DEF BurstInv, Split, Parts

\* EXPIRE, its error and a refusal let nobody through who was not let through before.
LEMMA CommandStep ==
  ASSUME TypeOK, BurstInv, NEW r \in Requests, Proceed(r)
  PROVE  BurstInv'
  <1>1. PICK before, counted, failed :
          Parts(before, counted, failed) /\ Split(before, counted, failed)
    BY BurstSplit
  <1>2. age' = age /\ evictions' = evictions /\ Recent' = Recent /\ count' = count
    BY DEF Proceed, Expire, ExpireFails, Refuse, Fault, bounds, redis, Recent
  <1>3. Cardinality(failed) \in Nat /\ faults \in Nat /\ faults' \in {faults, faults + 1}
    BY <1>1, PartsFinite DEF Proceed, Expire, ExpireFails, Refuse, Fault, bounds, TypeOK, Parts
  <1>4. ttl' \in {ttl, Window}
    BY DEF Proceed, Expire, ExpireFails, Refuse, TtlSet, redis
  <1>5. \A q \in before : age[q] >= 0 /\ age[q] \in Int
    BY <1>1 DEF TypeOK, Recent, Parts
  <1>6. ttl' # Forever => \A q \in before : age'[q] + ttl' >= Window
    BY <1>1, <1>2, <1>4, <1>5 DEF Split
  <1>7. Cardinality(failed) <= faults'
    BY <1>1, <1>3 DEF Split
  <1>8. Split(before, counted, failed)' /\ Parts(before, counted, failed)'
    BY <1>1, <1>2, <1>6, <1>7 DEF Split, Parts
  <1> QED BY <1>2, <1>8 DEF BurstInv, Split, Parts

\* Losing the key moves all it has counted before the next one, for one more limit.
LEMMA EvictStep == ASSUME TypeOK, BurstInv, Evict PROVE BurstInv'
  <1>1. PICK before, counted, failed :
          Parts(before, counted, failed) /\ Split(before, counted, failed)
    BY BurstSplit
  <1>2. /\ Recent' = Recent /\ evictions' = evictions + 1 /\ evictions \in Nat
        /\ count' = 0 /\ ttl' = Forever /\ faults' = faults
    BY DEF Evict, Recent, TypeOK
  <1>3. IsFiniteSet(before) /\ IsFiniteSet(counted)
    BY <1>1, PartsFinite DEF Parts
  <1>4. (1 + evictions') * Limit = (1 + evictions) * Limit + Limit
    <2>1. 1 + evictions' = 2 + evictions
      BY <1>2
    <2> QED BY <1>2, <2>1, Allowance
  <1>5. Cardinality(before \cup counted) <= (1 + evictions') * Limit
    BY <1>1, <1>2, <1>3, <1>4, UnionBound, Allowance DEF Split
  <1>6. Split(before \cup counted, {}, failed)' /\ Parts(before \cup counted, {}, failed)'
    BY <1>1, <1>2, <1>5, FS_EmptySet DEF Split, Parts
  <1> QED BY <1>2, <1>6 DEF BurstInv, Split, Parts

\* Time makes passes older and the key's life shorter by as much; when the key expires,
\* those before it are a window old.
LEMMA TickStep == ASSUME TypeOK, BurstInv, Tick PROVE BurstInv'
  <1>1. PICK before, counted, failed :
          Parts(before, counted, failed) /\ Split(before, counted, failed)
    BY BurstSplit
  <1>0. PICK b, c, f : /\ b = before \cap Recent' /\ c = counted \cap Recent'
                       /\ f = failed \cap Recent'
    OBVIOUS
  <1>2. /\ age \in [Requests -> 0 .. Window] /\ evictions \in Nat /\ evictions' = evictions
        /\ ttl \in 1 .. Window \cup {Forever} /\ count \in 0 .. Limit + 1
        /\ faults \in Nat /\ faults' = faults
        /\ \A r \in Requests : age'[r] = IF age[r] = Window THEN age[r] ELSE age[r] + 1
    BY DEF Tick, TypeOK, Older
  <1>3. Recent' \subseteq Recent /\ \A r \in Recent' : age'[r] = age[r] + 1
    BY <1>2 DEF Recent
  <1>4. IsFiniteSet(Recent')
    BY <1>3, FS_Subset DEF BurstInv
  <1>5. /\ IsFiniteSet(before) /\ IsFiniteSet(counted) /\ IsFiniteSet(failed)
        /\ Cardinality(before) \in Nat /\ Cardinality(counted) \in Nat
        /\ Cardinality(failed) \in Nat
    BY <1>1, PartsFinite DEF Parts
  <1>6. /\ Cardinality(b) <= Cardinality(before) /\ Cardinality(c) <= Cardinality(counted)
        /\ Cardinality(f) <= Cardinality(failed) /\ Cardinality(b) \in Nat
        /\ Cardinality(c) \in Nat /\ Cardinality(f) \in Nat
    <2>1. b \in SUBSET before /\ c \in SUBSET counted /\ f \in SUBSET failed
      BY <1>0
    <2> QED BY <1>5, <2>1, FS_Subset, FS_CardinalityType
  <1>7. Recent' = b \cup c \cup f
    BY <1>0, <1>1, <1>3 DEF Split
  <1>8. Cardinality(f) <= faults'
    BY <1>1, <1>2, <1>5, <1>6 DEF Split
  <1>9. CASE ttl = 1
    <2>1. count' = 0 /\ ttl' = Forever
      BY <1>9 DEF Tick
    <2>2. b = {}
      <3>1. \A r \in before : age[r] + 1 >= Window /\ r \in Requests
        BY <1>1, <1>9 DEF Split, Recent, Parts
      <3> QED BY <1>0, <1>2, <3>1 DEF Recent
    <2>3. Cardinality(c) <= (1 + evictions') * Limit
      BY <1>1, <1>2, <1>5, <1>6, Allowance DEF Split
    <2>4. Recent' = c \cup {} \cup f
      BY <1>7, <2>2
    <2>5. Split(c, {}, f)'
      BY <1>8, <2>1, <2>3, <2>4, FS_EmptySet DEF Split
    <2>6. Parts(c, {}, f)'
      BY <2>4 DEF Parts
    <2> QED BY <1>4, <2>5, <2>6 DEF BurstInv, Split, Parts
  <1>10. CASE ttl # 1
    <2>1. count' = count /\ ttl' = IF ttl = Forever THEN Forever ELSE ttl - 1
      BY <1>10 DEF Tick
    <2>2. Cardinality(b) <= (1 + evictions') * Limit
      BY <1>1, <1>2, <1>5, <1>6, Allowance DEF Split
    <2>3. Cardinality(c) <= count' /\ Cardinality(c) <= Limit
      BY <1>1, <1>2, <1>5, <1>6, <2>1 DEF Split
    <2>4. ttl' # Forever => \A r \in b : age'[r] + ttl' >= Window
      BY <1>0, <1>1, <1>2, <1>3, <2>1 DEF Split, Recent
    <2>5. Split(b, c, f)'
      BY <1>7, <1>8, <2>2, <2>3, <2>4 DEF Split
    <2>6. Parts(b, c, f)'
      BY <1>7 DEF Parts
    <2> QED BY <1>4, <2>5, <2>6 DEF BurstInv, Split, Parts
  <1> QED BY <1>9, <1>10

\* BurstInv is inductive.
LEMMA BurstStep == TypeOK /\ BurstInv /\ [Next]_vars => BurstInv'
  <1>1. TypeOK /\ BurstInv /\ UNCHANGED vars => BurstInv'
    BY DEF vars, BurstInv, Recent
  <1> QED BY <1>1, IncrStep, IncrFailsStep, CommandStep, EvictStep, TickStep DEF Next

\* For any number of requests, any limit and window, and any timing of INCR and EXPIRE:
\* a window lets twice the limit through at most, the limit once more for each key lost
\* and one request for each command that failed.
THEOREM BurstsCorrect == Spec => []BurstsAreBounded
  <1> QED BY BurstInit, BurstStep, BurstBound, TypeCorrect, PTL DEF Spec

=============================================================================
