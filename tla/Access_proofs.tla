----------------------------- MODULE Access_proofs -----------------------------
(***************************************************************************)
(* Proofs about Access for any number of addresses, passwords, requests    *)
(* and faults.                                                             *)
(***************************************************************************)
EXTENDS Access, TLAPS

USE DEF registering, loggingIn, calling

\* Which variables a step may change.
LEMMA Touches ==
  /\ \A r \in Registrations : Register(r) => UNCHANGED <<remail, rpassword, loggingIn, left, calling>>
  /\ \A l \in Logins : Login(l) => UNCHANGED <<users, registering, lemail, lpassword, calling>>
  /\ \A c \in Calls : Call(c) => UNCHANGED <<users, registering, loggingIn, left, faults>>
  /\ Tick => UNCHANGED <<users, registering, loggingIn, calling, faults>>
  <1>1. ASSUME NEW r \in Registrations
        PROVE  Register(r) => UNCHANGED <<remail, rpassword, loggingIn, left, calling>>
    BY DEF Register, Hash, Insert, InsertFails
  <1>2. ASSUME NEW l \in Logins
        PROVE  Login(l) => UNCHANGED <<users, registering, lemail, lpassword, calling>>
    BY DEF Login, Begin, FindByEmail, FindFails, Issue, Refuse
  <1>3. ASSUME NEW c \in Calls
        PROVE  Call(c) => UNCHANGED <<users, registering, loggingIn, left, faults>>
    BY DEF Call, Send, PassGateway, PassService
  <1>4. Tick => UNCHANGED <<users, registering, loggingIn, calling, faults>>
    BY DEF Tick
  <1> QED BY <1>1, <1>2, <1>3, <1>4

-----------------------------------------------------------------------------
(* Types *)

LEMMA TtlIsNat == Ttl \in Nat
  <1> QED BY ParametersOK

LEMMA TypeInit == Init => TypeOK
  <1> SUFFICES ASSUME Init PROVE TypeOK OBVIOUS
  <1>1. left \in [Logins -> 0 .. Ttl]
    BY ParametersOK DEF Init
  <1> QED BY <1>1, ParametersOK DEF Init, TypeOK, Paths

LEMMA TypeStep == TypeOK /\ [Next]_vars => TypeOK'
  <1> SUFFICES ASSUME TypeOK, [Next]_vars PROVE TypeOK' OBVIOUS
  <1> USE DEF TypeOK, RGoto, LGoto, CGoto
  <1>1. ASSUME NEW r \in Registrations, Hash(r) PROVE TypeOK'
    BY <1>1 DEF Hash
  <1>2. ASSUME NEW r \in Registrations, Insert(r) PROVE TypeOK'
    BY <1>2 DEF Insert, Inserted
  <1>3. ASSUME NEW r \in Registrations, InsertFails(r) PROVE TypeOK'
    <2>1. users' \in [Emails -> Registrations \cup {None}]
      BY <1>3 DEF InsertFails, Inserted
    <2>2. faults' \in Nat
      BY <1>3, ParametersOK DEF InsertFails, Fault
    <2> QED BY <1>3, <2>1, <2>2 DEF InsertFails
  <1>4. ASSUME NEW l \in Logins, Begin(l) PROVE TypeOK'
    BY <1>4 DEF Begin
  <1>5. ASSUME NEW l \in Logins, FindByEmail(l) PROVE TypeOK'
    BY <1>5 DEF FindByEmail
  <1>6. ASSUME NEW l \in Logins, FindFails(l) PROVE TypeOK'
    <2>1. faults' \in Nat
      BY <1>6, ParametersOK DEF FindFails, Fault
    <2> QED BY <1>6, <2>1 DEF FindFails
  <1>7. ASSUME NEW l \in Logins, Issue(l) PROVE TypeOK'
    <2>1. Ttl \in 0 .. Ttl
      BY ParametersOK
    <2>2. left' \in [Logins -> 0 .. Ttl]
      BY <1>7, <2>1 DEF Issue
    <2> QED BY <1>7, <2>2 DEF Issue, Subject
  <1>8. ASSUME NEW l \in Logins, Refuse(l) PROVE TypeOK'
    BY <1>8 DEF Refuse
  <1>9. ASSUME NEW c \in Calls, NEW p \in Paths, NEW l \in Logins \cup {None}, Send(c, p, l)
        PROVE  TypeOK'
    BY <1>9 DEF Send
  <1>10. ASSUME NEW c \in Calls, PassGateway(c) \/ PassService(c) PROVE TypeOK'
    BY <1>10 DEF PassGateway, PassService
  <1>11. CASE Tick
    <2>1. ASSUME NEW l \in Logins
          PROVE  (IF left[l] > 0 THEN left[l] - 1 ELSE 0) \in 0 .. Ttl
      BY ParametersOK
    <2>2. left' \in [Logins -> 0 .. Ttl]
      BY <1>11, <2>1 DEF Tick
    <2> QED BY <1>11, <2>2 DEF Tick
  <1>12. CASE UNCHANGED vars
    BY <1>12 DEF vars
  <1> QED BY <1>1, <1>2, <1>3, <1>4, <1>5, <1>6, <1>7, <1>8, <1>9, <1>10, <1>11, <1>12
          DEF Next, Register, Login, Call

\* Every variable keeps its type.
THEOREM TypeCorrect == Spec => []TypeOK
  <1> QED BY TypeInit, TypeStep, PTL DEF Spec

-----------------------------------------------------------------------------
(* Registrations *)

\* The account of an address was registered with that address, by a request that is
\* past its INSERT, and whoever was answered 201 made it.
RowsAreEarned ==
  \A e \in Emails : users[e] # None =>
    users[e] \in Registrations /\ remail[users[e]] = e
      /\ rpc[users[e]] \in {"created", "failed"}

\* An account, once there, stays.
LEMMA AccountsStay ==
  ASSUME TypeOK, [Next]_vars, NEW e \in Emails, users[e] # None
  PROVE  users'[e] = users[e]
  <1> USE DEF TypeOK
  <1>1. ASSUME NEW r \in Registrations, Register(r) PROVE users'[e] = users[e]
    BY <1>1 DEF Register, Hash, Insert, InsertFails, Inserted, Taken
  <1> QED BY <1>1, Touches DEF Next, vars

LEMMA AnswersStep ==
  TypeOK /\ RowsAreEarned /\ AnswersAreTrue /\ [Next]_vars => RowsAreEarned' /\ AnswersAreTrue'
  <1> SUFFICES ASSUME TypeOK, RowsAreEarned, AnswersAreTrue, [Next]_vars
               PROVE  RowsAreEarned' /\ AnswersAreTrue'
    OBVIOUS
  <1> USE ParametersOK DEF TypeOK, RowsAreEarned, AnswersAreTrue, RGoto
  <1>1. ASSUME NEW r \in Registrations, Hash(r) PROVE RowsAreEarned' /\ AnswersAreTrue'
    BY <1>1 DEF Hash
  <1>2. ASSUME NEW r \in Registrations, Insert(r), Taken(r) PROVE RowsAreEarned' /\ AnswersAreTrue'
    <2>1. users' = users
      BY <1>2 DEF Insert, Inserted
    <2> QED BY <1>2, <2>1 DEF Insert, Taken
  <1>3. ASSUME NEW r \in Registrations, Insert(r), ~ Taken(r) PROVE RowsAreEarned' /\ AnswersAreTrue'
    <2>1. users' = [users EXCEPT ![remail[r]] = r] /\ users[remail[r]] = None
      BY <1>3 DEF Insert, Inserted, Taken
    <2>2. rpc' = [rpc EXCEPT ![r] = "created"] /\ UNCHANGED remail
      BY <1>3 DEF Insert
    <2> QED BY <1>3, <2>1, <2>2 DEF Insert
  <1>4. ASSUME NEW r \in Registrations, InsertFails(r) PROVE RowsAreEarned' /\ AnswersAreTrue'
    <2>1. rpc[r] = "hashed" /\ rpc' = [rpc EXCEPT ![r] = "failed"] /\ UNCHANGED remail
      BY <1>4 DEF InsertFails
    <2>2. CASE UNCHANGED users
      BY <2>1, <2>2
    <2>3. CASE Inserted(r) /\ Taken(r)
      <3>1. users' = users
        BY <2>3 DEF Inserted
      <3> QED BY <2>1, <3>1
    <2>4. CASE Inserted(r) /\ ~ Taken(r)
      <3>1. users' = [users EXCEPT ![remail[r]] = r] /\ users[remail[r]] = None
        BY <2>4 DEF Inserted, Taken
      <3> QED BY <2>1, <3>1
    <2> QED BY <1>4, <2>2, <2>3, <2>4 DEF InsertFails
  <1>5. CASE UNCHANGED <<users, rpc, remail>>
    BY <1>5
  <1> QED BY <1>1, <1>2, <1>3, <1>4, <1>5, Touches DEF Next, Register, vars

\* For any number of requests: who was answered 201 keeps the account, who was
\* answered 409 was beaten by another request, and who was answered 400 left nothing.
THEOREM AnswersCorrect == Spec => []AnswersAreTrue
  <1>1. Init => RowsAreEarned /\ AnswersAreTrue
    BY DEF Init, RowsAreEarned, AnswersAreTrue
  <1> QED BY <1>1, AnswersStep, TypeCorrect, PTL DEF Spec

LEMMA RowsCorrect == Spec => []RowsAreEarned
  <1>1. Init => RowsAreEarned /\ AnswersAreTrue
    BY DEF Init, RowsAreEarned, AnswersAreTrue
  <1> QED BY <1>1, AnswersStep, TypeCorrect, PTL DEF Spec

-----------------------------------------------------------------------------
(* Tokens *)

\* What FindByEmail returned is still the account of the address.
FoundIsThere ==
  \A l \in Logins : found[l] # None => found[l] = users[lemail[l]]

TokensMatch ==
  \A l \in Logins : token[l] # None =>
    token[l] = users[lemail[l]] /\ rpassword[token[l]] = lpassword[l]

LEMMA TokensStep ==
  TypeOK /\ FoundIsThere /\ TokensMatch /\ [Next]_vars => FoundIsThere' /\ TokensMatch'
  <1> SUFFICES ASSUME TypeOK, FoundIsThere, TokensMatch, [Next]_vars
               PROVE  FoundIsThere' /\ TokensMatch'
    OBVIOUS
  <1> USE DEF TypeOK, FoundIsThere, TokensMatch
  <1>1. ASSUME NEW r \in Registrations, Register(r) PROVE FoundIsThere' /\ TokensMatch'
    BY <1>1, Touches, AccountsStay
  <1>2. ASSUME NEW l \in Logins, FindByEmail(l) PROVE FoundIsThere' /\ TokensMatch'
    BY <1>2 DEF FindByEmail
  <1>3. ASSUME NEW l \in Logins, Issue(l) PROVE FoundIsThere' /\ TokensMatch'
    BY <1>3 DEF Issue, Subject, Verified, Matches
  <1>4. CASE UNCHANGED <<users, rpassword, lemail, lpassword, found, token>>
    BY <1>4
  <1>5. ASSUME NEW l \in Logins, Begin(l) \/ FindFails(l) \/ Refuse(l)
        PROVE  UNCHANGED <<users, rpassword, lemail, lpassword, found, token>>
    BY <1>5 DEF Begin, FindFails, Refuse
  <1> QED BY <1>1, <1>2, <1>3, <1>4, <1>5, Touches DEF Next, Login, vars

\* A token names the account that has the address and the password given for it.
THEOREM TokensCorrect == Spec => []TokensAreEarned
  <1>1. Init => FoundIsThere /\ TokensMatch
    BY DEF Init, FoundIsThere, TokensMatch
  <1>2. TypeOK /\ RowsAreEarned /\ TokensMatch => TokensAreEarned
    BY DEF TypeOK, RowsAreEarned, TokensMatch, TokensAreEarned
  <1> QED BY <1>1, <1>2, TokensStep, TypeCorrect, RowsCorrect, PTL DEF Spec

-----------------------------------------------------------------------------
(* Logins *)

\* A login that is entitled finds its account, unless the database fails.
EntitledMatch ==
  \A l \in Logins : l \in entitled =>
    /\ lpc[l] # "new"
    /\ lpc[l] = "asked" => Matches(l, users[lemail[l]])
    /\ lpc[l] = "found" => Matches(l, found[l]) \/ faults > 0

\* The faults of a step only add up.
LEMMA FaultsStay == TypeOK /\ [Next]_vars => faults' >= faults
  <1> SUFFICES ASSUME TypeOK, [Next]_vars PROVE faults' >= faults
    OBVIOUS
  <1>1. faults \in Nat
    BY DEF TypeOK
  <1>2. ASSUME NEW r \in Registrations, Register(r) PROVE faults' >= faults
    BY <1>1, <1>2 DEF Register, Hash, Insert, InsertFails, Fault
  <1>3. ASSUME NEW l \in Logins, Login(l) PROVE faults' >= faults
    BY <1>1, <1>3 DEF Login, Begin, FindByEmail, FindFails, Issue, Refuse, Fault
  <1>4. CASE faults' = faults
    BY <1>1, <1>4
  <1> QED BY <1>2, <1>3, <1>4, Touches DEF Next, vars

LEMMA PasswordsStep ==
  TypeOK /\ EntitledMatch /\ PasswordsOpen /\ [Next]_vars => EntitledMatch' /\ PasswordsOpen'
  <1> SUFFICES ASSUME TypeOK, EntitledMatch, PasswordsOpen, [Next]_vars
               PROVE  EntitledMatch' /\ PasswordsOpen'
    OBVIOUS
  <1>0. faults \in Nat /\ faults' \in Nat /\ faults' >= faults
    BY FaultsStay, TypeStep DEF TypeOK
  <1>t. /\ lpc \in [Logins -> {"new", "asked", "found", "token", "unauthorized"}]
        /\ found \in [Logins -> Registrations \cup {None}]
        /\ entitled \subseteq Logins /\ lemail \in [Logins -> Emails]
    BY DEF TypeOK
  <1> USE DEF EntitledMatch, PasswordsOpen, Matches, LGoto
  <1>1. ASSUME NEW r \in Registrations, Register(r) PROVE EntitledMatch' /\ PasswordsOpen'
    <2>1. \A e \in Emails : users[e] # None => users'[e] = users[e]
      BY AccountsStay
    <2>2. UNCHANGED <<rpassword, lpc, lemail, lpassword, found, entitled>>
      BY <1>1, Touches
    <2>3. faults > 0 => faults' > 0
      BY <1>0
    <2>4. ASSUME NEW l \in Logins, l \in entitled, lpc[l] = "asked"
          PROVE  Matches(l, users[lemail[l]])'
      BY <1>t, <2>1, <2>2, <2>4
    <2> QED BY <2>2, <2>3, <2>4
  <1>2. ASSUME NEW l \in Logins, Begin(l) PROVE EntitledMatch' /\ PasswordsOpen'
    BY <1>0, <1>2, <1>t DEF Begin
  <1>3. ASSUME NEW l \in Logins, FindByEmail(l) PROVE EntitledMatch' /\ PasswordsOpen'
    BY <1>0, <1>3, <1>t DEF FindByEmail
  <1>4. ASSUME NEW l \in Logins, FindFails(l) PROVE EntitledMatch' /\ PasswordsOpen'
    <2>1. faults' > 0
      BY <1>0, <1>4 DEF FindFails, Fault
    <2> QED BY <1>4, <1>t, <2>1 DEF FindFails
  <1>5. ASSUME NEW l \in Logins, Issue(l) PROVE EntitledMatch' /\ PasswordsOpen'
    BY <1>0, <1>5, <1>t DEF Issue
  <1>6. ASSUME NEW l \in Logins, Refuse(l) PROVE EntitledMatch' /\ PasswordsOpen'
    BY <1>0, <1>6, <1>t DEF Refuse, Verified
  <1>7. CASE UNCHANGED <<users, rpassword, lpc, lemail, lpassword, found, entitled, faults>>
    BY <1>7
  <1>8. CASE Tick
    BY <1>7, <1>8 DEF Tick
  <1> QED BY <1>1, <1>2, <1>3, <1>4, <1>5, <1>6, <1>7, <1>8, Touches DEF Next, Login, vars

\* Whoever had an account before logging in, and gives its password, is let in, unless
\* the database fails.
THEOREM PasswordsCorrect == Spec => []PasswordsOpen
  <1>1. Init => EntitledMatch /\ PasswordsOpen
    BY DEF Init, EntitledMatch, PasswordsOpen
  <1> QED BY <1>1, PasswordsStep, TypeCorrect, PTL DEF Spec

-----------------------------------------------------------------------------
(* Calls *)

\* A login is over once it has its token.
TokensAreLast == \A l \in Logins : token[l] # None => lpc[l] = "token"

LEMMA TokensLastStep == TypeOK /\ TokensAreLast /\ [Next]_vars => TokensAreLast'
  <1> SUFFICES ASSUME TypeOK, TokensAreLast, [Next]_vars PROVE TokensAreLast'
    OBVIOUS
  <1> USE DEF TypeOK, TokensAreLast, LGoto
  <1>1. ASSUME NEW l \in Logins, Login(l) PROVE TokensAreLast'
    BY <1>1 DEF Login, Begin, FindByEmail, FindFails, Issue, Refuse
  <1>2. CASE UNCHANGED <<token, lpc>>
    BY <1>2
  <1> QED BY <1>1, <1>2, Touches DEF Next, Tick, vars

\* Once a token is there it stays, and its time is not put up again.
LEMMA TokensStay ==
  ASSUME TypeOK, TokensAreLast, [Next]_vars, NEW l \in Logins, token[l] # None
  PROVE  token'[l] = token[l] /\ (left[l] = 0 => left'[l] = 0)
  <1>0. left \in [Logins -> 0 .. Ttl] /\ token \in [Logins -> Registrations \cup {None}]
    BY DEF TypeOK
  <1>1. ASSUME NEW k \in Logins, Login(k)
        PROVE  token'[l] = token[l] /\ (left[l] = 0 => left'[l] = 0)
    BY <1>0, <1>1 DEF Login, Begin, FindByEmail, FindFails, Issue, Refuse, TokensAreLast
  <1>2. CASE Tick
    BY <1>0, <1>2 DEF Tick
  <1>3. CASE UNCHANGED <<token, left>>
    BY <1>3
  <1> QED BY <1>1, <1>2, <1>3, Touches DEF Next, vars

\* A bearer has a token, and the gateway lets no call without one through to a handler
\* that asks for it, except GET /r/urls.
BearersHaveTokens ==
  \A c \in Calls :
    /\ bearer[c] # None => token[bearer[c]] # None
    /\ cpc[c] = "forwarded" /\ Handler(path[c]) \in Protected /\ path[c] # "redirect_to_urls"
         => bearer[c] # None

CallsAreTrue == BearersHaveTokens /\ GatewayVouches /\ ServedAsSomebody

LEMMA CallsStep ==
  TypeOK /\ TokensAreLast /\ CallsAreTrue /\ [Next]_vars => CallsAreTrue'
  <1> SUFFICES ASSUME TypeOK, TokensAreLast, CallsAreTrue, [Next]_vars PROVE CallsAreTrue'
    OBVIOUS
  <1>t. /\ cpc \in [Calls -> {"idle", "sent", "stopped", "not_found", "forwarded",
                              "turned_away", "served"}]
        /\ path \in [Calls -> Paths] /\ bearer \in [Calls -> Logins \cup {None}]
        /\ left \in [Logins -> 0 .. Ttl]
    BY DEF TypeOK
  <1> USE DEF CallsAreTrue, BearersHaveTokens, GatewayVouches, ServedAsSomebody, CGoto
  <1>1. CASE UNCHANGED calling
    BY <1>1, <1>t, TokensStay
  <1>2. ASSUME NEW c \in Calls, NEW p \in Paths, NEW l \in Logins \cup {None}, Send(c, p, l)
        PROVE  CallsAreTrue'
    BY <1>2, <1>t DEF Send
  <1>3. ASSUME NEW c \in Calls, PassGateway(c) PROVE CallsAreTrue'
    <2>1. cpc'[c] = "forwarded" /\ Handler(path[c]) \in Protected
            /\ path[c] # "redirect_to_urls" => bearer[c] # None
      BY <1>3, <1>t DEF PassGateway, Route, Handler, RequiresAuth, Protected, Valid
    <2>2. cpc'[c] \in {"stopped", "not_found", "forwarded"}
      BY <1>3, <1>t DEF PassGateway
    <2>3. \A d \in Calls \ {c} : cpc'[d] = cpc[d]
      BY <1>3, <1>t DEF PassGateway
    <2> QED BY <1>3, <1>t, <2>1, <2>2, <2>3 DEF PassGateway
  <1>4. ASSUME NEW c \in Calls, PassService(c) PROVE CallsAreTrue'
    <2>1. \A d \in Calls \ {c} : cpc'[d] = cpc[d]
      BY <1>4, <1>t DEF PassService
    <2>2. CASE Handler(path[c]) \in Protected /\ ~ Valid(c)
      <3>1. cpc'[c] = "turned_away"
        BY <1>4, <1>t, <2>2 DEF PassService
      <3>2. bearer[c] # None => left[bearer[c]] = 0
        BY <1>t, <2>2, TtlIsNat DEF Valid
      <3> QED BY <1>4, <1>t, <2>1, <2>2, <3>1, <3>2 DEF PassService
    <2>3. CASE Handler(path[c]) \notin Protected \/ Valid(c)
      <3>1. cpc'[c] = "served"
        BY <1>4, <1>t, <2>3 DEF PassService
      <3>2. Handler(path[c]) \in ActsForUser => bearer[c] # None /\ token[bearer[c]] # None
        BY <2>3 DEF Valid, Protected, ActsForUser
      <3> QED BY <1>4, <1>t, <2>1, <3>1, <3>2 DEF PassService
    <2> QED BY <2>2, <2>3
  <1> QED BY <1>1, <1>2, <1>3, <1>4, Touches DEF Next, Call, vars

LEMMA CallsCorrect == Spec => []CallsAreTrue
  <1>1. Init => TokensAreLast /\ CallsAreTrue
    BY DEF Init, TokensAreLast, CallsAreTrue, BearersHaveTokens, GatewayVouches, ServedAsSomebody
  <1> QED BY <1>1, TokensLastStep, CallsStep, TypeCorrect, PTL DEF Spec

\* A service turns away a call the gateway forwarded only if its token expired on the
\* way, or if the gateway takes it for a redirect.
THEOREM VouchCorrect == Spec => []GatewayVouches
  <1> QED BY CallsCorrect, PTL DEF CallsAreTrue

\* A handler that acts for a user serves only calls that came with a token.
THEOREM ServedCorrect == Spec => []ServedAsSomebody
  <1> QED BY CallsCorrect, PTL DEF CallsAreTrue

=============================================================================
