-------------------------------- MODULE Access --------------------------------
(***************************************************************************)
(* Accounts and tokens: Register and Login of user-service, the token it   *)
(* issues, and the two places that look at a token on the way of a call,   *)
(* jwtMiddleware of the gateway and JWTMiddleware of the service behind.   *)
(*                                                                         *)
(* An account is the registration that inserted its row; its hash matches  *)
(* the password of that registration and no other.  Signatures are beyond  *)
(* the model: who has a token got it from Login.                           *)
(***************************************************************************)
EXTENDS Naturals, FiniteSets

CONSTANTS
    Registrations,   \* requests POST /api/auth/register
    Logins,          \* requests POST /api/auth/login
    Calls,           \* clients of the other routes, one request at a time
    Emails,          \* addresses validateEmail accepts
    Passwords,
    Hashable,        \* those of 8 bytes or more that bcrypt hashes: at most 72 bytes
    None,            \* no account, no token
    Ttl,             \* TOKEN_TTL_HOURS, in ticks
    MaxFaults        \* bound: statements that fail, answers that are lost

ASSUME ParametersOK ==
    /\ Hashable \subseteq Passwords
    /\ None \notin Registrations \cup Logins
    /\ Ttl \in Nat \ {0} /\ MaxFaults \in Nat

VARIABLES
    users,       \* the account of each address: the registration that made it
    rpc,         \* where each registration is, and its answer in the end
    remail, rpassword,   \* what it asks for
    lpc,         \* where each login is, and its answer in the end
    lemail, lpassword,   \* what it gives
    found,       \* the account FindByEmail returned to it
    token,       \* the account its token names (sub)
    left,        \* ticks before that token expires
    entitled,    \* history: logins that began with the password of an account
    cpc,         \* where each call is, and its answer in the end
    path,        \* what it asks for
    bearer,      \* the login whose token it carries
    faults

registering == <<rpc, remail, rpassword>>
loggingIn == <<lpc, lemail, lpassword, found, token, entitled>>
calling == <<cpc, path, bearer>>
vars == <<users, registering, loggingIn, left, calling, faults>>

-----------------------------------------------------------------------------
(* Routes *)

\* Requests by the row of the routing table they are meant for; one whose short code
\* is "urls" and one that matches no row.
Paths ==
    {"me", "shorten", "urls", "deactivate", "redirect", "stats", "notifications",
     "redirect_to_urls", "elsewhere"}

\* matchRoute looks at the method and at the prefix of the path.
Route(p) == IF p = "redirect_to_urls" THEN "redirect" ELSE p

\* With the prefix /r stripped, the mux of url-service takes GET /r/urls for GET /urls.
Handler(p) == IF p = "redirect_to_urls" THEN "urls" ELSE p

NotificationsForgotten == {"me", "shorten", "urls", "deactivate"}
RequiresAuth == {"me", "shorten", "urls", "deactivate", "notifications"}

\* Handlers the services wrap in JWTMiddleware.
UrlsForgotten == {"me", "shorten", "deactivate", "notifications"}
Protected == {"me", "shorten", "urls", "deactivate", "notifications"}

\* Handlers that act for the user of ClaimsFromContext.
ActsForUser == {"me", "shorten", "urls", "deactivate", "notifications"}

Init ==
    /\ users = [e \in Emails |-> None]
    /\ rpc = [r \in Registrations |-> "new"]
    /\ remail \in [Registrations -> Emails]
    /\ rpassword \in [Registrations -> Passwords]
    /\ lpc = [l \in Logins |-> "new"]
    /\ lemail \in [Logins -> Emails] /\ lpassword \in [Logins -> Passwords]
    /\ found = [l \in Logins |-> None]
    /\ token = [l \in Logins |-> None] /\ left = [l \in Logins |-> 0]
    /\ entitled = {}
    /\ cpc = [c \in Calls |-> "idle"]
    /\ path = [c \in Calls |-> "elsewhere"] /\ bearer = [c \in Calls |-> None]
    /\ faults = 0

Fault == faults < MaxFaults /\ faults' = faults + 1

RGoto(r, label) == rpc' = [rpc EXCEPT ![r] = label]
LGoto(l, label) == lpc' = [lpc EXCEPT ![l] = label]
CGoto(c, label) == cpc' = [cpc EXCEPT ![c] = label]

-----------------------------------------------------------------------------
(* Register *)

\* 400 for a short password, 500 for one that bcrypt refuses; otherwise it is hashed.
Hash(r) ==
    /\ rpc[r] = "new"
    /\ RGoto(r, IF rpassword[r] \in Hashable THEN "hashed" ELSE "refused")
    /\ UNCHANGED <<users, remail, rpassword, loggingIn, left, calling, faults>>

Taken(r) == users[remail[r]] # None

InsertedOver(r) == users' = [users EXCEPT ![remail[r]] = r]
Inserted(r) ==
    users' = [users EXCEPT ![remail[r]] = IF Taken(r) THEN @ ELSE r]

\* The UNIQUE constraint decides between 201 and 409.
Insert(r) ==
    /\ rpc[r] = "hashed"
    /\ Inserted(r)
    /\ RGoto(r, IF Taken(r) THEN "conflict" ELSE "created")
    /\ UNCHANGED <<remail, rpassword, loggingIn, left, calling, faults>>

\* 500, or no answer, as a shutdown cuts requests off; the row may be there.
InsertFails(r) ==
    /\ rpc[r] = "hashed"
    /\ UNCHANGED users \/ Inserted(r)
    /\ RGoto(r, "failed")
    /\ Fault
    /\ UNCHANGED <<remail, rpassword, loggingIn, left, calling>>

-----------------------------------------------------------------------------
(* Login *)

Matches(l, account) == account # None /\ rpassword[account] = lpassword[l]

Begin(l) ==
    /\ lpc[l] = "new"
    /\ entitled' = IF Matches(l, users[lemail[l]]) THEN entitled \cup {l} ELSE entitled
    /\ LGoto(l, "asked")
    /\ UNCHANGED <<users, registering, lemail, lpassword, found, token, left, calling, faults>>

FindByEmail(l) ==
    /\ lpc[l] = "asked"
    /\ found' = [found EXCEPT ![l] = users[lemail[l]]]
    /\ LGoto(l, "found")
    /\ UNCHANGED <<users, registering, lemail, lpassword, token, left, entitled, calling, faults>>

\* Without a user, any error is taken for an unknown address.
FindFails(l) ==
    /\ lpc[l] = "asked"
    /\ LGoto(l, "found")
    /\ Fault
    /\ UNCHANGED <<users, registering, lemail, lpassword, found, token, left, entitled, calling>>

VerifiedIfFound(l) == found[l] # None
Verified(l) == Matches(l, found[l])

Subject(l) == found[l]

\* Issue signs sub, email and exp, of the account found.
Issue(l) ==
    /\ lpc[l] = "found" /\ Verified(l)
    /\ token' = [token EXCEPT ![l] = Subject(l)]
    /\ left' = [left EXCEPT ![l] = Ttl]
    /\ LGoto(l, "token")
    /\ UNCHANGED <<users, registering, lemail, lpassword, found, entitled, calling, faults>>

\* 401, the same for an unknown address and a wrong password.
Refuse(l) ==
    /\ lpc[l] = "found" /\ ~ Verified(l)
    /\ LGoto(l, "unauthorized")
    /\ UNCHANGED <<users, registering, lemail, lpassword, found, token, left, entitled, calling, faults>>

-----------------------------------------------------------------------------
(* A call *)

\* With a token some login answered, or without.
Send(c, p, l) ==
    /\ cpc[c] \notin {"sent", "forwarded"}
    /\ l # None => token[l] # None
    /\ path' = [path EXCEPT ![c] = p]
    /\ bearer' = [bearer EXCEPT ![c] = l]
    /\ CGoto(c, "sent")
    /\ UNCHANGED <<users, registering, loggingIn, left, faults>>

\* VerifyToken: what it extracts is there in every token of Issue, and exp is ahead.
Valid(c) == bearer[c] # None /\ left[bearer[c]] > 0

\* jwtMiddleware, then ServeHTTP of the gateway.
PassGateway(c) ==
    /\ cpc[c] = "sent"
    /\ CGoto(c, IF Route(path[c]) \in RequiresAuth /\ ~ Valid(c) THEN "stopped"
                ELSE IF Route(path[c]) = "elsewhere" THEN "not_found"
                ELSE "forwarded")
    /\ UNCHANGED <<users, registering, loggingIn, left, path, bearer, faults>>

\* JWTMiddleware of the service, then its handler.
PassService(c) ==
    /\ cpc[c] = "forwarded"
    /\ CGoto(c, IF Handler(path[c]) \in Protected /\ ~ Valid(c) THEN "turned_away" ELSE "served")
    /\ UNCHANGED <<users, registering, loggingIn, left, path, bearer, faults>>

Tick ==
    /\ \E l \in Logins : left[l] > 0
    /\ left' = [l \in Logins |-> IF left[l] > 0 THEN left[l] - 1 ELSE 0]
    /\ UNCHANGED <<users, registering, loggingIn, calling, faults>>

-----------------------------------------------------------------------------
Register(r) == Hash(r) \/ Insert(r) \/ InsertFails(r)

Login(l) == Begin(l) \/ FindByEmail(l) \/ FindFails(l) \/ Issue(l) \/ Refuse(l)

Call(c) ==
    \/ \E p \in Paths, l \in Logins \cup {None} : Send(c, p, l)
    \/ PassGateway(c) \/ PassService(c)

Next ==
    \/ \E r \in Registrations : Register(r)
    \/ \E l \in Logins : Login(l)
    \/ \E c \in Calls : Call(c)
    \/ Tick

Spec == Init /\ [][Next]_vars

-----------------------------------------------------------------------------
(* Properties *)

\* The type of every variable.
TypeOK ==
    /\ users \in [Emails -> Registrations \cup {None}]
    /\ rpc \in [Registrations -> {"new", "hashed", "refused", "created", "conflict", "failed"}]
    /\ remail \in [Registrations -> Emails] /\ rpassword \in [Registrations -> Passwords]
    /\ lpc \in [Logins -> {"new", "asked", "found", "token", "unauthorized"}]
    /\ lemail \in [Logins -> Emails] /\ lpassword \in [Logins -> Passwords]
    /\ found \in [Logins -> Registrations \cup {None}]
    /\ token \in [Logins -> Registrations \cup {None}]
    /\ left \in [Logins -> 0 .. Ttl]
    /\ entitled \subseteq Logins
    /\ cpc \in [Calls -> {"idle", "sent", "stopped", "not_found", "forwarded",
                          "turned_away", "served"}]
    /\ path \in [Calls -> Paths] /\ bearer \in [Calls -> Logins \cup {None}]
    /\ faults \in Nat

\* Whatever else is registered, retried or fails, who was answered 201 keeps the
\* account and its password, who was answered 409 was beaten by another request, not
\* by itself, and who was answered 400 left nothing.
AnswersAreTrue ==
    \A r \in Registrations :
        LET account == users[remail[r]] IN
        /\ rpc[r] = "created" => account = r
        /\ rpc[r] = "conflict" => account \notin {None, r}
        /\ rpc[r] = "refused" => account # r

\* A token names the account that still has the address and the password that were
\* given for it.
TokensAreEarned ==
    \A l \in Logins :
        token[l] # None =>
            /\ token[l] = users[lemail[l]]
            /\ remail[token[l]] = lemail[l] /\ rpassword[token[l]] = lpassword[l]

\* Whoever had an account before logging in, and gives its password, is let in, unless
\* the database fails, which Login answers as it does a wrong password.
PasswordsOpen ==
    \A l \in Logins : lpc[l] = "unauthorized" /\ l \in entitled => faults > 0

\* The routing table and the services agree on what needs a token: a service turns a
\* call away that the gateway forwarded only if its token expired on the way, or if
\* its short code is "urls", which the gateway takes for a redirect.
GatewayVouches ==
    \A c \in Calls :
        cpc[c] = "turned_away" =>
            \/ bearer[c] # None /\ left[bearer[c]] = 0
            \/ path[c] = "redirect_to_urls"

\* A handler that acts for a user serves only calls that came with a token, though
\* the gateway forwards GET /r/urls without one.
ServedAsSomebody ==
    \A c \in Calls :
        cpc[c] = "served" /\ Handler(path[c]) \in ActsForUser
            => bearer[c] # None /\ token[bearer[c]] # None

=============================================================================
