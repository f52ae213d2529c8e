\* Two registrations, perhaps of one address or with too long a password, two logins, and a client.
CONSTANTS
    Registrations = {r1, r2}
    Logins = {l1, l2}
    Calls = {c}
    Emails = {a, b}
    Passwords = {p, q, long}
    Hashable = {p, q}
    None = None
    Ttl = 2
    MaxFaults = 1
SPECIFICATION Spec
SYMMETRY NameSymmetry
INVARIANTS
    AnswersAreTrue
    TokensAreEarned
    PasswordsOpen
    GatewayVouches
    ServedAsSomebody
CHECK_DEADLOCK FALSE
