\* Requests end, though their transactions, two deletions among them, wait for
\* one another.
CONSTANTS
    Codes <- OneCode
    Urls = {u1}
    Users = {alice}
    Shorteners = {s1, s2}
    Visitors = {v1}
    Deleters = {d1, d2}
    Base = 2
    CodeLength = 2
    Draws = 5
SPECIFICATION FairSpec
INVARIANTS
    EventsMatchRows
PROPERTIES
    RequestsEnd
CHECK_DEADLOCK FALSE
