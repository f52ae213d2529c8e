\* Two shortenings race a deletion and a redirect for one or two codes.
CONSTANTS
    Codes <- TwoCodes
    Urls = {u1}
    Users = {alice, bob}
    Shorteners = {s1, s2}
    Visitors = {v1}
    Deleters = {d1}
    Base = 3
    CodeLength = 3
    Draws = 64
SPECIFICATION Spec
SYMMETRY RequestSymmetry
INVARIANTS
    TypeOK
    CopiesAgree
    VisitorsReachThePromise
    EventsMatchRows
    RefusalsLeaveNothing
    StoredCodesReadBack
PROPERTIES
    ExpiredIsNotServed
    RowsOnlyEnd
    PromisedCodesAreFound
CHECK_DEADLOCK FALSE
