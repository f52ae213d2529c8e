\* Eight requests of a client that may make two in two ticks; Redis loses the key once.
CONSTANTS
    Requests = {r1, r2, r3, r4, r5, r6, r7}
    Limit = 2
    Window = 2
    MaxFaults = 1
    MaxEvictions = 1
SPECIFICATION FairSpec
INVARIANTS
    BurstsAreBounded
    CounterExpires
PROPERTIES
    ClientsAreLetIn
