\* Three concurrent calls, any of which may panic, of a breaker that trips at two
\* failures, so that the third may still be on its way.
CONSTANTS
    Callers = {a, b, c}
    MaxFailures = 2
    CanPanic = TRUE
SPECIFICATION FairSpec
INVARIANTS
    FailuresAreBounded
PROPERTIES
    TransitionsAreLegal
    OnlyAPanicLocks
    OpenEndsInProbe
