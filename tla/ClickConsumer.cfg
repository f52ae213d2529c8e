\* Two replicas, four clicks, one of which arrives twice, and a malformed event.
CONSTANTS
    Events = {e1, e2, e3, e4, bad}
    Malformed = {bad}
    Nothing = Nothing
    Consumers = {c1, c2}
    Thresholds = {2, 3}
    Repeated = {e1}
    MaxFaults = 1
    MaxDrops = 1
SPECIFICATION Spec
SYMMETRY ReplicaSymmetry
INVARIANTS
    ProcessedIsCounted
    NothingIsLost
    CountedOncePerConsumer
    MilestonesKeepUp
    AnnouncementsCostFaults
    SomeoneRuns
CHECK_DEADLOCK FALSE
