\* One replica of each consumer, two clicks, the creation and the deletion of a link,
\* and an event of a link nobody can be mailed about.
CONSTANTS
    Events = {e1, e2}
    Malformed = {}
    Nothing = Nothing
    Consumers = {c}
    Thresholds = {2}
    Repeated = {}
    MaxFaults = 1
    MaxDrops = 1
    Tellers = {t}
    LinkEvents = {created, deleted, noMail}
    Unusable = {noMail}
SPECIFICATION PipeSpec
INVARIANTS
    RepetitionsCostFaults
PROPERTIES
    CountsOnce
    EventsAreHandled
    PhantomsComeTrue
CHECK_DEADLOCK FALSE
