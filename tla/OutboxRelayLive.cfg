\* Two replicas and two rows, two faults: rows are published, coordinators return.
CONSTANTS
    NumEvents = 2
    Replicas = {k1, k2}
    Workers = {w1}
    BatchSize = 1
    MaxFaults = 2
    MaxDrops = 0
SPECIFICATION FairSpec
PROPERTIES
    RelayIsFair
    CoordinatorsReturn
