\* Two replicas, whose batches hold two rows, share them under two faults and a broken channel.
CONSTANTS
    NumEvents = 2
    Replicas = {k1, k2}
    Workers = {w1, w2}
    BatchSize = 2
    MaxFaults = 2
    MaxDrops = 1
SPECIFICATION Spec
SYMMETRY PoolSymmetry
INVARIANTS
    DuplicatesCostFaults
PROPERTIES
    RelayIsSafe
