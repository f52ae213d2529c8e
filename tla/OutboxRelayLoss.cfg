\* A message that leaves the channel and reaches no queue.
CONSTANTS
    NumEvents = 1
    Replicas = {k1}
    Workers = {w1}
    BatchSize = 1
    MaxFaults = 0
    MaxDrops = 0
SPECIFICATION Spec
INVARIANTS
    PublishedIsStored
