\* Batches of one, so that rows wait for each other; no faults.
CONSTANTS
    Entities = {e1, e2}
    Workers = {w1, w2}
    BatchSize = 1
    MaxVersion = 2
    MaxEchoes = 0
    MaxFaults = 0
SPECIFICATION FairSpec
PROPERTY StagedReachesIndex
CHECK_DEADLOCK FALSE
