\* One entity and one worker are enough to lose an update.
CONSTANTS
    Entities = {e1}
    Workers = {w1}
    BatchSize = 1
    MaxVersion = 2
    MaxEchoes = 0
    MaxFaults = 0
SPECIFICATION Spec
PROPERTY RemovedOnlyIfProcessed
CHECK_DEADLOCK FALSE
