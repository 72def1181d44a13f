CONSTANTS
    Entities = {e1}
    Workers = {w1}
    BatchSize = 1
    MaxVersion = 1
    MaxEchoes = 0
    MaxFaults = 0
    Runs = {r1, r2}
    MaxKills = 1
SPECIFICATION RSpec
INVARIANT OnlyOneRun
CHECK_DEADLOCK FALSE
