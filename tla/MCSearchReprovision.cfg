\* Two runs, up to two writes before, between or during them, one fault, and
\* the removal of one lock.
CONSTANTS
    Entities = {e1}
    Workers = {w1, w2}
    BatchSize = 1
    MaxVersion = 2
    MaxEchoes = 0
    MaxFaults = 1
    Runs = {r1, r2}
    MaxKills = 1
SPECIFICATION RSpec
SYMMETRY Symmetry
INVARIANTS
    HeldOnce
    QuietRebuilt
    SingleUnlessKilled
CHECK_DEADLOCK FALSE
