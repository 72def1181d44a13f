\* Two entities with three writes in all, two workers, batches of two, with one
\* fault and one unlocked read.
CONSTANTS
    Entities = {e1, e2}
    Workers = {w1, w2}
    BatchSize = 2
    MaxVersion = 3
    MaxEchoes = 1
    MaxFaults = 1
SPECIFICATION Spec
SYMMETRY Symmetry
INVARIANTS
    TypeOK
    ClaimExclusive
    Covered
    InSync
    OrphansNeedFault
PROPERTY
    ImplementsIndex
CONSTRAINT FewWrites
CHECK_DEADLOCK FALSE
