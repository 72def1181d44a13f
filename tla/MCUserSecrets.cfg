SPECIFICATION Spec
CONSTANTS
    q1 = q1
    q2 = q2
    Secrets = {1, 2, 3}
    Requests = {q1, q2}
    BatchSize = 1
    MaxWrites = 3
    MaxRestarts = 1
INVARIANTS
    TypeOK
    OpensWithKey
    ValueKept
    RotationComplete
CHECK_DEADLOCK FALSE
