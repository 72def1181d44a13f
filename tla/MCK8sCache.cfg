SPECIFICATION CacheFairSpec
CONSTANTS
    a = a
    b = b
    q1 = q1
    q2 = q2
    Objects = {a}
    Requests = {q1, q2}
    MaxVersion = 4
    MaxRequests = 3
    MaxFaults = 2
INVARIANTS
    CacheTypeOK
    WatchedIsAccurate
    DraftHasRequest
PROPERTIES
    ImplementsView
CHECK_DEADLOCK FALSE
