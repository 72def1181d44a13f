SPECIFICATION FairSpec
CONSTANTS
    q1 = q1
    q2 = q2
    Objects = {1, 2}
    Requests = {q1, q2}
    Does <- DoesDef
    MaxVersion = 3
    MaxUpsets = 1
INVARIANTS
    TypeOK
    SucceededIsReal
    OneInProgress
    ImageFromNewest
    UserImageKept
    CancelStops
PROPERTIES
    NeverReopened
    InProgressEnds
CHECK_DEADLOCK FALSE
