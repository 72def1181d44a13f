\* Two requests, two groups, one fault, and one relationship looked at by the repair task.
CONSTANTS
    Requests = {r1, r2}
    Users = {alice, bob}
    UserNamespaces = {n1}
    GroupNamespaces = {g1, g2}
    MaxRepairs = 1
    MaxFaults = 1
SPECIFICATION Spec
SYMMETRY Symmetry
INVARIANTS
    TypeOK
    NoLostPatch
    HasAuthz
    KeepsOwner
    VisibilityAgrees
    NothingLeft
    UndoRestores
CHECK_DEADLOCK FALSE
