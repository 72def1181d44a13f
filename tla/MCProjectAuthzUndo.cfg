\* One request that nothing disturbs.
CONSTANTS
    Requests = {r1}
    Users = {alice}
    UserNamespaces = {n1}
    GroupNamespaces = {g1}
    MaxRepairs = 0
    MaxFaults = 0
SPECIFICATION Spec
INVARIANT UndoIsNoOp
CHECK_DEADLOCK FALSE
