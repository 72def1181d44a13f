\* Two patches of the same row.
CONSTANTS
    Requests = {r1, r2}
    Users = {alice}
    UserNamespaces = {n1}
    GroupNamespaces = {}
    MaxRepairs = 0
    MaxFaults = 0
SPECIFICATION Spec
INVARIANT ReplacesMatchedRow
CHECK_DEADLOCK FALSE
