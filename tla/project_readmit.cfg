\* One request at a time, which fails only where a check refuses it.
CONSTANTS
    User = {u1, u2}
    Creator = u1
    Request = {r1}
    MayFail = FALSE
SPECIFICATION Spec
PROPERTIES
    ReaddingReactivates
CHECK_DEADLOCK FALSE
