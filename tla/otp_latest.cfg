\* One request at a time: a wrong guess renews the code but not its pointer.
CONSTANTS
    Code = {c1, c2, c3}
    NoCode = NoCode
    Request = {r1}
    MayFail = FALSE
    TTL = 2
    Cooldown = 1
    MaxAttempts = 2
    MaxResend = 1
SPECIFICATION Spec
PROPERTIES
    LatestCodeOnly
