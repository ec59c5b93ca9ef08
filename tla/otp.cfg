\* Two requests at a time, two codes in circulation.
CONSTANTS
    Code = {c1, c2}
    NoCode = NoCode
    Request = {r1, r2}
    MayFail = TRUE
    TTL = 2
    Cooldown = 1
    MaxAttempts = 2
    MaxResend = 1
SPECIFICATION Spec
INVARIANTS
    TypeOK
    TriesBounded
    SingleUse
    OneLiveCode
PROPERTIES
    NoLockout
