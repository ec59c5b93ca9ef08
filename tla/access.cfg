\* Two requests in the middleware, one handler that writes.
CONSTANTS
    Role = {"ADMIN", "USER"}
    OnlyRole = "USER"
    Reader = {q1, q2}
    Writer = {w1}
    TenantTTL = 2
    MemberTTL = 1
SPECIFICATION MCSpec
INVARIANTS
    TypeOK
    StaleHasCause
    AdmissionIsCurrent
PROPERTIES
    EventuallyCoherent
