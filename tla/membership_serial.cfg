\* One request at a time, crashes included; the users endpoints may write any row.
CONSTANTS
    User = {owner, u1}
    Owner = owner
    Role = {"ADMIN", "USER"}
    Request = {r1}
    UserAdminTargets = {owner, u1}
SPECIFICATION Spec
INVARIANTS
    InvitedHasOffer
PROPERTIES
    SerialLifecycle
