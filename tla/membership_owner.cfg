\* The users and rbac endpoints are free to aim at the owner's row.
CONSTANTS
    User = {owner, u1}
    Owner = owner
    Role = {"ADMIN", "USER"}
    Request = {r1}
    UserAdminTargets = {owner}
SPECIFICATION Spec
INVARIANTS
    OwnerIsProtected
