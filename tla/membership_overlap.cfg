\* Two overlapping requests on one member, with the users endpoints at work.
CONSTANTS
    User = {owner, u1}
    Owner = owner
    Role = {"ADMIN", "USER"}
    Request = {r1, r2}
    UserAdminTargets = {u1}
SPECIFICATION Spec
SYMMETRY Slots
INVARIANTS
    TypeOK
    OwnerKeepsSeat
    RoleWasGranted
    TablesAgree
PROPERTIES
    SuspensionLasts
