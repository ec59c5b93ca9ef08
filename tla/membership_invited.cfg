\* createInvite overlaps addMember on the same user.
CONSTANTS
    User = {owner, u1}
    Owner = owner
    Role = {"ADMIN", "USER"}
    Request = {r1, r2}
    UserAdminTargets = {}
SPECIFICATION Spec
PROPERTIES
    OnlyRemovedBecomesInvited
