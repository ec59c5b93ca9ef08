\* Three users, two of them employees of two departments, two permissions, two
\* overlapping requests.
\* Sessions: three seconds, two changes of the password.
CONSTANTS
    User = {u1, u2, u3}
    Creator = u1
    Employee = {u2, u3}
    Department = {d1, d2}
    Other = d2
    Nowhere = Nowhere
    Permission = {p1, p2}
    NoPermission = NoPermission
    Request = {r1, r2}
    MayFail = TRUE
    MaxTime = 3
    MaxPassword = 2
    Life = 2
SPECIFICATION MCSpec
SYMMETRY Exchangeable
INVARIANTS
    TypesOK
    OwnerRowRemains
    ActiveOwnerRemains
    ManagerStaysMember
    HomeHasRow
    RoleIsAsWanted
    AnswerHeld
    SessionTypeOK
    OldSessionHasCause
    OneHeir
CHECK_DEADLOCK FALSE
