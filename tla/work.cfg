\* One task, one entry, two users, two overlapping requests.
CONSTANTS
    Request = {r1, r2}
    MayFail = TRUE
    Status = {"TODO", "IN_PROGRESS", "DONE"}
    DueDate = {d1, d2}
    Null = Null
    Keep = Keep
    Body <- OneColumn
    User = {u1, u2}
    MaxMinute = 1
SPECIFICATION MCSpec
SYMMETRY Exchangeable
INVARIANTS
    TypesOK
    DatesFollowStatus
    RecordsAgree
    TimelineFollowsTeam
    MentionsAreTold
    MinutesFollowDates
PROPERTIES
    StopIsKept
CHECK_DEADLOCK FALSE
