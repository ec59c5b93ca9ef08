\* Two overlapping requests, two keys of settings.
CONSTANTS
    Request = {r1, r2}
    MayFail = TRUE
    Key = {k1, k2}
    Nothing = Nothing
    Event = {"audit", "email", "notification"}
    MaxDisturbances = 2
SPECIFICATION MCSpec
INVARIANTS
    TypesOK
    StaleCopyHasCause
    SettingsAreKept
    AtMostOneEntry
PROPERTIES
    DrainedExit
    EventuallyFresh
    EventuallySettled
CHECK_DEADLOCK FALSE
