\* One request at a time, none of which fails or is cut short.
CONSTANTS
    Request = {r1}
    MaxTime = 3
    MaxPassword = 1
    Life = 2
    MayFail = FALSE
SPECIFICATION SessionSpec
PROPERTIES
    RefreshIssues
