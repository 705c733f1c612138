\* A profile is filled in and edited beside the worker, roles and failures.
SPECIFICATION FairSpec
CONSTANTS
    n1 = n1
    n2 = n2
    NoName = NoName
    Names = {n1, n2}
    Telegram = TRUE
    Starts <- MCStarts
    MaxEdits = 1
    MaxQueue = 1
    MaxGrants = 1
    MaxFailures = 1
INVARIANTS
    AnswersHaveTheirContext
    PassIsValid
    RoleIsKept
PROPERTIES
    RowFollowsProfile
