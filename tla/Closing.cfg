\* Planned stages beside plans, commands of masters and failures.
\* The model ends with its hours and commands.
SPECIFICATION FairSpec
CHECK_DEADLOCK FALSE
CONSTANTS
    m1 = m1
    m2 = m2
    Masters = {m1, m2}
    Editors = {m1}
    MasterKinds = {"register", "confirm", "close", "archive", "unarchive"}
    MaxTime = 2
    MaxEdits = 1
    MaxCommands = 1
    MaxFailed = 1
PROPERTIES
    BegunClosingIsFixed
    CancelledClosingClosesNothing
    CompletionIsComplete
    BegunClosingCompletes
