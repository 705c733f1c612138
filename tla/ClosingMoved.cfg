\* A master moves the closing while it begins.
SPECIFICATION FairSpec
CHECK_DEADLOCK FALSE
CONSTANTS
    m1 = m1
    m2 = m2
    Masters = {m1, m2}
    Editors = {m1}
    MasterKinds = {}
    MaxTime = 2
    MaxEdits = 1
    MaxCommands = 0
    MaxFailed = 0
PROPERTY MovedClosingCompletes
