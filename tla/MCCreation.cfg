\* The creation of a game, from the first question to the last completion.
\* The dialogue may be left and the creation ends.
SPECIFICATION Spec
CHECK_DEADLOCK FALSE
CONSTANTS
    x = x
    Self = Self
    None = None
    People = {x}
    Dates = {1}
    Times = {1, 2, 3, 4}
    MaxPlayers = 2
    Starts <- MCStarts
    Backends = {"ydb", "dynamodb"}
    Mirrors = {TRUE, FALSE}
    Ids = {1, 2, 3}
INVARIANTS
    PlanInOrder
    OneGamePerDialogue
    MasterIsTold
PROPERTIES
    CreationIsSettled
