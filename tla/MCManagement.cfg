\* An administrator and a master in their dialogues, beside the worker.
\* The model ends with the actors' messages.
SPECIFICATION FairSpec
CHECK_DEADLOCK FALSE
CONSTANTS
    ada = ada
    max = max
    tom = tom
    vic = vic
    p1 = p1
    p2 = p2
    g1 = g1
    Profiles = {ada, max, tom, vic}
    People <- MCPeople
    Admins = {ada}
    Masters = {ada, max}
    Players = {p1, p2}
    NoOne = NoOne
    Games = {g1}
    NoGame = NoGame
    Starts <- MCStarts
    MaxMessages = 3
    MaxFailures = 1
    MaxMoves = 1
INVARIANTS
    TokenConfirmsItsTarget
    RoleChangeIsTold
    RevokedEverywhere
PROPERTIES
    OnlyMastersChangeGames
    UnarchivedIsKept
    AnsweredUnlessUndone
