\* One player's messages beside masters, the worker and failures.
\* The model ends with the player's messages.
SPECIFICATION FairSpec
CHECK_DEADLOCK FALSE
CONSTANTS
    g1 = g1
    g2 = g2
    NoGame = NoGame
    Games = {g1, g2}
    Questions = {g2}
    Lists = {"list:enlist", "list:cancel"}
    Starts <- MCStarts
    Slots = {1, 2}
    MasterMoves = {"open", "postpone", "confirmation", "close", "archive", "unarchive", "delete"}
    MaxMessages = 2
    MaxMoves = 1
    MaxFailures = 1
INVARIANTS
    DialogueHasItsContext
    ReplacementWasAsked
    AcceptedIsPublished
    OldButtonIsNotAWish
PROPERTY AnsweredOrWithdrawn
