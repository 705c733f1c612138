\* Every operation of one game's queue, applied atomically.
SPECIFICATION RosterSpec
CONSTANTS
    Players <- MCPlayers
    OperationIds <- MCOperationIds
    NoOperation = 0
    Times <- MCTimes
    Amounts <- MCAmounts
    StartRows <- MCStartRows
PROPERTIES
    ConfirmedNeverOvertaken
    ConfirmedKeepsMainPlace
