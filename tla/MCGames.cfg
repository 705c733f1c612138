\* Confirmations beside the commands of two conflicting games.
SPECIFICATION Spec
CONSTANTS
    a = a
    b = b
    Players = {1, 2}
    OperationIds <- MCOperationIds
    NoOperation = 0
    Events <- MCEvents
    Linked = {}
    Conflicts <- MCConflicts
    Kinds = {"confirm", "enlist", "archive", "delete", "sift"}
    Amounts = {1}
    StartRows <- MCRivals
    StartStatus = "confirmation_open"
    Times <- MCTimes
    Clock = {0}
    MaxOps = 3
    MaxCrashes = 0
INVARIANT OneConfirmedPerDate
PROPERTIES
    ConfirmedKeepsMainPlace
    ConfirmedNeverOvertaken
SYMMETRY MCSymmetry
