\* The per-game FIFO group: multi-step operations, failed attempts and retries.
SPECIFICATION Spec
CONSTANTS
    Players = {1, 2, 3}
    OperationIds <- MCOperationIds
    NoOperation = 0
    Events <- MCEvents
    Linked = {}
    Conflicts = {}
    Kinds <- MCKinds
    Amounts = {1, 2}
    StartRows <- MCStartRows
    StartStatus = "created"
    Times <- MCTimes
    Clock = {0, 3}
    MaxOps = 2
    MaxCrashes = 1
INVARIANTS
    AppliedIsNeverRefused
PROPERTIES
    MovesAreTold
    ImplementsRoster
