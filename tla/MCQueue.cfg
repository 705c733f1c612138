\* The order of the groups and the progress of their commands, with failures of every kind.
SPECIFICATION FairSpec
\* The commands are finitely many: the system rests when nothing is left to wake it.
CHECK_DEADLOCK FALSE
CONSTANTS
    c1 = c1
    c2 = c2
    c3 = c3
    w1 = w1
    w2 = w2
    game = game
    profile = profile
    Commands = {c1, c2, c3}
    Groups = {game, profile}
    GroupOf <- MCGroupOf
    Background = {profile}
    Workers = {w1, w2}
    BatchSize = 2
    TriggerBatch = 2
    StaleCounters = FALSE
    MaxFailures = 1
INVARIANTS
    BacklogKeepsWakeup
PROPERTIES
    ImplementsGroups
    EveryCommandApplied
