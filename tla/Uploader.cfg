\* Every invocation ends within six minutes of its staging.
SPECIFICATION Spec
\* The jobs end, or the platform gives them up.
CHECK_DEADLOCK FALSE
CONSTANTS
    JobCount = 3
    Overwriting = {2, 3}
    Mirrored = {2}
    Called = {1, 2}
    Attempts = 2
    Deliveries = 2
    Late = FALSE
    MaxFailures = 2
INVARIANTS
    OneReplacementAtATime
    MarkerIsOnDisk
    SuccessMeansUploaded
