\* Overlapping calls of the repositories on DynamoDB.
\* Calls end, and calls of a game that was never created do not begin.
SPECIFICATION Spec
CHECK_DEADLOCK FALSE
CONSTANTS
    e1 = e1
    e2 = e2
    p1 = p1
    p2 = p2
    t1 = t1
    t2 = t2
    h1 = h1
    h2 = h2
    o1 = o1
    o2 = o2
    c1 = c1
    c2 = c2
    c3 = c3
    Games = {e1, e2}
    People = {p1, p2}
    Tokens = {t1, t2}
    Chats = {h1, h2}
    Operations = {o1, o2}
    None = None
    Process = {c1, c2, c3}
    EventCalls <- MCEventCalls
    Workloads <- MCWorkloads
    Stores <- MCStores
    Attempts = 2
    MaxActions = 4
INVARIANTS
    ValuesAreUnique
PROPERTIES
    NoLostUpdate
    ImplementsMemory
SYMMETRY MCSymmetry
