SPECIFICATION Spec
CONSTANTS
    w1 = w1
    w2 = w2
    p1 = p1
    p2 = p2
    Worker = {w1, w2}
    KeyOf <- OneKey
    Peer = {p1, p2}
    OperationsPerStream = 2
    MaxFaults = 1
SYMMETRY Symmetry
INVARIANTS
    TypeOK
    SuccessesServed
PROPERTIES
    WritesAreSessions
