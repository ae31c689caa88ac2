SPECIFICATION Spec
CONSTANTS
    Worker = {w1, w2}
    Writer = {w1}
    IdConfigured = TRUE
    MaxDials = 1
    MaxRestarts = 1
    MaxBrokerCrashes = 1
    Faults = {"init", "crash", "broker"}
INVARIANTS
    TypeOK
    Barrier
    RegistrationAccounting
    StartReachesRegistered
    NoEarlyStart
PROPERTIES
    ImplementsGate
    BenchmarkEnds
    ConsumerDecides
CHECK_DEADLOCK FALSE
