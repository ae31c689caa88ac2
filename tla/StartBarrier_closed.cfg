SPECIFICATION Safety
CONSTANTS
    Worker = {w1, w2}
    Writer = {w1, w2}
    IdConfigured = FALSE
    MaxDials = 2
    MaxRestarts = 0
    MaxBrokerCrashes = 1
    Faults = {"broker"}
INVARIANTS
    StartNeedsSignal
CHECK_DEADLOCK FALSE
