SPECIFICATION Spec
CONSTANTS
    Peer = {"p0", "p1"}
    Policies = {"OnFailure"}
    BackoffLimit = 1
    MaxChanges = 2
    MaxFetchFailures = 1
    Faults = {}
PROPERTIES
    ProfileReachesWorker
