SPECIFICATION Spec
CONSTANTS
    Peer = {"p0", "p1"}
    Policies = {"Never", "OnFailure"}
    BackoffLimit = 2
    MaxChanges = 2
    MaxFetchFailures = 1
    Faults = {"killWorker", "killUpdater"}
INVARIANTS
    TypeOK
    FeedAlive
PROPERTIES
    ProfileReachesFirstWorker
    PodEnds
