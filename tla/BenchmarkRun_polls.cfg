SPECIFICATION Spec
CONSTANTS
    Worker = {"w1", "w2", "w3"}
    Prompted = {TRUE, FALSE}
    MaxApiFailures = 2
    Faults = {"workerFails", "consumerDies", "podDeleted"}
INVARIANTS
    TypeOK
    FailureIsReal
    FailureIsReported
PROPERTIES
    LaunchEnds
