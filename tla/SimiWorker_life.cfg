SPECIFICATION WorkerSpec
CONSTANTS
    OperationsPerStream = 3
    OperationPeriod <- Periods
    MaxDuration = 2
    Duration = {0, 1, 3}
    NumWriters = {0, 1}
    Size <- Sizes
INVARIANTS
    WorkerTypeOK
    MeanInRange
    DurationsAreDisjoint
    PanicsAreConfigured
    SuccessIsComplete
    PointsAreOffered
