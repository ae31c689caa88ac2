SPECIFICATION Spec
CONSTANTS
    Job = {"up", "down"}
    Up = {"up"}
    Manual = {"down"}
    MaxPeers = 3
    MaxFailures = 1
    Faults = {"kill", "lostReply", "keptLease"}
INVARIANTS
    TypeOK
    MutualExclusion
    ConsistentWhenFree
    ReplicasSuffice
    OnePeerAtATime
    DamageIsBounded
PROPERTIES
    ScalingIsSerial
    LockIsFreed
