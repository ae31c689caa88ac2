SPECIFICATION Safety
CONSTANTS
    Job = {"up", "down"}
    Up = {"up"}
    Manual = {}
    MaxPeers = 3
    MaxFailures = 0
    Faults = {}
INVARIANTS
    ProfilePeersExist
