SPECIFICATION Spec
CONSTANTS
    Worker = {"w1", "w2", "w3"}
    Prompted = {FALSE}
    MaxApiFailures = 0
    Faults = {}
INVARIANTS
    ResultsComplete
