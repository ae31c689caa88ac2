SPECIFICATION Spec
CONSTANTS
    c1 = c1
    c2 = c2
    s1 = s1
    s2 = s2
    Call = {c1}
    Scrape = {s1}
    Elapsed = {1}
    MaxLives = 1
INVARIANTS
    ShutdownIsNotKilled
