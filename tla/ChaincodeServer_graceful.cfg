SPECIFICATION Spec
CONSTANTS
    c1 = c1
    c2 = c2
    s1 = s1
    s2 = s2
    Call = {c1, c2}
    Scrape = {s1, s2}
    Elapsed = {1, 2}
    MaxLives = 2
INVARIANTS
    TypeOK
    AnsweredIsRecorded
    GracefulExit
PROPERTIES
    ServerEnds
