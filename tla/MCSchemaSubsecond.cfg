CONSTANTS
    p1 = p1
    p2 = p2
    s1 = s1
    s2 = s2
    Process <- OneProcess
    Scope <- Scopes
    Body <- Bodies
    TicksPerSecond = 2
    Elapsed <- HalfSeconds
    MaxSnapshots = 2
    MaxAnalyses = 3
SPECIFICATION Spec
INVARIANTS
    BaselinesAreEarlier
