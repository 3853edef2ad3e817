CONSTANTS
    p1 = p1
    p2 = p2
    s1 = s1
    s2 = s2
    Process <- Processes
    Scope <- Scopes
    Body <- Bodies
    TicksPerSecond = 2
    Elapsed <- UpToASecond
    MaxSnapshots = 3
    MaxAnalyses = 3
SYMMETRY Symmetry
SPECIFICATION Spec
INVARIANTS
    DriftIsActedOn
PROPERTIES
    AnalysesAreFinal
