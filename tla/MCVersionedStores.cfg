CONSTANTS
    q1 = q1
    q2 = q2
    r1 = r1
    r2 = r2
    c1 = c1
    l1 = l1
    Opener = {p1, p2}
    OldVersions = {5, 13}
    OpeningsOverlap = FALSE
    Version = {1}
    FamilyContents <- Families
    PlanContents <- Declarations
    FirstSeen <- Sightings
    Run <- Runs
    QueryOf <- Asks
    ContextOf <- InContext
    Contexts <- Clean
    Guard = 1
    MaxAge = 1
    MaxTime = 3
SYMMETRY Symmetry
SPECIFICATION Spec
INVARIANTS
    EntriesStayReadable
    PlansPrecedeEvidence
PROPERTIES
    EntriesAreWrittenOnce
