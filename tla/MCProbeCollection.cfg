CONSTANTS
    q1 = q1
    q2 = q2
    f1 = f1
    Item <- Items
    FamilyOf <- OwnFamily
    TextOf <- OwnText
    PageLimit = 2
    MaxAttempts = 2
    QueryWorkers = 2
    ClockStepsBack = FALSE
    MaxTime = 1
    MaxInvocations = 2
    MaxDamage = 1
    MaxRuns = 3
    MaxSnapshots = 2
SYMMETRY Symmetry
SPECIFICATION Spec
INVARIANTS
    TypeOK
    EvidenceIsCited
    OnlyCompletedRunsAreSelected
PROPERTIES
    StoredEvidenceIsFinal
    OnlyMissingQueriesAreCollected
    EndedRunsAreTerminal
