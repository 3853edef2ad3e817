CONSTANTS
    q1 = q1
    q2 = q2
    f1 = f1
    Item <- Items
    FamilyOf <- OneFamily
    TextOf <- OwnText
    PageLimit = 2
    MaxAttempts = 2
    QueryWorkers = 1
    ClockStepsBack = TRUE
    MaxTime = 2
    MaxInvocations = 1
    MaxDamage = 0
    MaxRuns = 4
    MaxSnapshots = 2
SPECIFICATION Spec
PROPERTIES
    EndedRunsAreTerminal
