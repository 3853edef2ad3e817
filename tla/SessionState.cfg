CONSTANTS
    Process = {p1}
    MaxSessions = 4
    MaxInodes = 8
    MaxTime = 2
SPECIFICATION Spec
INVARIANTS
    CohortIsOneProfile
PROPERTIES
    IdentityChangesOnlyByReset
    ProfileStaysUsable
