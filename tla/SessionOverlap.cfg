CONSTANTS
    Process = {p1, p2}
    MaxSessions = 2
    MaxInodes = 4
    MaxTime = 1
SPECIFICATION Spec
PROPERTIES
    IdentityChangesOnlyByReset
