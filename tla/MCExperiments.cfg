CONSTANTS
    l1 = l1
    l2 = l2
    q1 = q1
    Archives <- MCArchives
    Depths <- PageDepths
    TrialRequests <- MCTrials
    BlockRequests <- MCBlocks
    MinTrials = 3
    MinBlocks = 2
    MinPerOrder = 1
    MinSpan = 50
    MinHours = 2
    Hour = 60
    MaxBlockSpan = 5
    MaxReports = 2
    Listing = {l1, l2}
    Queries = {q1}
    AuditManifests <- MCManifests
    Histories <- MCHistories
    Backfills <- MCBackfills
    Intervals = {1, 2, 3}
    MinSeries = 2
    MaxEvidenceAge = 120
    Day = 1440
    MinSpacing = 1320
    MaxSpacing = 1560
    MaxBand = 120
SPECIFICATION ExperimentSpec
INVARIANTS
    VerdictsFollowTheEvidence
    VerdictsHoldForMost
    CitationsHold
    CadenceFitsEverySignal
CHECK_DEADLOCK FALSE
