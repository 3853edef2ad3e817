CONSTANTS
    N = 2
    Tag = {t1, t2}
    Artifacts = 2
    MaxCommits = 3
    MaxFaults = 2
SPECIFICATION FairSpec
INVARIANTS
    PublishedEvidenceIsWhole
PROPERTIES
    EvidenceIsCreateOnly
    SuccessMeansArchived
    RerunsCompleteTheCatalog
CHECK_DEADLOCK FALSE
