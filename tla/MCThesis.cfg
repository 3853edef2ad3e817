CONSTANTS
    t1 = t1
    t2 = t2
    q1 = q1
    q2 = q2
    q3 = q3
    Runs = {1, 2, 3}
    Suite <- MCSuite
    Scope <- MCScope
    Members <- MCMembers
    Queries <- MCQueries
    FoundBy <- MCFoundBy
    FirstPublished <- MCFirstPublished
    Offered <- MCOffered
    Sporadic = {1}
    Policy <- MCPolicy
    Digest <- MCDigest
    Opinion <- MCOpinion
    BatchSize = 2
    MaxNow = 4
    MaxFaults = 2
    MaxInvocations = 2
    MaxReviews = 1
    MaxBuilds = 1
    MaxPriors = 2
SPECIFICATION ThesisSpec
INVARIANTS
    VelocityIsMeasured
    EvidenceIsOfTheLastAttempt
    ReviewsBindTheirEvidence
    ArtifactsReproduce
    AcceptedInputsAreBuilt
CHECK_DEADLOCK FALSE
