CONSTANTS
    Runner = runner
    Nobody = nobody
    Resumers = {r1, r2}
SYMMETRY Symmetry
SPECIFICATION Spec
INVARIANTS
    OneCollector
    ArtifactIsWhole
PROPERTIES
    EvidenceOutlivesFailures
