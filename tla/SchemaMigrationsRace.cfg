CONSTANTS
    Opener = {p1, p2}
    OldVersions = {0}
    OpeningsOverlap = TRUE
SPECIFICATION SchemaSpec
INVARIANTS
    DatabaseStaysUsable
