CONSTANTS
    p1 = p1
    p2 = p2
    l1 = l1
    l2 = l2
    d1 = d1
    d2 = d2
    n1 = n1
    n2 = n2
    m1 = m1
    None = None
    Process <- Processes
    Listing <- Listings
    Developer <- Developers
    Response <- Responses
    Instant <- WholeSeconds
    MaxSnapshots = 3
SYMMETRY Symmetry
SPECIFICATION Spec
INVARIANTS
    IdentityMatchesHistory
    ObservationsAreWhole
PROPERTIES
    HistoryIsKept
