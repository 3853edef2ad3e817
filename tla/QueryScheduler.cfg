CONSTANTS
    N = 5
    Workers = 3
SPECIFICATION FairSpec
INVARIANTS
    EveryFutureIsDeliveredOnce
PROPERTIES
    FirstFailureIsKept
    BatchSpec
    CallEnds
