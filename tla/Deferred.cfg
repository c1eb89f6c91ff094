SPECIFICATION Spec
CONSTANTS
    D = {d1, d2}
    PoolSize = 2
INVARIANTS
    TypeOK
    SettleMatchesOutcome
    SettledOnceUnlessFallback
    ResultFreedOnce
    RefsCounted
    NoWorkAfterRuntimeFreed
PROPERTY WorkEnds
CHECK_DEADLOCK FALSE
