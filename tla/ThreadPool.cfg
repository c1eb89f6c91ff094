SPECIFICATION Spec
CONSTANTS
    Worker = {w1, w2}
    Client = {c1, c2}
    Closer = closer
    Task   = {t1, t2, t3}
    None   = none
INVARIANTS
    TypeOK
    PendingAccounted
    NoStrandedTask
    ShutdownDrains
    NoSleeperAfterClose
PROPERTIES
    AcceptedCompletes
    WorkersTerminate
    ShutdownNowReturns
    ImplementsService
