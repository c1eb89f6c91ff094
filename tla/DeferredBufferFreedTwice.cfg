SPECIFICATION Spec
CONSTANTS
    D = {d1}
    PoolSize = 1
INVARIANT BufferFreedByFinalizer
CHECK_DEADLOCK FALSE
