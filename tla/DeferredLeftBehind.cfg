SPECIFICATION Spec
CONSTANTS
    D = {d1}
    PoolSize = 1
PROPERTY CallbacksAwaited
CHECK_DEADLOCK FALSE
