SPECIFICATION Spec
CONSTANTS
    Producer = {p1, p2}
    Callback = {a, b, c, d}
INVARIANTS
    TypeOK
    FifoOnce
    NoStrandedCallback
PROPERTY QueuedIsExecuted
