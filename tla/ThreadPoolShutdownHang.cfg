SPECIFICATION Spec
CONSTANTS
    Worker = {w1, w2}
    Client = {c1}
    Closer = closer
    Task   = {t1}
    None   = none
PROPERTY ShutdownReturns
