SPECIFICATION Spec
CONSTANTS
    JsFile = {f, g, h}
    Native = {n}
    Bare = {b}
    MaxLoads = 2
SYMMETRY Symmetry
INVARIANTS
    TypeOK
    CacheFollowsEvaluation
PROPERTY CompletedIsFinal
CHECK_DEADLOCK FALSE
