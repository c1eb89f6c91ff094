SPECIFICATION Spec
CONSTANTS
    JsFile = {f}
    Native = {n}
    Bare = {b}
    MaxLoads = 1
SYMMETRY Symmetry
INVARIANT RequireReturnsExports
CHECK_DEADLOCK FALSE
