SPECIFICATION Spec
CONSTANTS
    Worker = {w1}
    MaxPosts = 1
INVARIANT OneThreadPerContext
CHECK_DEADLOCK FALSE
