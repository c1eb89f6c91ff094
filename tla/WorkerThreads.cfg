SPECIFICATION Spec
CONSTANTS
    Worker = {w1, w2}
    MaxPosts = 1
INVARIANTS
    TypeOK
    ReportsMatchThread
    MessagesUseLiveContext
PROPERTY ProcessExits
CHECK_DEADLOCK FALSE
