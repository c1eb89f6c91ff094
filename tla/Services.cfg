SPECIFICATION Spec
CONSTANTS
    MaxPeers = 3
    MaxConnects = 2
    MaxChunks = 2
    MaxDatagrams = 3
    MaxClients = 2
    Fd = {3, 4}
    Stream = {"stdout", "stderr"}
    MaxForks = 2
    MaxOps = 2
    Path = {"a"}
    PoolSize = 2
    Line = {1, 2}
    MaxBreakpoints = 2
    MaxDebuggers = 2
INVARIANTS
    TypesOK
    NetSafety
    DgramSafety
    HttpSafety
    ProcessSafety
    FileSafety
    DebuggerSafety
PROPERTIES
    ClosesReturn
    FileCallbacksRun
CHECK_DEADLOCK FALSE
