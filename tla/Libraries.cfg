SPECIFICATION Spec
CONSTANTS
    Thread = {"main", "server"}
    Value = {"f", "g", "u"}
    Nullish = {"u"}
    Proto = {"p", "q"}
    MaxBridgeCalls = 3
    Sample <- Values
    Index = {0, 1}
    MaxInt32 = 1
    MaxOps = 3
    Versions <- Releases
    VersionRange <- Ranges
    Package = {1, 2}
    Version = {1, 2}
    Concurrency = {1, 2}
    MaxInstalls = 2
    MaxPublished = 1
    Handler = {"a", "b", "c"}
    MaxHandlers = 4
    MaxDepth = 2
    MaxEmitterCalls = 6
    Chunk = {"c", "d"}
    highWaterMark = 2
    MaxWrites = 4
    Buf = {1, 2}
    Number = {0, 195, 425}
    Position <- Positions
    MaxSize = 2
    SizeMod = 1000
    Depth = 2
    MaxFsChanges = 4
INVARIANTS
    TypesOK
    BridgeSafety
    PackageSafety
    ScriptSafety
CHECK_DEADLOCK FALSE
