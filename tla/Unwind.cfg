SPECIFICATION Spec
CONSTANTS
    File = File
    Method = Method
    Construct = Construct
    Sites = {loop1}
    Objects = {obj}
    NoObject = NoObject
    Constructs = {"callStmt", "callExpr", "callback", "method", "ctor", "loop", "switch", "try", "propInit", "native", "predicate"}
    Raises = {"return", "break", "continue", "throw", "error"}
    LoopReturns = {"callStmt", "callExpr", "callback", "method", "ctor", "file"}
    MaxMethodDepth = 2
    MaxFrames = 4
    MaxActs = 3
INVARIANTS LiveScopesKept CallTableIsOwn
PROPERTIES ControlFlowReachesTarget RecoveringCallRestores UnwindEnds
