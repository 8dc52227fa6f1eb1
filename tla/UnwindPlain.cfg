SPECIFICATION Spec
CONSTANTS
    File = File
    Method = Method
    Construct = Construct
    Sites = {loop1}
    Objects = {obj}
    NoObject = NoObject
    Constructs = {"callStmt", "callExpr", "callback", "method", "ctor", "loop", "switch", "native"}
    Raises = {"return", "break", "continue", "throw", "error"}
    LoopReturns = {"callExpr", "callback", "file"}
    MaxMethodDepth = 2
    MaxFrames = 5
    MaxActs = 3
INVARIANTS ExactScopes PrivateOnlyInMethods
PROPERTIES ReturnLeaksNoScope RefinesActivations
