SPECIFICATION Spec
CONSTANTS
    File = File
    Method = Method
    Construct = Construct
    Sites = {loop1}
    Objects = {obj}
    NoObject = NoObject
    Constructs = {"callStmt", "callExpr", "try"}
    Raises = {"throw"}
    LoopReturns = {}
    MaxMethodDepth = 1
    MaxFrames = 4
    MaxActs = 3
INVARIANTS ThrowIntact
