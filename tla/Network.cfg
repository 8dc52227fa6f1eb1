SPECIFICATION Spec
CONSTANTS
    Redis = {"r1", "r2"}
    Tcp = {"t"}
    Shapes <- MCShapes
    MaxFd = 3
    MaxCalls = 2
CHECK_DEADLOCK FALSE
INVARIANTS DescriptorIsOwn
PROPERTIES ImplementsSession CallsEnd
