SPECIFICATION Spec
\* A script whose stack overflows stops.
CHECK_DEADLOCK FALSE
CONSTANTS
    TypeOf <- MCTypeOf
    Globals = {"i"}
    Locals = {}
    MaxKey = 1
    MaxValues = 5
    MaxLinks = 2
    MaxCalls = 1
INVARIANTS CallsInExpressionsIsolate
PROPERTIES ScalarsNeverChange AppendAdds
