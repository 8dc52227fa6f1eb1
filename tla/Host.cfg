CONSTANTS
    Modules <- MCModules
    BuiltIns <- MCBuiltIns
    Plugins <- MCPlugins
    Dialects <- MCDialects
    Library <- MCLibrary
    MaxCalls = 2
    MaxMethodDepth = 1

SPECIFICATION Spec

INVARIANTS
    FailureIsContained

PROPERTIES
    ImplementsService
    RequestEnds
