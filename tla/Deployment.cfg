SPECIFICATION DPFairSpec
CONSTANTS
    Documents <- MCDocuments
    Templates <- MCTemplates
    NoTemplate = NoTemplate
    MaxInstances = 2
    MaxUpdates = 3
    MaxFaults = 1
    Methods <- MCMethods
    Paths <- MCPaths
    BuiltinPaths <- MCBuiltin
INVARIANTS UriResolves ServesItsTemplate SettledMeansReplaceable
PROPERTIES RollbackHasReason OperationSettles
