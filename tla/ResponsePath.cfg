SPECIFICATION RDFairSpec
CONSTANTS
    MaxItems = 3
    Concurrency = 2
    ChunksOf <- MCChunks
    MaxFlaws = 1
    WireCapacity = 1
    Kinds <- MCKinds
    BodyCapacity = 1
INVARIANTS RDTypeOK ConcurrencyBounded
PROPERTIES ImplementsDelivery EveryoneServed
