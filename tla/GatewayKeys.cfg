SPECIFICATION SDFairSpec
CONSTANTS
    r1 = r1  r2 = r2
    buffered = buffered  stream = stream
    a = a  b = b
    Requests <- MCRequests
    Ops = {buffered, stream}
    OpOf <- MCOpOfBuffered
    KeyValues = {a, b}
    NoValue = a
    KeyHeader <- MCTwoKeys
    KeyHeaderForwarded = TRUE
    QueueDepth = 1
    MaxBatchSize <- MCBatchOfTwo
    DynamicWait = {buffered}
    NoChan = NoChan
    StreamOps = {stream}
    MaxInflightRequests = 1
    MaxPending = 1
    MaxInflight = 1
INVARIANTS KeyIsolation OnlyUnwantedAreKilled
PROPERTIES ImplementsLifecycle DrainEnds
