SPECIFICATION GSpec
CONSTANTS
    r1 = r1  r2 = r2
    buffered = buffered  stream = stream
    a = a  b = b
    Requests <- MCRequests
    Ops = {buffered, stream}
    OpOf <- MCOpOfStream
    KeyValues = {a, b}
    NoValue = a
    KeyHeader <- MCOneKey
    KeyHeaderForwarded = TRUE
    QueueDepth = 1
    MaxBatchSize <- MCBatchOfTwo
    DynamicWait = {}
    NoChan = NoChan
    StreamOps = {stream}
    MaxInflightRequests = 2
    MaxPending = 1
    MaxInflight = 1
SYMMETRY MCSymmetry
INVARIANTS SlotsBalance ReturnedMeansAnswered SomeoneAnswers
PROPERTY ImplementsLifecycle
