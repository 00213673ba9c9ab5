SPECIFICATION Spec
CONSTANTS
    r1 = r1  r2 = r2  r3 = r3
    fixed = fixed  dynamic = dynamic
    a = a  b = b  none = none  nochan = nochan
    Requests <- MCTwo
    Ops = {fixed, dynamic}
    OpOf <- MCTwoFixed
    KeyValues = {a, b, none}
    NoValue = none
    KeyHeader <- MCTwoKey
    KeyHeaderForwarded = TRUE
    QueueDepth = 1
    MaxBatchSize <- MCBatchOfTwo
    DynamicWait = {dynamic}
    NoChan = nochan
INVARIANT NoAcceptedRequestLost
