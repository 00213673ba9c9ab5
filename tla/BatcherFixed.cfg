SPECIFICATION Spec
CONSTANTS
    r1 = r1  r2 = r2  r3 = r3
    fixed = fixed  dynamic = dynamic
    a = a  b = b  none = none  nochan = nochan
    Requests <- MCThree
    Ops = {fixed, dynamic}
    OpOf <- MCFixedOp
    KeyValues = {a, b, none}
    NoValue = none
    KeyHeader <- MCOneKey
    KeyHeaderForwarded = TRUE
    QueueDepth = 1
    MaxBatchSize <- MCBatchOfTwo
    DynamicWait = {dynamic}
    NoChan = nochan
SYMMETRY MCSymmetry
INVARIANTS Custody EntryNeverDead ClosedMeansTwoEvictions Bounds
PROPERTY ServedInOrder
