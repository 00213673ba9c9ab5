SPECIFICATION LPFairSpec
CONSTANTS
    w1 = w1  w2 = w2  w3 = w3
    o1 = o1  o2 = o2  o3 = o3  o4 = o4
    i1 = i1  i2 = i2  i3 = i3
    Workers = {w1}
    Outers = {o1, o2}
    KindOf <- MCTwoBatches
    VirtualsOf <- MCTwoVirtuals
    UnfitIds = {}
    Unreliable = {}
    UpstreamFails = FALSE
    Nobody = Nobody
CHECK_DEADLOCK FALSE
PROPERTY WakesOnCompletion
