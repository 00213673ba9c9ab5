SPECIFICATION BWSpec
CONSTANTS
    Operations <- MCOperations
    IdleTtl = 13
    Interval = 2
    Samples = 2
    MaxCount = 2
    Curve <- MCCurve
    MaxDepth = 2
    MaxLate = 2
INVARIANTS BatchNotHeld LoadForgotten
PROPERTY EndsOnlyWhenQuiet
