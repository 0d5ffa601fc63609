CONSTANTS
    MaxHeight = 3
    MaxStarts = 2
    Threshold = 2
SPECIFICATION Spec
INVARIANT NoGapAtStart
CHECK_DEADLOCK FALSE
