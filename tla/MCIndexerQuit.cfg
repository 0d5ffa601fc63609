CONSTANTS
    MaxHeight = 2
    MaxStarts = 1
    Threshold = 2
SPECIFICATION FairSpec
PROPERTY QuitReturns
CHECK_DEADLOCK FALSE
