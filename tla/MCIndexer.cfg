CONSTANTS
    MaxHeight = 3
    MaxStarts = 3
    Threshold = 2
SPECIFICATION FairSpec
INVARIANTS GapsExplained BlockNumberServed
PROPERTIES BlockNumberGrows CatchesUp BecomesReady
CHECK_DEADLOCK FALSE
