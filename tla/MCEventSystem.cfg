SPECIFICATION FairSpec
CONSTANTS
    Names = {"blocks", "pendingTxs"}
    Subs = {s1, s2}
    NoSub = NoSub
    FilterCaps = {1, 2}
    MaxEvents = 1
    MaxResponses = 1
INVARIANTS
    OnlyConsumerPanics
    FilterCapHolds
    PolledOnce
    ListedTopicServed
PROPERTIES
    RequestsReturn
    UninstalledEnds
CHECK_DEADLOCK FALSE
