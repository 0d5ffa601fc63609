CONSTANTS
    Hashes = {x, y}
    NoHash = nohash
    Window = 3
    InitialHeight = 2
    LastHeight = 7
    MaxGas = 8
    InitParams <- MCParams
    Proposals <- MCProposals
    MaxConsumed = 18
    MaxBaseFee = 60
SPECIFICATION HooksSpec
INVARIANTS WindowServed FloorInForce
PROPERTIES FollowsDemand
CHECK_DEADLOCK FALSE
