CONSTANTS
    NPRs = 2
    MaxHeads = 2
    MaxBodies = 1
    Slots = 1
    AutoMerge = TRUE
    MaxAttempts = 2
    Gains = {1}
    Kinds = {"scored", "copycat", "guard error"}
    World = {"push", "close", "dispute"}
    Faults = {"api", "delete", "conflict"}
    MaxFaults = 1
    MaxDisputes = 2
    None = None
SPECIFICATION FairSpec
INVARIANT NoDoublePay
PROPERTIES
    EveryHeadIsAnswered
    HoldsReachLabels
