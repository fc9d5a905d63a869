CONSTANTS
    NPRs = 2
    MaxHeads = 2
    MaxBodies = 1
    Slots = 1
    AutoMerge = TRUE
    MaxAttempts = 3
    Gains = {1, 2}
    Kinds = {"scored"}
    World = {"push"}
    Faults = {"crash"}
    MaxFaults = 1
    MaxDisputes = 0
    None = None
SPECIFICATION FairSpec
PROPERTY EveryHeadIsAnswered
