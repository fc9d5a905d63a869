CONSTANTS
    NPRs = 2
    MaxHeads = 2
    MaxBodies = 1
    Slots = 1
    AutoMerge = TRUE
    MaxAttempts = 3
    Gains = {1, 2}
    Kinds = {"scored"}
    World = {"push"}
    Faults = {}
    MaxFaults = 0
    MaxDisputes = 0
    None = None
SPECIFICATION Spec
INVARIANT MergedHeadWasMeasured
