CONSTANTS
    NPRs = 2
    MaxHeads = 2
    MaxBodies = 1
    Slots = 2
    AutoMerge = TRUE
    MaxAttempts = 3
    Gains = {1, 2}
    Kinds = {"scored"}
    World = {"dispute"}
    Faults = {}
    MaxFaults = 0
    MaxDisputes = 2
    None = None
SPECIFICATION Spec
INVARIANT OneCreditPerBaseline
