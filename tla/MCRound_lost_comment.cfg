CONSTANTS
    NPRs = 2
    MaxHeads = 2
    MaxBodies = 1
    Slots = 2
    AutoMerge = TRUE
    MaxAttempts = 3
    Gains = {1, 2}
    Kinds = {"scored"}
    World = {}
    Faults = {"api"}
    MaxFaults = 1
    MaxDisputes = 0
    None = None
SPECIFICATION Spec
PROPERTY MergesTheBest
