CONSTANTS
    NPRs = 2
    MaxHeads = 1
    MaxBodies = 1
    Slots = 1
    AutoMerge = FALSE
    MaxAttempts = 3
    Gains = {1, 2}
    Kinds = {"scored"}
    World = {"dispute"}
    Faults = {"delete"}
    MaxFaults = 1
    MaxDisputes = 1
    None = None
SPECIFICATION Spec
INVARIANT HeldReplacesPaid
