CONSTANTS
    NPRs = 2
    MaxHeads = 2
    MaxBodies = 2
    Slots = 2
    AutoMerge = FALSE
    MaxAttempts = 1
    Gains = {1}
    Kinds = {"scored", "no-candidate"}
    World = {"push", "edit", "merge", "dispute"}
    Faults = {"api", "delete", "crash"}
    MaxFaults = 1
    MaxDisputes = 2
    None = None
SPECIFICATION Spec
INVARIANTS
    PaidHasReceipt
    MergeFirstIsPaid
