CONSTANTS
    NPRs = 2
    MaxHeads = 2
    MaxBodies = 1
    Slots = 2
    AutoMerge = TRUE
    MaxAttempts = 2
    Gains = {1, 2}
    Kinds <- RuleKinds
    World = {"push", "clear"}
    Faults = {}
    MaxFaults = 0
    MaxDisputes = 0
    None = None
SPECIFICATION Spec
INVARIANTS
    TypeOK
    OneCreditPerBaseline
    EvaluationsAreBounded
    ReviewIsWithheld
PROPERTY MergesTheBest
