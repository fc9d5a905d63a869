CONSTANTS
    PRs = {a, b}
    Rounds = {r1, r2}
    Passes = {}
    Operators = {}
    Orphans = {o}
    Submissions <- Mixed
    Replays = 2
    Prompts = 2
    Repeats = 1
    MaxTries = 2
    MaxFaults = 2
    Faults = {"timeout", "death", "box", "refused", "load", "crash", "delete", "api"}
    Nobody = Nobody
SPECIFICATION Spec
INVARIANTS
    TypeOK
    ReceiptsAreGated
    ReceiptsArePaired
    CacheServesPasses
    OneOutcome
    PublishedIsKnown
PROPERTY ReceiptPromiseKept
SYMMETRY Same
