CONSTANTS
    PRs = {a}
    Rounds = {r1}
    Passes = {}
    Operators = {op}
    Orphans = {o}
    Submissions <- Both
    Replays = 2
    Prompts = 2
    Repeats = 1
    MaxTries = 2
    MaxFaults = 2
    Faults = {"timeout", "death", "box", "guest", "refused", "load", "crash", "delete", "api"}
    Nobody = Nobody
SPECIFICATION FairSpec
INVARIANTS
    DeviceIsExclusive
PROPERTIES
    EveryEvaluationEnds
    EventuallyPublished
