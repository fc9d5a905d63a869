CONSTANTS
    PRs = {a}
    Rounds = {r1}
    Passes = {p}
    Operators = {}
    Orphans = {}
    Submissions <- Both
    Replays = 2
    Prompts = 2
    Repeats = 1
    MaxTries = 2
    MaxFaults = 0
    Faults = {}
    Nobody = Nobody
SPECIFICATION Spec
INVARIANT OneOutcome
