CONSTANTS
    PRs = {a, b}
    Rounds = {r1}
    Passes = {}
    Operators = {}
    Orphans = {o}
    Submissions <- Good
    Replays = 2
    Prompts = 2
    Repeats = 1
    MaxTries = 1
    MaxFaults = 1
    Faults = {"timeout"}
    Nobody = Nobody
SPECIFICATION Spec
INVARIANT BuildFailIsTrue
