CONSTANTS
    PRs = {a, b}
    Rounds = {r1}
    Passes = {}
    Operators = {}
    Orphans = {}
    Submissions <- Mixed
    Replays = 2
    Prompts = 2
    Repeats = 1
    MaxTries = 1
    MaxFaults = 0
    Faults = {"guest"}
    Nobody = Nobody
SPECIFICATION Spec
\* One at a time: each of these is violated.
INVARIANT CacheIsTheRun
\* INVARIANT GateFailureIsFinal
\* INVARIANT CellIsJudged
