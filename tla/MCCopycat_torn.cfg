CONSTANTS
    PRs = {1, 2}
    Authors = {"alice", "bob"}
    Author <- By
    Maintainers = {}
    Parts = {"kernel", "half", "infra"}
    Mass <- Weigh
    BoilerplateDf = 2
    Shapes <- Larger
    OnMain = {"infra"}
    Evaluators = {e}
    MaxHeads = 3
    MaxTime = 3
    MaxLifts = 0
    MaxFaults = 1
SPECIFICATION Spec
INVARIANT GuardRecovers
CHECK_DEADLOCK FALSE
