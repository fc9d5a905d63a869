CONSTANTS
    PRs = {1, 2}
    Authors = {"alice", "bob"}
    Author <- By
    Maintainers = {}
    Parts = {"kernel", "half", "infra"}
    Mass <- Weigh
    BoilerplateDf = 2
    Shapes <- Larger
    OnMain = {"infra"}
    Evaluators = {e, f}
    MaxHeads = 1
    MaxTime = 3
    MaxLifts = 0
    MaxFaults = 0
SPECIFICATION Spec
PROPERTY CorpusIsAppendOnly
CHECK_DEADLOCK FALSE
