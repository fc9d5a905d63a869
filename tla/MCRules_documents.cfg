CONSTANTS
    Paths <- FilePaths
    Area <- PathArea
    GenOf <- PathGen
    Tolerance = "tolerance"
    Generations = {"BG-1", "BG-2", "BG-3"}
    Ops = {"attention", "norm"}
    MainRegs <- Registry
    MainDefs <- Definitions
    MinTokens = 40
    Similar = 95
    None = "none"
    Gone = Gone
    Cells = {"dit", "vae", "deep"}
    Cell <- TwoCells
    Repeats = 2
    MaxMemory = 2
    MaxDrift = 1
    Ceiling <- NineAtBest
    TimerDigits = 2
    NotAnswered = NotAnswered
    NewNames = {"fast", "wide"}
    Moves = {}
SPECIFICATION Spec
CHECK_DEADLOCK FALSE
\* One at a time: each of these is violated.
INVARIANT CrashedGuardIsNoPass
\* INVARIANT OnlyChangesAreBlocked
\* INVARIANT NoHeldOutNoCredit
\* INVARIANT NoiseDoesNotBlock
\* INVARIANT MergingOnlyRefuses
\* INVARIANT WorstOfSessions
\* INVARIANT ControlIsNotCredited
\* INVARIANT OpenedIsMeasured
