SPECIFICATION MCSpec
CONSTANTS
    l1 = l1  l2 = l2  claude = claude  codex = codex
    Launches = {l1, l2}
    Providers = {claude, codex}
    PlaneOf <- OneEach
    NoLaunch = NoLaunch
    MaxTroubles = 1
SYMMETRY Swaps
VIEW Compared
CHECK_DEADLOCK FALSE
INVARIANTS
    OneProvider PanicMeansStopped
PROPERTIES
    AnswersAreTrue
