SPECIFICATION PanicSpec
CONSTANTS
    c1 = c1
    Tasks = {t1}
    VoiceTasks = {t1}
    TargetTasks = {t1}
    Calls = {c1}
    CallOf <- OneCall
    Workers = {w1}
    Tokens = {k1}
    NoToken = NoToken
    Requests = {p1, p2}
    Nobody = Nobody
    Strict = TRUE
    Privileged = TRUE
    MaxLane = 1
SYMMETRY Symmetry
CHECK_DEADLOCK FALSE
INVARIANTS
    LockedTogether AcceptedIsDurable StoppedIsTrue
PROPERTIES
    NothingStartsAfterPanic LoneUnlockIsQuiesced
