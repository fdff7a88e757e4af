SPECIFICATION LiveSpec
CONSTANTS
    t1 = t1  t2 = t2  c1 = c1
    Tasks = {t1, t2}
    VoiceTasks = {t1, t2}
    TargetTasks = {t1}
    MutatingTasks = {t2}
    Calls = {c1}
    CallOf <- OneCall
    Workers = {w1, w2}
    first = w1  second = w2
    Watched = t1
    Tokens = {k1, k2}
    NoToken = NoToken
    NoWorker = NoWorker
    Concurrency = 1
CONSTRAINTS OneRequest SecondRecovers
INVARIANTS
    AtMostOnce TrueVerdict IntentBeforeEffect
PROPERTIES
    KeepsPromise TasksSettle NoPasteAfterCancel
