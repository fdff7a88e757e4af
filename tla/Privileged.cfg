SPECIFICATION PrivilegedLiveSpec
CONSTANTS
    Actions = {a1, a2}
    Observed = {a1}
    NoAction = NoAction
INVARIANTS
    SpawnedAtMostOnce OneAtATime
PROPERTIES
    NothingSpawnsAfterCancel KeepsRootPlane ActionsSettle
