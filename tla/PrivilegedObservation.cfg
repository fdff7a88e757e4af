SPECIFICATION PrivilegedSpec
CONSTANTS
    Actions = {a1}
    Observed = {a1}
    NoAction = NoAction
INVARIANTS
    ObservationFailureIsUnknown
