SPECIFICATION OutboundLiveSpec
CONSTANTS
    c1 = c1  c2 = c2  c3 = c3
    Calls = {c1, c2, c3}
    Callbacks = {c3}
CONSTRAINT Apart
INVARIANTS
    OInv QuietStop
PROPERTIES
    CallsSettle
