SPECIFICATION RequestSpec
CONSTANTS
    Asks = {a}
    Structured = {s}
    Durable = {d}
    Messages = {m}
    Phone = {a, d, m}
    Mutating = {d}
    Calls = {c, o}
    TheCall = c
    TheOperation = o
    CallOf <- OneCall
    MaxTries = 2
    MaxBegun = 2
CHECK_DEADLOCK FALSE
INVARIANT RequestInv
PROPERTY InterruptedIsFinal
PROPERTY RequestsSettle
