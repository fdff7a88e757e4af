SPECIFICATION SipLiveSpec
CONSTANTS
    s1 = s1  s2 = s2  w1 = w1  w2 = w2  w3 = w3
    Calls = {s1, s2}
    Webhooks = {w1, w2, w3}
    CallOf <- TwoForOne
    MaxActive = 1
INVARIANTS
    SInv NoDeafCall ReleasedIsQuiet
PROPERTIES
    ShutdownAnswered
