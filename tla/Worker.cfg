SPECIFICATION WorkerLiveSpec
CONSTANTS
    o1 = o1  c1 = c1  c2 = c2
    Ops = {o1}
    Watched = o1
    Callers = {c1, c2}
    CallOf <- SameOp
    MaxLane = 2
INVARIANTS
    WInv
PROPERTIES
    QuietAfterPanic KeepsWorkerPlane KeepsOperationPromise NothingHangs
