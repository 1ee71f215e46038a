\* Commands and responses of one block, three faults, late answers among them:
\* a command may run once more per fault, and a response is never a stale one.
SPECIFICATION Spec
CONSTANTS
    MaxApdus = 3
    MaxParts = 1
    MaxFrags = 1
    MaxAsk = 1
    MaxFaults = 3
    FaultKinds = {"lose", "garble", "late"}
    Unreset = FALSE
    MaxRuns = 4
    MayFail = TRUE
PROPERTIES
    KeepsPromise
    ResponseIntact
