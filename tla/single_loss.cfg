\* One lost block per exchange: the caller gets the response to a command run once.
SPECIFICATION Spec
CONSTANTS
    MaxApdus = 3
    MaxParts = 2
    MaxFrags = 2
    MaxAsk = 2
    MaxFaults = 1
    FaultKinds = {"lose"}
    Unreset = FALSE
    MaxRuns = 1
    MayFail = FALSE
INVARIANTS
    WholeCommands
    PromiseInv
PROPERTIES
    ResponseIntact
    KeepsPromise
