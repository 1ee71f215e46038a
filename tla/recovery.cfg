\* Every recovery step, with up to four faults of any disciplined kind in one exchange.
SPECIFICATION FairSpec
CONSTANTS
    MaxApdus = 1
    MaxParts = 2
    MaxFrags = 2
    MaxAsk = 1
    MaxFaults = 4
    FaultKinds = {"lose", "garble", "io", "request"}
    Unreset = FALSE
INVARIANTS
    TypeOK
    SeqAgreement
    SeqInv
    RerunNeedsResync
    RerunNeedsFault
    ResyncInv
PROPERTIES
    FailsOnlyAfterThree
    ExchangeEnds
