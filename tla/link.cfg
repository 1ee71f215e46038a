\* Setups and exchanges against the clock: damaged and late answers, failing and partial reads and
\* writes, a clock that is set.
SPECIFICATION FairSpec
CONSTANTS
    Pwt = 2
    Second = 2
    Bwts = {1, 65535}
    MayBeLrc = TRUE
    Ifsc = 2
    Jumps <- ClockJumps
    MaxFaults = 1
    Horizon = 4
INVARIANTS
    TypeOK
    AtpIntact
PROPERTIES
    TimesOutLate
    TurnaroundKept
    ImplementsTransfer
    TransferEnds
