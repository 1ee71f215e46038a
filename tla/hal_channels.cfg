\* The 1.0 service: one client that closes what it opened; exchanges, openings and resets that fail
\* with no effect on the SE, the service killed between any two steps.
SPECIFICATION Spec
CONSTANTS
    Service = "1.0"
    MAX_LOGICAL_CHANNELS = 4
    Troubles = {"shortApdu", "kill"}
    MaxFailures = 3
INVARIANTS
    TypeOK
    CountMatches
    HalInv
    TableMatchesSe
    LeaksOnlyBeforeFirstReset
PROPERTIES
    ClosesWhenLast
