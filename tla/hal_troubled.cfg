\* Everything that may go wrong, except a client that closes what it does not hold.
SPECIFICATION FairSpec
CONSTANTS
    Service = "1.1"
    MAX_LOGICAL_CHANNELS = 4
    Troubles = {"lostReply", "halfReset", "shortApdu", "death", "kill", "v1_0"}
    MaxFailures = 2
INVARIANTS
    SessionsUsable
    TroubledInv
PROPERTIES
    ImplementsService
    MethodsReturn
    DeadClientReleased
