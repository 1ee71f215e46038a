\* A client that registers with the init of version 1.0; one exchange fails.
SPECIFICATION Spec
CONSTANTS
    Service = "1.1"
    MAX_LOGICAL_CHANNELS = 4
    Troubles = {"v1_0"}
    MaxFailures = 1
INVARIANTS
    StaysUp
