\* A client that closes the basic channel it never opened.
SPECIFICATION Spec
CONSTANTS
    Service = "1.1"
    MAX_LOGICAL_CHANNELS = 4
    Troubles = {"strayClose"}
    MaxFailures = 3
PROPERTIES
    ClosesWhenLast
