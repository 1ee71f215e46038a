\* A closeChannel whose answer is lost, after the SE closed the channel.
SPECIFICATION Spec
CONSTANTS
    Service = "1.1"
    MAX_LOGICAL_CHANNELS = 4
    Troubles = {"lostReply"}
    MaxFailures = 3
PROPERTIES
    ClosesWhenLast
