\* One damaged block while a response of two fragments is sent.
SPECIFICATION Spec
CONSTANTS
    MaxApdus = 1
    MaxParts = 1
    MaxFrags = 2
    MaxAsk = 1
    MaxFaults = 1
    FaultKinds = {"garble"}
    Unreset = FALSE
PROPERTIES
    ResponseIntact
