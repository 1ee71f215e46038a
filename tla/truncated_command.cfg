\* Two lost blocks in an exchange of a command of two parts.
SPECIFICATION Spec
CONSTANTS
    MaxApdus = 1
    MaxParts = 2
    MaxFrags = 1
    MaxAsk = 1
    MaxFaults = 2
    FaultKinds = {"lose"}
    Unreset = FALSE
INVARIANTS
    WholeCommands
