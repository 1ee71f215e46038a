SPECIFICATION DataSpec
CONSTANTS
    MaxLength = 7
    Ifscs = {1, 2, 3, 5}
    MaxData = 4
    Width = 8
    MaxNodes = 4
INVARIANTS
    DataTypeOK
    PartsMakeCommand
    ResponseWhole
