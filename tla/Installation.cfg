SPECIFICATION Spec
CONSTANTS
    Names <- MCNames
    Paths <- MCPaths
    Contents <- MCContents
    Empty = ""
    Images <- MCImages
    Embedded <- MCEmbedded
    MaxCommands = 4
    MaxTrouble = 1
INVARIANTS
    TypeOK
    ServedImage
    HostKeyLasts
CHECK_DEADLOCK FALSE
