SPECIFICATION Spec
CONSTANTS
    Names = {"d", "f", "n"}
    Paths <- MCPaths
    Contents = {"", "text"}
    Empty = ""
    Tenants = {t1}
    Image <- MCImage
    ChmodModes = {"0600"}
    Recursive = FALSE
VIEW MCView
INVARIANTS
    TypeOK
    ListedIsSeen
    SeenIsListed
    LayerKeepsDirs
    WrittenIsSeen
PROPERTIES
    ErrorsChangeNothing
    OnlyTargetChanges
    MetadataKeepsContent
    RemoveReveals
    NoCrash
