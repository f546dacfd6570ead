SPECIFICATION Spec
CONSTANTS
    Vars <- MCVars
    Texts <- MCTexts
    Environment <- MCEnvironment
    Programs <- MCPrograms
    FileNames = {"f"}
    Home = "h"
    Dirs = {"h", "d"}
    Scripts <- MCScripts
    Lines <- MCLines
    MaxLines = 2
    MaxDepth = 5
INVARIANT TypeOK
PROPERTIES
    ActsAsPosixShell
    ChildrenLeaveNoTrace
VIEW MCView
CHECK_DEADLOCK FALSE
