SPECIFICATION Spec
CONSTANTS
    Names = {"d", "f", "n"}
    Paths <- MCPathsSmall
    Contents = {"", "text"}
    Empty = ""
    Tenants = {t1, t2}
    Image <- MCImageSmall
    ChmodModes = {}
    Recursive = TRUE
SYMMETRY MCSymmetry
VIEW MCView
CONSTRAINT MCOneInvolved
CHECK_DEADLOCK FALSE
PROPERTIES
    Sandbox
