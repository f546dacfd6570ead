SPECIFICATION Spec
CONSTANTS
    Sessions = {s1}
    MaxWindows = 2
    MaxLines = 2
    MaxStatements = 2
    MaxInput = 2
CHECK_DEADLOCK FALSE
PROPERTY SandboxDestroyed
