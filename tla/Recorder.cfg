CONSTANTS
    Threads = {t1, t2}
    BufferSize = 2
    MaxOps = 3
    MaxTime = 1
    MaxFaults = 1
    Binary <- MCBinary
    Inexact <- MCInexact
SPECIFICATION Spec
SYMMETRY MCSymmetry
INVARIANTS
    TypeOK
    RecordedInOrder
    NothingInvented
    ConversionKeeps
    PlaybackNeverEarly
PROPERTY ReplayGrows
CHECK_DEADLOCK FALSE
