CONSTANTS
    Sessions = {s1, s2}
    MaxWork = 2
    MaxBytes = 1
    MaxTime = 1
    MaxTrouble = 1
SPECIFICATION Spec
SYMMETRY MCSymmetry
INVARIANTS
    TypeOK
    TraceableDownloads
    CopiesAreKept
    ReportsTell
PROPERTY EvidenceStays
CHECK_DEADLOCK FALSE
