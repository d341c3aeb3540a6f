SPECIFICATION Spec
CONSTANTS
    Procs = {p1, p2, p3}
    Parallelism = 2
    MaxIndex = 3
    MaxJobs = 2
    Cells = {c1}
    MaxExecs = 2
SYMMETRY Symmetry
INVARIANTS
    TypeOK
    ClaimsAreExclusive
    DocumentsClose
    AcknowledgedIsDurable
    EvidenceIsComplete
CHECK_DEADLOCK FALSE
