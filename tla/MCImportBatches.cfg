SPECIFICATION Spec
CONSTANTS
    Workers = {w1, w2}
    Keys = {k1, k2}
    Batches = {b1, b2}
    Units = {u1, u2}
    Maps = {m1, m2}
    FirstUnits = u1
    MaxImports = 2
    MaxRequests = 5
    MaxHead = 1
    MaxLines = 1
    None = None
SYMMETRY Symmetry
INVARIANTS
    ServedPreviewIsCurrent
    FinalPeriodsKeepNoDetail
    CreationIdempotent
PROPERTIES
    NoLostUpdate
    PublishedOnCurrentFacts
CHECK_DEADLOCK FALSE
