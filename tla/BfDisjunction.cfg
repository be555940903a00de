SPECIFICATION Spec
CONSTANTS
    t1 = t1
    t2 = t2
    A = A
    B = B
    NoFile = NoFile
    Threads = {t1, t2}
    FlowRecs <- Recs
    Filters <- MixedFilters
    MaxRecs = 2
    MaxIps = 10
INVARIANT
    NoMatchSkipped
