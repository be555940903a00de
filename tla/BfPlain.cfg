SPECIFICATION Spec
CONSTANTS
    t1 = t1
    t2 = t2
    A = A
    B = B
    NoFile = NoFile
    Threads = {t1, t2}
    FlowRecs <- Recs
    Filters <- PlainFilters
    MaxRecs = 2
    MaxIps = 4
INVARIANTS
    NoMatchSkipped
    IndexInUse
