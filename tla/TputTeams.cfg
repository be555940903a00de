SPECIFICATION FairSpec
CONSTANTS
    s1 = s1
    s2 = s2
    t1 = t1
    t2 = t2
    t3 = t3
    a = a
    b = b
    c = c
    NotSet = NotSet
    Freed = Freed
    Slaves <- TwoSlaves
    Threads <- ThreeThreads
    SlaveOf <- TwoAndOne
    Keys = {a, b, c}
    Memories <- SpreadMemories
    Queries <- ExactQueries
    Mantissa = 24
INVARIANTS
    TopRecordsPrinted
    TputClaims
    BufferAlive
PROPERTIES
    Termination
