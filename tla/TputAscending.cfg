SPECIFICATION FairSpec
CONSTANTS
    s1 = s1
    s2 = s2
    t1 = t1
    t2 = t2
    t3 = t3
    a = a
    b = b
    c = c
    NotSet = NotSet
    Freed = Freed
    Slaves <- OneSlave
    Threads <- TwoThreads
    SlaveOf <- BothOnS1
    Keys = {a, b, c}
    Memories <- PairMemories
    Queries <- AscendingTput
    Mantissa = 24
INVARIANT
    TopRecordsPrinted
