SPECIFICATION FairSpec
CONSTANTS
    s1 = s1
    t1 = t1
    t2 = t2
    Slaves <- OneSlave
    Threads <- TwoThreads
    SlaveOf <- BothOnS1
    Memories <- TwoMemories
    ThresholdCnts <- Cnts
    FoundRecs <- Positions
    RecLimits = {0, 2}
    RecLens = {2, 5, 6}
    BuffSize = 8
    HdrSize = 2
    MaxRawLen = 6
    SizeRange = 128
    IntRange = 32
INVARIANTS
    TypeOK
    RawBuffersNotShared
    MessagesWellFormed
    RoundsApart
PROPERTIES
    ImplementsGathering
