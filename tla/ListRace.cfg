SPECIFICATION FairSpec
CONSTANTS
    s1 = s1
    t1 = t1
    t2 = t2
    Slaves <- OneSlave
    Threads <- TwoThreads
    SlaveOf <- BothOnS1
    FlowFiles <- RacingFiles
    RecLimits = {0, 1, 3}
    BuffRecs = 1
INVARIANTS
    TypeOK
    BuffersNotShared
    LimitDecisionsSound
    NothingLeftBehind
    OutputAccounted
PROPERTIES
    ImplementsListing
    Termination
