SPECIFICATION FairSpec
CONSTANTS
    s1 = s1
    s2 = s2
    Master = Master
    Slaves <- TwoSlaves
    MaxThreads <- TwoAndOne
    Queries <- SomeQueries
    FullTeams = TRUE
    MasterTeam = 2
INVARIANTS
    CollectivesAgree
    OneCollectiveAtATime
    ProgressExact
    NoRemains
    SummaryComplete
    NoMessageLost
PROPERTIES
    Termination
