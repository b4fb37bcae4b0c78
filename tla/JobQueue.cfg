SPECIFICATION FairQueueSpec
CONSTANTS
    manual = manual
    channel = channel
    Jobs = {j1, j2, j3}
    Runs <- MCRuns
    BackgroundRuns <- MCBackground
    Class <- MCClass
    Tokens = {t1, t2, t3}
    None = None
    Capacity = 2
    BackgroundLimit = 1
    LeaseTerm = 1
    AgedAfter = 0
    MaxDelay = 1
INVARIANTS
    QueueTypeOK
    CapacityRespected
    BackgroundRespected
    TokenNamesOneJob

    
