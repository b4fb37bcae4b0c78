SPECIFICATION Spec
CONSTANTS
    channel = channel
    aChannel = aChannel
    Jobs = {aChannel, extra1}
    Runs <- OneRun
    AnalyzeJob <- OneJob
    Class <- OneClass
    BackgroundRuns <- OneRun
    AutomaticRuns <- OneRun
    ExtraJobs = {extra1}
    OtherJobs = {extra1}
    Workers = {w1, w2}
    Tokens = {t1, t2, t3, t4}
    None = None
    Capacity = 2
    BackgroundLimit = 2
    LeaseTerm = 1
    AgedAfter = 0
    MaxDelay = 1
    LastStage = 2
    MaxRequeues = 1
    MaxFaults = 0
SYMMETRY Interchangeable
INVARIANTS
    RunTypeOK
    SoleCommitter
    NoLostUpdate
PROPERTIES
    QueueSpec
    StagesInOrder
