SPECIFICATION Spec
CONSTANTS
    channel = channel
    aChannel = aChannel
    Jobs = {aChannel}
    Runs <- OneRun
    AnalyzeJob <- OneJob
    Class <- OneClass
    BackgroundRuns <- OneRun
    AutomaticRuns <- OneRun
    ExtraJobs = {}
    OtherJobs = {}
    Workers = {w1, w2}
    Tokens = {t1, t2, t3, t4, t5}
    None = None
    Capacity = 2
    BackgroundLimit = 1
    LeaseTerm = 2
    AgedAfter = 0
    MaxDelay = 1
    LastStage = 2
    MaxRequeues = 1
    MaxFaults = 1
SYMMETRY Interchangeable
PROPERTY
    CompletedStays
