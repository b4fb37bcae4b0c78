SPECIFICATION FairSpec
CONSTANTS
    channel = channel
    aChannel = aChannel
    Jobs = {aChannel}
    Runs <- OneRun
    AnalyzeJob <- OneJob
    Class <- OneClass
    BackgroundRuns <- OneRun
    AutomaticRuns <- OneRun
    ExtraJobs = {}
    OtherJobs = {}
    Workers = {w1}
    Tokens = {t1, t2, t3}
    None = None
    Capacity = 2
    BackgroundLimit = 1
    LeaseTerm = 2
    AgedAfter = 0
    MaxDelay = 1
    LastStage = 2
    MaxRequeues = 1
    MaxFaults = 1
PROPERTY
    RunsComeToRest
