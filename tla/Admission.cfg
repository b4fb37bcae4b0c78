SPECIFICATION FairPartSpec
CONSTANTS
    s1 = s1
    r1 = r1
    Stages = {s1}
    RunOf <- OneStage
    MaxCalls = 2
    None = None
    Price = 1
    Estimate = 2
    RunCap = 3
    Budget = 3
    Submitters = {c1, c2}
    Pollers = {p1, p2}
    MaxLapses = 1
    MaxCrashes = 1
    MaxErrors = 1
    i1 = i1
    i2 = i2
    Items = {i1, i2}
    SegmentOf <- ItemSegment
    Flawed = {}
    Foreign = {i2}
    FirstPlan <- ThreeSegments
    SplitAbove = 1
    MaxRepairs = 1
    Windows <- TwoWindows
    RecallBatch = 1
    PartOf <- ItemPart
    CritiqueParts = 2
    MaxTries = 1
    MaxBlips = 1
    TimedWindows = 2
    MaxFaults = 1
    MaxRetries = 1
    d1 = d1
    d2 = d2
    d3 = d3
    k1 = k1
    k2 = k2
    discovery = discovery
    critique = critique
    Groups = {discovery, critique}
    Lanes = {d1, d2, d3, k1, k2}
    GroupOf <- LaneGroup
    ItemCount <- LaneItems
    AdmissionLimit = 4
    SlotCallers = {w1, w2, w3}
    SlotCap = 1
    SlotTerm = 2
    SlotPatience = 1
    MaxFreezes = 1
    Duration = 5
    WindowUnits = 3
    GapUnits = 4
    PauseUnits = 1
    SplitUnits = 1
    MaxDepth = 1
    MaxChecks = 3
    CitedUnits = {4}
    Parts = {"admission"}
PROPERTY
    AllLanesDrain
CHECK_DEADLOCK FALSE
