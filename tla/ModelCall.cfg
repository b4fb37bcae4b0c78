SPECIFICATION Spec
CONSTANTS
    s1 = s1
    s2 = s2
    r1 = r1
    r2 = r2
    Stages = {s1, s2}
    RunOf <- TwoStages
    MaxCalls = 2
    None = None
    Unpriced = Unpriced
    Pending = Pending
    Estimate = 2
    RunCap = 3
    Budget = 3
    Callers = {c1, c2}
    Sweeps = TRUE
    MaxLapses = 1
    MaxCrashes = 1
SYMMETRY Interchangeable
INVARIANTS
    CallTypeOK
    
    
    
    
