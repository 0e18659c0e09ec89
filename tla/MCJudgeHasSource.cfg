CONSTANTS
    d1 = d1
    d2 = d2
    s1 = s1
    a1 = a1
    e1 = e1
    Drone = {d1, d2}
    SyncClient = {s1}
    ASyncClient = {a1}
    Entry = {e1}
    MaxJobs = 2
    MaxConnects = 2
    NoJob = NoJob
    NoClient = NoClient
SYMMETRY DroneSymmetry
SPECIFICATION Spec
INVARIANT JudgeHasSource
