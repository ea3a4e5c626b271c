SPECIFICATION FairSpec
CONSTANTS
    c1 = c1
    c2 = c2
    Cameras <- TwoCameras
    Rank <- ById
    Capacities = {1, 2}
    MaxStarts = 1
    Backoff = 1
    BackoffMax = 2
    MaxFailures = 2
    Stability = 1
    MaxLag = 1
    MaxEdits = 2
    MaxFaults = 1
CHECK_DEADLOCK FALSE
INVARIANTS
    OneProcess
PROPERTIES
    InferenceStartsAlone
    StatusIsTrue
    BackoffStartsOver
    EverythingSettles
