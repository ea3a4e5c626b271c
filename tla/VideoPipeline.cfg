SPECIFICATION FairPipelineSpec
CONSTANTS
    Ids = {v1, v2}
    QueueSize = 1
    MaxConnections = 2
    MaxWallTime = 2
    Timeout = 2
    MaxPipelineFaults = 1
CHECK_DEADLOCK FALSE
INVARIANTS
    HandedOverOnce
    CleanClose
PROPERTIES
    StopEndsRun
    NoSecondEvent
    EpochsNeverMix
