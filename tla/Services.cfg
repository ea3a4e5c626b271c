SPECIFICATION ServicesSpec
CONSTANTS
    Workers = {w1, w2}
    MaxAttempts = 2
    StaleAfter = 1
    MaxLag = 1
    MaxFaults = 2
    Calls = {c1, c2, c3}
    Threshold = 2
    RecoverySeconds = 2
    RetentionWorkers = {t1, t2}
    Kinds = {crop}
    PlateCrop = crop
    Reviewers = {v1}
    Exports = {}
    Nobody = Nobody
    MaxRevision = 1
    MaxRetentionFaults = 1
    Runs = {r1, r2}
    Requests = {q1, q2}
    MaxConcurrentRuns = 1
    MaxTrainingFaults = 2
CHECK_DEADLOCK FALSE
INVARIANTS
    EffectsWithinBudget
    ResultsAreDurable
    LiveJobsAreAttended
PROPERTIES
    OneActsAtATime
    AbandonedIsRetried
    OnlyCancellationOrphans
    OpenIsProbedUnlessOrphaned
    ExpiredAreDeleted
    SubmissionsEnd
