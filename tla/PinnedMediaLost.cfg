SPECIFICATION RetentionSpec
CONSTANTS
    RetentionWorkers = {t1, t2}
    Kinds = {crop}
    PlateCrop = crop
    Reviewers = {v1}
    Exports = {x1, x2}
    Nobody = Nobody
    MaxRevision = 1
    MaxRetentionFaults = 0
CHECK_DEADLOCK FALSE
INVARIANT
    PinnedMediaStays
