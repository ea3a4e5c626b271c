SPECIFICATION RecordsSpec
CONSTANTS
    a = a  b = b
    Workers = {w1, w2}
    Payloads = {a, b, bad}
    Malformed = {bad}
    Camera <- CameraOf
    BatchSize = 2
    MaxLength = 2
    DeleteAfterAck = TRUE
    MaxMessages = 3
    MaxFaults = 1
    RetentionWorkers = {t1, t2}
    Kinds = {crop}
    PlateCrop = crop
    Reviewers = {v1}
    Exports = {x1, x2}
    Nobody = Nobody
    MaxRevision = 1
    MaxRetentionFaults = 1
    Items = {i1}
    Labelers = {l1}
    Promotions = {p1, p2}
    MaxDecisions = 2
    MaxReviewFaults = 2
    FilesTear = TRUE
    Judges = {j1, j2}
    Ttl = 2
    MaxEdits = 2
    MaxTime = 4
    Sightings = {s1, s2, s3}
    IdentityReviews = {r1, r2}
    Handlers = {h1}
    MaxEvidence = 2
SYMMETRY Interchangeable
CHECK_DEADLOCK FALSE
INVARIANTS
    EvidenceIsOwned
    SettledIsHandled
    BatchKeepsCameraOrder
    NoOrphanObjects
    PinnedEventStays
    ExportedIsInArtifact
    ReviewsAreAudited
    CompletedIsOwn
    RulesAreFresh
PROPERTIES
    DeliverySpec
