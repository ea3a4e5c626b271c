SPECIFICATION ReviewSpec
CONSTANTS
    Items = {i1}
    Labelers = {l1}
    Promotions = {}
    MaxDecisions = 1
    MaxReviewFaults = 1
    FilesTear = FALSE
CHECK_DEADLOCK FALSE
PROPERTY
    AuditsAreDelivered
