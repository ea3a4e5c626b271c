SPECIFICATION FairBreakerSpec
CONSTANTS
    Calls = {c1, c2, c3}
    Threshold = 2
    RecoverySeconds = 2
PROPERTY
    OpenBecomesHalfOpen
