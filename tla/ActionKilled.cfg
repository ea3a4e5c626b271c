SPECIFICATION FairSpec
CONSTANTS
    Workers = {w1, w2}
    MaxAttempts = 2
    StaleAfter = 1
    MaxLag = 1
    MaxFaults = 2
PROPERTY
    KilledClaimRecovers
