SPECIFICATION PartsSpec
CONSTANTS
    e1 = e1
    a = a  b = b
    NoEvent = NoEvent
    Events = {e1, e2}
    OccurredAt <- FirstIsOlder
    Capacities = {1, 2}
    MaxBoots = 2
    MaxOutboxFaults = 2
    Workers = {w1, w2}
    Payloads = {a, b, bad}
    Malformed = {bad}
    Camera <- CameraOf
    BatchSize = 1
    MaxLength = 1
    DeleteAfterAck = TRUE
    MaxMessages = 2
    MaxFaults = 2
    ClientQueueSize = 2
    ReplaySize = 2
    MaxEvents = 4
    MaxRepeats = 1
    MaxHubFaults = 1
CHECK_DEADLOCK FALSE
INVARIANTS
    AcceptedIsKept
    GapsAreHonest
PROPERTIES
    NoOvertaking
    AcceptedIsPublished
    EverythingSettles
    SubscriptionsEnd
