SPECIFICATION OutboxSpec
CONSTANTS
    e1 = e1
    NoEvent = NoEvent
    Events = {e1, e2}
    OccurredAt <- FirstIsOlder
    Capacities = {1, 2}
    MaxBoots = 2
    MaxOutboxFaults = 2
CHECK_DEADLOCK FALSE
INVARIANT
    AcceptedIsDurable
