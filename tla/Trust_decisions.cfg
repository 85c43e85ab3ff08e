SPECIFICATION FairSpec
CONSTANTS
    Disputes = {d1}
    Returns = {r1}
    MaxInFlight = 2
    MaxFailures = 1
INVARIANTS
    HoldFollowsDispute
    ClawbackJustified
    ProcessedMeansClawed
PROPERTIES
    EventsAreProcessed
CHECK_DEADLOCK FALSE
