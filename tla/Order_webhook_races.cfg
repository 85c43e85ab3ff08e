SPECIFICATION FairSpec
CONSTANTS
    Listings = {l1}
    Orders = {o1}
    Intents = {i1, i2}
    NoIntent = NoIntent
    Workers = {w1, w2}
    IntentWorkers = {w1}
    Jobs = {j1}
    Units = 1
    CardsMayFail = TRUE
    MayCancel = FALSE
    AdminTargets = {}
    MaxCrashes = 1
    MaxAborts = 1
INVARIANTS
    OnePaidEvent
    PaidHasCapturedPayment
PROPERTIES
    FollowsLifecycle
    ChargedBecomesPaid
    HoldEnds
CHECK_DEADLOCK FALSE
