SPECIFICATION Spec
CONSTANTS
    Listings = {l1}
    Orders = {o1}
    Intents = {i1}
    NoIntent = NoIntent
    Workers = {w1, w2}
    IntentWorkers = {w1}
    Jobs = {}
    Units = 1
    CardsMayFail = FALSE
    MayCancel = TRUE
    AdminTargets = {}
    MaxCrashes = 0
    MaxAborts = 0
PROPERTIES
    PaidIsNotCancelled
CHECK_DEADLOCK FALSE
