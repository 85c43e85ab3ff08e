SPECIFICATION Spec
SYMMETRY WorkerIntentSymmetry
CONSTANTS
    Listings = {l1}
    Orders = {o1}
    Intents = {i1}
    NoIntent = NoIntent
    Workers = {w1, w2}
    IntentWorkers = {w1, w2}
    Jobs = {j1}
    Units = 1
    CardsMayFail = TRUE
    MayCancel = TRUE
    AdminTargets = {"packing", "cancelled"}
    MaxCrashes = 0
    MaxAborts = 0
INVARIANTS
    PaidMeansCharged
    NoHoldAfterEnd
CHECK_DEADLOCK FALSE
