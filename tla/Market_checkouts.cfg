SPECIFICATION Spec
SYMMETRY ClientKeySymmetry
CONSTANTS
    Listings = {1, 2}
    InStock = 2
    ItemLists <- MCItemLists
    Keys = {k1, k2}
    Clients = {c1, c2}
    MaxOrdersPerHour = 1
    MaxQty = 2
    MaxRows = 2
    MaxEdits = 3
INVARIANTS
    CyclesNeedSettlement
    AnswersMatchCart
PROPERTIES
    RemovedIsFinal
    CartNeverShrinks
CHECK_DEADLOCK FALSE
