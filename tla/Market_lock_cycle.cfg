SPECIFICATION Spec
SYMMETRY ClientKeySymmetry
CONSTANTS
    Listings = {1, 2}
    InStock = 2
    ItemLists <- MCItemLists
    Keys = {k1, k2}
    Clients = {c1, c2}
    MaxOrdersPerHour = 2
    MaxQty = 1
    MaxRows = 0
    MaxEdits = 0
INVARIANTS
    NoLockCycle
CHECK_DEADLOCK FALSE
