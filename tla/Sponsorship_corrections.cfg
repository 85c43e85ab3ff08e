SPECIFICATION FairSpec
CONSTANTS
    Users = {a, b, c}
    Founders = {a}
    Clients = {c1, c2}
    MaxUses = 1
    MaxPerDevice = 1
    MaxChanges = 2
INVARIANTS
    RedemptionsWithinLimit
    NobodyAboveThemselves
    SponsorInSync
    PathsAreChains
PROPERTIES
    GraphConverges
CHECK_DEADLOCK FALSE
