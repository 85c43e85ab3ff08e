SPECIFICATION AuditSpec
CONSTANTS
    Listings = {l1}
    Reservations = {r1, r2}
    Customers = {c}
    Settlers = {s1, s2}
    Admins = {a}
    MaxQty = 2
    MaxTotal = 3
SYMMETRY ReservationSymmetry
INVARIANTS
    Conservation
    SettledOnce
    StockAccounted
PROPERTIES
    NoStockStranded
