SPECIFICATION Spec
SYMMETRY UserCalculatorSymmetry
CONSTANTS
    Users = {u1, u2}
    Orders = {o1}
    MaxLevel = 2
    Amount <- MCAmount
    Calculators = {c1, c2}
    Releasers = {r1}
    Clawers = {x1}
    MaxRetries = 2
    Churn = TRUE
    Corrections = FALSE
    MaxAborts = 1
    Payouts = {}
    PayoutAmounts = {}
    Requesters = {}
    Reviewers = {}
    Runners = {}
INVARIANTS
    CommissionBookedOnce
    ReleaseIsWhole
CHECK_DEADLOCK FALSE
