SPECIFICATION FairSpec
CONSTANTS
    Users = {u1}
    Orders = {o1}
    MaxLevel = 1
    Amount <- MCAmountTwo
    Calculators = {c1}
    Releasers = {r1}
    Clawers = {x1}
    MaxRetries = 1
    Churn = FALSE
    Corrections = TRUE
    MaxAborts = 0
    Payouts = {p1, p2}
    PayoutAmounts = {1, 2}
    Requesters = {q1, q2}
    Reviewers = {v1}
    Runners = {b1, b2}
INVARIANTS
    PaidFromEarnings
    RequestsBooked
PROPERTIES
    GivenBackStaysUnsent
    DueIsReleased
CHECK_DEADLOCK FALSE
