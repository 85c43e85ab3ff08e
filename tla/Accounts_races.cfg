SPECIFICATION Spec
CONSTANTS
    Phones = {ph1}
    Clients = {c1, c2}
    MaxStrikes = 2
    MaxFailures = 1
    MaxAttempts = 3
    MaxDisturbed = 2
    MaxTokens = 4
SYMMETRY ClientSymmetry
INVARIANTS
    OtpIsSpent
    StrikesEnforced
    HourlyGuessLimit
    RotationIsLinear
PROPERTIES
    LoggedOutStaysOut
CHECK_DEADLOCK FALSE
