SPECIFICATION FairSpec
CONSTANTS
    Admins = {a1, a2}
    Others = {"worker"}
    MaxVersion = 2
    Drafts <- MCDrafts
    StartPolicies <- MCStartPolicies
    Queues = {"commission-release", "qualification-recalc"}
    Users <- MCUsers
    Named = {"u1"}
    Qualifying <- MCQualifying
    FirstDead = "commission-release"
    Attempts = 2
    MaxStalled = 1
    MaxDead = 2
    MaxEvents = 3
INVARIANTS
    ReplayedWasQueued
PROPERTIES
    NeverWithoutPolicy
    SecondActiveNeedsOverlap
    JobsEnd
    EvaluatedUnderPolicy
CHECK_DEADLOCK FALSE
