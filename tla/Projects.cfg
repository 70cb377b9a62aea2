SPECIFICATION ProjectsSpec
CONSTANTS
    Setter = {s1, s2}
    Changes = 1
    Page = {g1, g2, g3}
    Topic = {i1, i2}
    Editor = {e1, e2}
    RuleText <- Rules
    StartsOn <- Starts
    Lateness <- Delays
    Moves = 3
    MaxRepeatInterval = 99
    MaxRepeatSkippedDates = 2
    MaxRepeatPlanSteps = 5
INVARIANTS
    ProjectsTypeOK
    Entitled
    SameChecks
    HiddenIsMissing
    BlockedAreNoMembers
    PagesInOrder
    NoRepetitionLost
CHECK_DEADLOCK FALSE
