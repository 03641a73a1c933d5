SPECIFICATION FairSpec
CONSTANTS
    First = 0
    Last = 3
    Pipeline = "batch"
    Lookahead = 2
    HoldAhead = 2
    MaxReorgs = 2
    MaxCrashes = 2
    LateReorgs = FALSE
    Registry <- OwnRegistry
    Still <- SecondAdvance
    Overgrown <- LastAdvance
INVARIANT RepublishedAlike
PROPERTY SettlesUnlessStuck
CHECK_DEADLOCK FALSE
