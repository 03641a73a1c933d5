SPECIFICATION Spec
CONSTANTS
    First = 0
    Last = 1
    Pipeline = "batch"
    Lookahead = 2
    HoldAhead = 2
    MaxReorgs = 1
    MaxCrashes = 0
    LateReorgs = TRUE
    Registry <- SameRegistry
    Still <- NoEpoch
    Overgrown <- NoEpoch
PROPERTY PublishesCanonical
CHECK_DEADLOCK FALSE
