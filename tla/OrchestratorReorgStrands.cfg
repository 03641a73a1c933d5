SPECIFICATION FairSpec
CONSTANTS
    First = 0
    Last = 3
    Pipeline = "streaming"
    Lookahead = 2
    HoldAhead = 2
    MaxReorgs = 1
    MaxCrashes = 0
    LateReorgs = FALSE
    Registry <- SameRegistry
    Still <- NoEpoch
    Overgrown <- NoEpoch
PROPERTY ReorgCostsOnlyLatency
CHECK_DEADLOCK FALSE
