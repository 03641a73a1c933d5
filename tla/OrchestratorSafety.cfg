SPECIFICATION FairSpec
CONSTANTS
    First = 0
    Last = 3
    Pipeline = "streaming"
    Lookahead = 2
    HoldAhead = 2
    MaxReorgs = 1
    MaxCrashes = 1
    LateReorgs = TRUE
    Registry <- OwnRegistry
    Still <- NoEpoch
    Overgrown <- NoEpoch
INVARIANT TypeOK
INVARIANT SpeculationIsCurrent
INVARIANT WorkOnItsAccumulator
INVARIANT StreamsOnTheLinkingDiff
INVARIANT PublishedOnTheRecord
INVARIANT FinalizesWhatWasPublished
INVARIANT RestartCostsOneEpoch
PROPERTY AccumulatorMovesByOne
PROPERTY LedgerSpec
PROPERTY SettlesUnlessStuck
CHECK_DEADLOCK FALSE
