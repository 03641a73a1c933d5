SPECIFICATION FairSpec
CONSTANTS
    SlotCount = 2
    Members = {m1}
    ScanEnd = 2
    MaxWaits = 1
    MaxReorgs = 1
    MaxOutages = 1
    MaxCrashes = 1
PROPERTY EpochEnds
CHECK_DEADLOCK FALSE
