SPECIFICATION Spec
CONSTANTS
    SlotCount = 2
    Members = {m1}
    ScanEnd = 3
    MaxWaits = 1
    MaxReorgs = 0
    MaxOutages = 1
    MaxCrashes = 0
INVARIANT OutageIsRepaired
CHECK_DEADLOCK FALSE
