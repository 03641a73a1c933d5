SPECIFICATION Spec
CONSTANTS
    SlotCount = 2
    Members = {m1}
    ScanEnd = 3
    MaxWaits = 1
    MaxReorgs = 0
    MaxOutages = 0
    MaxCrashes = 0
INVARIANT UnitsAscend
CHECK_DEADLOCK FALSE
