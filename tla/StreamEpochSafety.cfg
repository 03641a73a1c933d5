SPECIFICATION Spec
CONSTANTS
    SlotCount = 3
    Members = {m1, m2}
    ScanEnd = 3
    MaxWaits = 1
    MaxReorgs = 1
    MaxOutages = 0
    MaxCrashes = 0
INVARIANT TypeOK
INVARIANT EachSlotOnce
INVARIANT WeightIsCast
INVARIANT FinalCoversEveryUnitOnce
INVARIANT TailCarriesTheCrossing
INVARIANT CountersMatchTheProofs
PROPERTY NeverGivesUpOnEnough
SYMMETRY MemberSymmetry
CHECK_DEADLOCK FALSE
