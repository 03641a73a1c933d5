SPECIFICATION Spec
CONSTANTS
    committee1 = committee1
    committee2 = committee2
    final1 = final1
    final2 = final2
    Jobs <- MCJobs
    Committee <- MCCommittee
    Persisted <- MCPersisted
    Oversized <- MCOversized
    Children <- MCChildren
    Members <- MCMembers
    LinkRetries = 1
    SpoolCapacity = 1
    TablesHeld = 1
    MaxEvents = 2
    MaxDiskFaults = 0
INVARIANTS
    StoreKeepsRealProofs
CHECK_DEADLOCK FALSE
