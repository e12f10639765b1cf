SPECIFICATION MCSpec
CONSTANTS
    c1 = c1
    c2 = c2
    c3 = c3
    Claims = {c1, c2, c3}
    Devices = {"gpu0", "gpu1"}
    Alloc <- MCAlloc
    Pods <- MCPods
    NoClaim = NoClaim
    MaxDisturbances = 6
INVARIANTS TypeOK PreparedHasSpec NoTornSpec NoOrphanWhileServing
PROPERTIES SweepSparesLive EventuallyServed ImplementsPreparation
CHECK_DEADLOCK FALSE
