SPECIFICATION MCSpec
CONSTANTS
    Devices = {"gpu0", "gpu1"}
    MaxStale = 1
    NoSlices = NoSlices
    MaxDisturbances = 4
INVARIANTS TypeOK
PROPERTIES EventuallyPublished StalledLoopRestarted
