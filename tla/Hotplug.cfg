SPECIFICATION FairSpec
CONSTANTS
    RawCap = 2
    SockCap = 1
    KernelSubsystems = {"accel", "net"}
INVARIANTS TypeOK AcceptedEventProbed NoLostWakeup
PROPERTIES TickerFloor ListenerDeathNoticed SettledStormProbed
