SPECIFICATION Spec
CONSTANTS
    MiB = 2
    MiPerGi = 4
    Boards <- MCBoards
    Selectors <- MCSelectors
    Pools <- MCPools
    SliceNames = {"s1", "s2"}
    Layouts <- MCLayouts
    Asks <- MCAsks
    MaxGen = 2
    MaxHeld = 1
INVARIANTS TypeOK NoDoubleCount CandidatesMatchScheduler MidpointsRobust
