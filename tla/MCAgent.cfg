SPECIFICATION MCSpec
CONSTANTS
    Cards = {"cpu", "w1", "w2", "apu", "nv", "nvh", "arc", "bmc", "dpu", "m1", "m2", "u1", "u2", "vpu"}
    Facts <- MCFacts
    Price <- MCPrice
    Index <- MCIndex
    Trees <- MCTrees
    Models = {"W", "APU", "NV", "ARC"}
    CPU = "cpu"
    NoCard = NoCard
    NoAddr = NoAddr
    NoNode = NoNode
    NoModel = NoModel
    NoSystem = NoSystem
    NoSpec = NoSpec
    RAM = 4
    MaxStale = 1
    ApiOmitsBandwidth = TRUE
    MaxDisturbances = 2
INVARIANTS TypeOK PoolAccepted FabricIsNotCompute CapacityIsReal NumbersAreOwn
           SelectableIsUsable NameIsSilicon
PROPERTIES ROCmIsConfined FactsDoNotFlap OutageEndsInIndex
CHECK_DEADLOCK FALSE
