SPECIFICATION MCSpec
CONSTANTS
    Keys = {"k"}
    Workers = {w1}
    Tuples = {"a", "b"}
    Specs <- MCSpecs
    RejectedSpecs <- MCRejected
    NoObj = NoObj
    ResolveCacheCap = 2
    MaxDisturbances = 3
INVARIANTS
    TypeOK SettledIsCurrent TemplateFromOneSpec
    GapRepairOwed ShutdownKeepsRecreate
PROPERTIES
    OwnerNeverChanges
CHECK_DEADLOCK FALSE
