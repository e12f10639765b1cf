SPECIFICATION MCSpec
CONSTANTS
    Keys = {"k"}
    Workers = {w1}
    Tuples = {"a", "b"}
    Specs <- MCSpecs
    RejectedSpecs <- MCRejected
    NoObj = NoObj
    ResolveCacheCap = 2
    MaxDisturbances = 3
PROPERTIES ForeignNeverDeleted
CHECK_DEADLOCK FALSE
