SPECIFICATION LiveSpec
CONSTANTS
    Keys = {"k"}
    Workers = {w1}
    Tuples = {"a", "b"}
    Specs <- LiveSpecs
    RejectedSpecs <- MCRejected
    NoObj = NoObj
    ResolveCacheCap = 1
    MaxDisturbances = 2
PROPERTIES EventuallyConverged
CHECK_DEADLOCK FALSE
