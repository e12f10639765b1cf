SPECIFICATION MCSpec
CONSTANTS
    Claims = {m1}
    Situations <- FlipSituations
    Limit = 3
    NoTemplate = NoTemplate
    Foreign = Foreign
    MaxDisturbances = 2
PROPERTIES FlipsShown
CHECK_DEADLOCK FALSE
