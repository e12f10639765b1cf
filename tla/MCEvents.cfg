SPECIFICATION MCSpec
CONSTANTS
    Claims = {m1, m2}
    Situations <- MCSituations
    Limit = 3
    NoTemplate = NoTemplate
    Foreign = Foreign
    MaxDisturbances = 2
INVARIANTS TypeOK AnnouncedFirst
PROPERTIES EventsStop
CHECK_DEADLOCK FALSE
