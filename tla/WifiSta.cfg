SPECIFICATION FairSpec
CONSTANTS
    MAX_RETRY = 5
    MaxQueue = 4
    LeaseEnds = TRUE
INVARIANTS TypeOK TriesAreBounded RestsOnlyWhenSpent StatusCatchesUp
PROPERTIES ConnectsOrGivesUp
CHECK_DEADLOCK FALSE
