SPECIFICATION FairSpec
CONSTANTS
    Tasks = {t1, t2, long}
    LongTasks = {long}
    NoTask = NoTask
    Workers = {w1}
    Evt = Evt
    Faults = {"reset", "die", "erase"}
INVARIANTS ReportBeforeTask
PROPERTIES ReportedAtLast
