SPECIFICATION Spec
CONSTANTS
    Tasks = {t1, t2, long}
    LongTasks = {long}
    NoTask = NoTask
    Workers = {w1, w2}
    Evt = Evt
    Faults = {"reset", "die", "rejoin", "refuse"}
INVARIANTS RecordSurvives
PROPERTIES KeepsPromise
