SPECIFICATION Spec
CONSTANTS
    Tasks = {t1, t2, long}
    LongTasks = {long}
    NoTask = NoTask
    Workers = {w1}
    Evt = Evt
    Faults = {"reset", "die", "vanish", "refuse", "early", "nvs", "erase", "nomem", "notask"}
INVARIANTS TypeOK TrueComplete
PROPERTIES OneStoryPerBoot
