SPECIFICATION FairSpec
CONSTANTS
    Workers = {w1, w2}
    Evt = Evt
    MaxFd = 2
    Faults = {"refuse", "die", "vanish"}
INVARIANTS TypeOK OneConnection NoDangling
PROPERTIES Reconnects
CHECK_DEADLOCK FALSE
