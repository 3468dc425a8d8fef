SPECIFICATION FairSpec
CONSTANTS
    HeapSize = 13
    Parts = 2
    RxParts = 3
    MaxWire = 4
INVARIANTS EveryMessageLeaks
PROPERTIES KeepAliveAnswered
